-------------------------- MODULE SessionFreezeProofs --------------------------
(***************************************************************************)
(* A frozen machine does not run (HaltedWhileFrozen): in cooperative mode  *)
(* whatever operations are called, on two threads as long as they are      *)
(* FREEZE, RESUME and STEP, for any number of calls and any length of the  *)
(* queues.                                                                 *)
(*                                                                         *)
(* No micro-operation looks at what it must not find: a start does not ask *)
(* whether the machine is frozen, sync() not whether the loop has stopped. *)
(* What protects them stands earlier in the same program, or was true when *)
(* the program was begun, so the invariants say of every program what      *)
(* holds before each of its steps.                                         *)
(*                                                                         *)
(* With the same means: a freeze shown as armed is armed in the            *)
(* FreezeController (ArmedAsShown), in cooperative mode; and a frozen      *)
(* machine at rest is the one on screen (ViewCurrent), in either mode, as  *)
(* long as the operations are FREEZE, RESUME and STEP.                     *)
(***************************************************************************)
EXTENDS SessionControllerProofs

(* Before the i-th step of p, c holds: it holds now or a B makes it true,   *)
(* and no C in between makes it false.  Safe: it holds before every A.      *)
Before(p, i, B, C, c) ==
  \/ c /\ \A k \in 1..(i - 1) : p[k] \notin C
  \/ \E j \in 1..(i - 1) : p[j] \in B /\ \A k \in (j + 1)..(i - 1) : p[k] \notin C
Safe(p, A, B, C, c) == \A i \in 1..Len(p) : p[i] \in A => Before(p, i, B, C, c)

(* Only a fired freeze has the emulation thread change the debug state. *)
EmuFired == thread # "fired" => todo["emu"] = <<>>

(* Whoever freezes the machine, waits for it or enters an overlay has       *)
(* stopped the loop.                                                        *)
HaltedOps == FreezeOps \union SyncOps \union EnteredOps \union {Op("await")}
StoppedFirst == Safe(todo["ui"], HaltedOps, Stops, Starts, ~running)

(* Cooperative mode: while a batch executes, the UI thread does no more than *)
(* take events; a suspended app neither runs nor will run a frozen machine;  *)
(* the panels a failed switch looks at are current; and a freeze that has    *)
(* fired has stopped the loop.                                               *)
InBatch == thread \in {"batch", "pause", "fired"}
CoopAlone ==
  frontend.cooperative =>
    /\ InBatch => ~Has(todo["ui"], UiOps \ (Pulls \union ViewOps)) /\ ~suspended
    /\ suspended /\ running => Has(todo["ui"], Stops)
    /\ Has(todo["ui"], {Op("startUnlessShownFrozen")}) => mirror = state /\ ~Has(todo["ui"], WillChange)
    /\ suspended /\ suspendedRunning => ~state.frozen
    /\ Has(todo["emu"], FreezeOps) => ~running

(* Where FREEZE, RESUME and STEP are all that is called, no freeze is ever  *)
(* armed, so none fires.                                                    *)
DebuggerOnly == frontend.calls \subseteq DebuggerCalls
DebuggerUiOps == DisarmOps \union SetFrozenOps \union PostOps \union ViewOps
   \union [op : {"start", "stop", "postLoop", "postFreeze", "applyTraceFlags", "pull", "stepKeycode", "stepInstruction"}]
NothingArmed ==
  DebuggerOnly =>
    /\ ~flag.pcArmed /\ ~flag.scanArmed /\ check \in {"idle", "pc", "scan"} /\ thread # "fired"
    /\ ~Has(todo["ui"], UiOps \ DebuggerUiOps) /\ ~suspended

(* The loop does not run, and will not be started, while the machine is     *)
(* frozen.                                                                  *)
Freezers == FreezeOps \union EnteredOps
FrozenStops ==
  ~Overlapping =>
    /\ running => ~state.frozen
    /\ Safe(todo["ui"], Starts, UnfreezeOps, Freezers, ~state.frozen)

-----------------------------------------------------------------------------
(* What must hold before a step, along a program.                           *)

LEMMA SafeParts ==
  ASSUME NEW S, NEW p \in Seq(S), NEW A, NEW B, NEW C, NEW c \in BOOLEAN
  PROVE  /\ ~Has(p, A) => Safe(p, A, B, C, c)
         /\ c /\ ~Has(p, C) => Safe(p, A, B, C, c)
         /\ \A d \in BOOLEAN : Safe(p, A, B, C, c) /\ (c => d) => Safe(p, A, B, C, d)
<1>1. ~Has(p, A) => Safe(p, A, B, C, c)
  BY DEF Safe, Has
<1>2. c /\ ~Has(p, C) => Safe(p, A, B, C, c)
  <2>1. \A i \in 1..Len(p) : \A k \in 1..(i - 1) : k \in 1..Len(p)
    OBVIOUS
  <2> QED
    BY <2>1 DEF Safe, Before, Has
<1>3. \A d \in BOOLEAN : Safe(p, A, B, C, c) /\ (c => d) => Safe(p, A, B, C, d)
  BY DEF Safe, Before
<1> QED
  BY <1>1, <1>2, <1>3

(* A part keeps what it finds, or its rest needs nothing. *)
LEMMA SafeJoined ==
  ASSUME NEW S, NEW p \in Seq(S), NEW q \in Seq(S), NEW A, NEW B, NEW C, NEW c \in BOOLEAN, NEW d \in BOOLEAN,
         Safe(p, A, B, C, c), Safe(q, A, B, C, d), d => c /\ ~Has(p, C)
  PROVE  Safe(p \o q, A, B, C, c)
<1>1. Len(p \o q) = Len(p) + Len(q) /\ Len(p) \in Nat /\ Len(q) \in Nat
  BY ConcatProperties
<1>2. /\ \A i \in 1..Len(p) : (p \o q)[i] = p[i]
      /\ \A i \in 1..Len(q) : (p \o q)[i + Len(p)] = q[i]
  BY <1>1, ConcatProperties
<1> SUFFICES ASSUME NEW i \in 1..Len(p \o q), (p \o q)[i] \in A
             PROVE  Before(p \o q, i, B, C, c)
  BY DEF Safe
<1>3. CASE i <= Len(p)
  <2>1. i \in 1..Len(p) /\ p[i] \in A
    BY <1>1, <1>2, <1>3
  <2>2. Before(p, i, B, C, c)
    BY <2>1 DEF Safe
  <2>3. \A k \in 1..(i - 1) : k \in 1..Len(p) /\ (p \o q)[k] = p[k]
    BY <1>1, <1>2, <2>1
  <2>4. \A j \in 1..(i - 1) : \A k \in (j + 1)..(i - 1) : k \in 1..(i - 1)
    BY <2>1, <1>1
  <2> QED
    BY <2>2, <2>3, <2>4 DEF Before
<1>4. CASE ~(i <= Len(p))
  <2> DEFINE n == i - Len(p)
  <2>1. n \in 1..Len(q) /\ i = n + Len(p)
    BY <1>1, <1>4
  <2>2. q[n] \in A
    BY <1>2, <2>1
  <2>3. Before(q, n, B, C, d)
    BY <2>1, <2>2 DEF Safe
  <2>4. \A k \in 1..(n - 1) : k \in 1..Len(q) /\ k + Len(p) \in 1..(i - 1) /\ (p \o q)[k + Len(p)] = q[k]
    BY <1>1, <1>2, <2>1
  <2>5. \A k \in 1..(i - 1) : k \in 1..Len(p) \/ (\E m \in 1..(n - 1) : k = m + Len(p))
    <3> SUFFICES ASSUME NEW k \in 1..(i - 1), k \notin 1..Len(p) PROVE \E m \in 1..(n - 1) : k = m + Len(p)
      OBVIOUS
    <3>1. k - Len(p) \in 1..(n - 1) /\ k = (k - Len(p)) + Len(p)
      BY <1>1, <2>1
    <3> QED
      BY <3>1
  <2> HIDE DEF n
  <2>6. CASE d /\ \A k \in 1..(n - 1) : q[k] \notin C
    <3>1. \A k \in 1..Len(p) : (p \o q)[k] \notin C
      BY <1>2, <2>6 DEF Has
    <3>2. \A k \in 1..(i - 1) : (p \o q)[k] \notin C
      BY <2>4, <2>5, <2>6, <3>1
    <3> QED
      BY <2>6, <3>2 DEF Before
  <2>7. CASE \E j \in 1..(n - 1) : q[j] \in B /\ \A k \in (j + 1)..(n - 1) : q[k] \notin C
    <3>1. PICK j \in 1..(n - 1) : q[j] \in B /\ \A k \in (j + 1)..(n - 1) : q[k] \notin C
      BY <2>7
    <3>2. j + Len(p) \in 1..(i - 1) /\ (p \o q)[j + Len(p)] \in B
      BY <2>4, <3>1
    <3>3. ASSUME NEW k \in (j + Len(p) + 1)..(i - 1) PROVE (p \o q)[k] \notin C
      <4>1. k - Len(p) \in (j + 1)..(n - 1) /\ k - Len(p) \in 1..(n - 1) /\ k = (k - Len(p)) + Len(p)
        BY <1>1, <2>1
      <4>2. (p \o q)[k] = q[k - Len(p)]
        BY <2>4, <4>1
      <4> QED
        BY <3>1, <4>1, <4>2
    <3> QED
      BY <3>2, <3>3 DEF Before
  <2> QED
    BY <2>3, <2>6, <2>7 DEF Before
<1> QED
  BY <1>3, <1>4

(* A program begins. *)
LEMMA SafeBegun ==
  ASSUME NEW S, NEW p \in Seq(S), p # <<>>, NEW A, NEW B, NEW C, NEW c \in BOOLEAN, Safe(p, A, B, C, c)
  PROVE  /\ Head(p) \in A => c
         /\ \A d \in BOOLEAN : (Head(p) \in B \/ (c /\ Head(p) \notin C) => d) => Safe(Tail(p), A, B, C, d)
<1>1. Len(p) \in Nat \ {0} /\ Head(p) = p[1] /\ \A i \in 1..Len(Tail(p)) : Tail(p)[i] = p[i + 1]
  BY HeadTailProperties, EmptySeq
<1>2. Len(Tail(p)) = Len(p) - 1
  BY HeadTailProperties
<1>3. Head(p) \in A => c
  <2>1. 1 \in 1..Len(p)
    BY <1>1
  <2>2. Before(p, 1, B, C, c) => c
    BY DEF Before
  <2> QED
    BY <1>1, <2>1, <2>2 DEF Safe
<1>4. ASSUME NEW d \in BOOLEAN, Head(p) \in B \/ (c /\ Head(p) \notin C) => d,
             NEW i \in 1..Len(Tail(p)), Tail(p)[i] \in A
      PROVE  Before(Tail(p), i, B, C, d)
  <2>1. i + 1 \in 1..Len(p) /\ p[i + 1] \in A
    BY <1>1, <1>2, <1>4
  <2>2. Before(p, i + 1, B, C, c)
    BY <2>1 DEF Safe
  <2>3. \A k \in 1..(i - 1) : k \in 1..Len(Tail(p)) /\ k + 1 \in 1..((i + 1) - 1) /\ Tail(p)[k] = p[k + 1]
    BY <1>1, <1>2, <1>4
  <2>4. CASE c /\ \A k \in 1..((i + 1) - 1) : p[k] \notin C
    <3>1. 1 \in 1..((i + 1) - 1)
      BY <1>2
    <3>2. d
      BY <1>1, <1>4, <2>4, <3>1
    <3>3. \A k \in 1..(i - 1) : Tail(p)[k] \notin C
      BY <2>3, <2>4
    <3> QED
      BY <3>2, <3>3 DEF Before
  <2>5. CASE \E j \in 1..((i + 1) - 1) : p[j] \in B /\ \A k \in (j + 1)..((i + 1) - 1) : p[k] \notin C
    <3>1. PICK j \in 1..((i + 1) - 1) : p[j] \in B /\ \A k \in (j + 1)..((i + 1) - 1) : p[k] \notin C
      BY <2>5
    <3>2. CASE j = 1
      <4>1. d
        BY <1>1, <1>4, <3>1, <3>2
      <4>2. ASSUME NEW k \in 1..(i - 1) PROVE Tail(p)[k] \notin C
        <5>1. k + 1 \in (j + 1)..((i + 1) - 1)
          BY <3>2
        <5> QED
          BY <2>3, <3>1, <5>1
      <4> QED
        BY <4>1, <4>2 DEF Before
    <3>3. CASE j # 1
      <4>1. j - 1 \in 1..(i - 1) /\ (j - 1) + 1 = j
        BY <3>3
      <4>2. Tail(p)[j - 1] \in B
        BY <2>3, <3>1, <4>1
      <4>3. ASSUME NEW k \in ((j - 1) + 1)..(i - 1) PROVE Tail(p)[k] \notin C
        <5>1. k \in 1..(i - 1) /\ k + 1 \in (j + 1)..((i + 1) - 1)
          BY <4>1
        <5> QED
          BY <2>3, <3>1, <5>1
      <4> QED
        BY <4>1, <4>2, <4>3 DEF Before
    <3> QED
      BY <3>2, <3>3
  <2> QED
    BY <2>2, <2>4, <2>5 DEF Before
<1> QED
  BY <1>3, <1>4 DEF Safe

(* Programs that are safe wherever they begin, and those of them that make  *)
(* c true.                                                                  *)
After(p, B, C) == \E j \in 1..Len(p) : p[j] \in B /\ \A k \in (j + 1)..Len(p) : p[k] \notin C
Sure(A, B, C) == {p \in Seq(UiOps) : Safe(p, A, B, C, FALSE)}
Made(A, B, C) == {p \in Sure(A, B, C) : After(p, B, C)}

LEMMA MadeParts ==
  ASSUME NEW A, NEW B, NEW C
  PROVE  /\ \A p \in Seq(UiOps) : ~Has(p, A) => p \in Sure(A, B, C)
         /\ \A p, q \in Sure(A, B, C) : p \o q \in Sure(A, B, C)
         /\ \A p \in Sure(A, B, C), q \in Made(A, B, C) : p \o q \in Made(A, B, C)
         /\ \A b \in UiOps : b \in B /\ b \notin A => <<b>> \in Made(A, B, C)
         /\ \A p \in Made(A, B, C), q \in Seq(UiOps) : ~Has(q, C) => p \o q \in Made(A, B, C)
         /\ \A p \in Made(A, B, C), o \in UiOps : p \o <<o>> \in Sure(A, B, C)
         /\ Made(A, B, C) \subseteq Sure(A, B, C) /\ Sure(A, B, C) \subseteq Seq(UiOps)
<1>1. \A p \in Seq(UiOps) : ~Has(p, A) => p \in Sure(A, B, C)
  BY SafeParts DEF Sure
<1>2. ASSUME NEW p \in Sure(A, B, C), NEW q \in Sure(A, B, C) PROVE p \o q \in Sure(A, B, C)
  <2>1. p \in Seq(UiOps) /\ q \in Seq(UiOps) /\ Safe(p, A, B, C, FALSE) /\ Safe(q, A, B, C, FALSE)
    BY DEF Sure
  <2>2. Safe(p \o q, A, B, C, FALSE)
    BY <2>1, SafeJoined
  <2>3. p \o q \in Seq(UiOps)
    BY <2>1, ConcatTyped
  <2> QED
    BY <2>2, <2>3 DEF Sure
<1>3. ASSUME NEW p \in Seq(UiOps), NEW q \in Seq(UiOps)
      PROVE  /\ p \o q \in Seq(UiOps) /\ Len(p \o q) = Len(p) + Len(q) /\ Len(p) \in Nat /\ Len(q) \in Nat
             /\ \A i \in 1..Len(p) : (p \o q)[i] = p[i]
             /\ \A i \in 1..Len(q) : (p \o q)[i + Len(p)] = q[i]
  <2>1. p \o q \in Seq(UiOps) /\ Len(p \o q) = Len(p) + Len(q) /\ Len(p) \in Nat /\ Len(q) \in Nat
    BY ConcatProperties
  <2> QED
    BY <2>1, ConcatProperties
<1>4. ASSUME NEW p \in Sure(A, B, C), NEW q \in Made(A, B, C) PROVE p \o q \in Made(A, B, C)
  <2>1. p \in Seq(UiOps) /\ q \in Seq(UiOps) /\ q \in Sure(A, B, C)
    BY DEF Sure, Made
  <2>2. PICK j \in 1..Len(q) : q[j] \in B /\ \A k \in (j + 1)..Len(q) : q[k] \notin C
    BY DEF Made, After
  <2>3. j + Len(p) \in 1..Len(p \o q) /\ (p \o q)[j + Len(p)] \in B
    BY <1>3, <2>1, <2>2
  <2>4. ASSUME NEW k \in (j + Len(p) + 1)..Len(p \o q) PROVE (p \o q)[k] \notin C
    <3>0. Len(p \o q) = Len(p) + Len(q) /\ Len(p) \in Nat /\ Len(q) \in Nat
      BY <1>3, <2>1
    <3>1. k - Len(p) \in (j + 1)..Len(q) /\ k - Len(p) \in 1..Len(q) /\ k = (k - Len(p)) + Len(p)
      BY <3>0
    <3>2. (p \o q)[k] = q[k - Len(p)]
      BY <1>3, <2>1, <3>1
    <3> QED
      BY <2>2, <3>1, <3>2
  <2>5. After(p \o q, B, C)
    BY <2>3, <2>4 DEF After
  <2> QED
    BY <1>2, <2>1, <2>5 DEF Made
<1>5. ASSUME NEW b \in UiOps, b \in B, b \notin A PROVE <<b>> \in Made(A, B, C)
  <2>1. <<b>> \in Seq(UiOps) /\ ~Has(<<b>>, A)
    BY <1>5, OneOp
  <2>2. Len(<<b>>) = 1 /\ <<b>>[1] = b
    OBVIOUS
  <2>3. After(<<b>>, B, C)
    BY <1>5, <2>2 DEF After
  <2> QED
    BY <1>1, <2>1, <2>3 DEF Made
<1>6. ASSUME NEW p \in Made(A, B, C), NEW q \in Seq(UiOps), \A i \in 1..(Len(q) - 1) : q[i] \notin C
      PROVE  p \o q \in Sure(A, B, C)
  <2>1. p \in Seq(UiOps) /\ Safe(p, A, B, C, FALSE)
    BY DEF Made, Sure
  <2>2. PICK j \in 1..Len(p) : p[j] \in B /\ \A k \in (j + 1)..Len(p) : p[k] \notin C
    BY DEF Made, After
  <2>3. Len(p \o q) = Len(p) + Len(q) /\ Len(p) \in Nat /\ Len(q) \in Nat /\ p \o q \in Seq(UiOps)
    BY <1>3, <2>1
  <2> SUFFICES ASSUME NEW i \in 1..Len(p \o q), (p \o q)[i] \in A PROVE Before(p \o q, i, B, C, FALSE)
    BY <2>3 DEF Sure, Safe
  <2>4. CASE i <= Len(p)
    <3>1. i \in 1..Len(p) /\ \A k \in 1..i : k \in 1..Len(p) /\ (p \o q)[k] = p[k]
      BY <1>3, <2>1, <2>3, <2>4
    <3>2. p[i] \in A
      BY <3>1
    <3>3. Before(p, i, B, C, FALSE)
      BY <2>1, <3>1, <3>2 DEF Safe
    <3>4. \A k \in 1..(i - 1) : k \in 1..i
      BY <3>1
    <3>5. \A m \in 1..(i - 1) : \A k \in (m + 1)..(i - 1) : k \in 1..i
      BY <3>1
    <3> QED
      BY <3>1, <3>3, <3>4, <3>5 DEF Before
  <2>5. CASE ~(i <= Len(p))
    <3>1. j \in 1..(i - 1) /\ (p \o q)[j] \in B
      BY <1>3, <2>1, <2>2, <2>3, <2>5
    <3>2. ASSUME NEW k \in (j + 1)..(i - 1) PROVE (p \o q)[k] \notin C
      <4>1. CASE k <= Len(p)
        <5>1. k \in 1..Len(p) /\ k \in (j + 1)..Len(p)
          BY <4>1
        <5> QED
          BY <1>3, <2>1, <2>2, <5>1
      <4>2. CASE ~(k <= Len(p))
        <5>1. k - Len(p) \in 1..(Len(q) - 1) /\ k - Len(p) \in 1..Len(q) /\ k = (k - Len(p)) + Len(p)
          BY <2>3, <4>2
        <5>2. (p \o q)[k] = q[k - Len(p)]
          BY <1>3, <2>1, <5>1
        <5> QED
          BY <1>6, <5>1, <5>2
      <4> QED
        BY <4>1, <4>2
    <3> QED
      BY <3>1, <3>2 DEF Before
  <2> QED
    BY <2>4, <2>5
<1>7. ASSUME NEW p \in Made(A, B, C), NEW q \in Seq(UiOps), ~Has(q, C) PROVE p \o q \in Made(A, B, C)
  <2>1. p \in Seq(UiOps)
    BY DEF Made, Sure
  <2>2. Len(p \o q) = Len(p) + Len(q) /\ Len(p) \in Nat /\ Len(q) \in Nat /\ p \o q \in Seq(UiOps)
    BY <1>3, <2>1
  <2>3. PICK j \in 1..Len(p) : p[j] \in B /\ \A k \in (j + 1)..Len(p) : p[k] \notin C
    BY DEF Made, After
  <2>4. j \in 1..Len(p \o q) /\ (p \o q)[j] \in B
    BY <1>3, <2>1, <2>2, <2>3
  <2>5. ASSUME NEW k \in (j + 1)..Len(p \o q) PROVE (p \o q)[k] \notin C
    <3>1. CASE k <= Len(p)
      <4>1. k \in 1..Len(p) /\ k \in (j + 1)..Len(p)
        BY <3>1
      <4> QED
        BY <1>3, <2>1, <2>3, <4>1
    <3>2. CASE ~(k <= Len(p))
      <4>1. k - Len(p) \in 1..Len(q) /\ k = (k - Len(p)) + Len(p)
        BY <2>2, <3>2
      <4>2. (p \o q)[k] = q[k - Len(p)]
        BY <1>3, <2>1, <4>1
      <4> QED
        BY <1>7, <4>1, <4>2 DEF Has
    <3> QED
      BY <3>1, <3>2
  <2>6. After(p \o q, B, C)
    BY <2>4, <2>5 DEF After
  <2>7. \A i \in 1..(Len(q) - 1) : i \in 1..Len(q)
    BY <2>2
  <2>8. \A i \in 1..(Len(q) - 1) : q[i] \notin C
    BY <1>7, <2>7 DEF Has
  <2> QED
    BY <1>6, <2>6, <2>8 DEF Made
<1>8. ASSUME NEW p \in Made(A, B, C), NEW o \in UiOps PROVE p \o <<o>> \in Sure(A, B, C)
  <2>1. <<o>> \in Seq(UiOps) /\ Len(<<o>>) = 1
    OBVIOUS
  <2>2. \A i \in 1..(Len(<<o>>) - 1) : <<o>>[i] \notin C
    BY <2>1
  <2> QED
    BY <1>6, <2>1, <2>2
<1> QED
  BY <1>1, <1>2, <1>4, <1>5, <1>7, <1>8 DEF Made, Sure

-----------------------------------------------------------------------------
(* The programs: which of their steps need a stopped, or an unfrozen, machine. *)

(* Programs that neither start, stop and wait nor freeze. *)
GuardedOps == HaltedOps \union Starts
Harmless == {p \in Seq(UiOps) : ~Has(p, GuardedOps)}
Halting == Sure(HaltedOps, Stops, Starts)
Halts == Made(HaltedOps, Stops, Starts)
Thawing == Sure(Starts, UnfreezeOps, Freezers)
Thaws == Made(Starts, UnfreezeOps, Freezers)

LEMMA GuardedNames ==
  \A o \in GuardedOps : o.op \in {"start", "await", "sync", "entered"} \/ (o.op = "setFrozen" /\ o.frozen)
  BY DEF GuardedOps, HaltedOps, Starts, EnteredOps, SyncOps, FreezeOps, SetFrozenOps, Op

LEMMA HarmlessClosed ==
  /\ \A p, q \in Harmless : p \o q \in Harmless
  /\ \A p \in Harmless : ~Has(p, HaltedOps) /\ ~Has(p, Starts) /\ ~Has(p, Freezers) /\ p \in Seq(UiOps)
  /\ Harmless \subseteq Halting /\ Harmless \subseteq Thawing
<1>1. ASSUME NEW p \in Harmless, NEW q \in Harmless PROVE p \o q \in Harmless
  <2>1. p \in Seq(UiOps) /\ q \in Seq(UiOps) /\ ~Has(p, GuardedOps) /\ ~Has(q, GuardedOps)
    BY DEF Harmless
  <2>2. p \o q \in Seq(UiOps) /\ ~Has(p \o q, GuardedOps)
    BY <2>1, Joined
  <2> QED
    BY <2>2 DEF Harmless
<1>2. ASSUME NEW p \in Harmless PROVE ~Has(p, HaltedOps) /\ ~Has(p, Starts) /\ ~Has(p, Freezers) /\ p \in Seq(UiOps)
  BY DEF Harmless, GuardedOps, Has, HaltedOps, Freezers
<1>3. Harmless \subseteq Halting /\ Harmless \subseteq Thawing
  BY <1>2, MadeParts DEF Halting, Thawing
<1> QED
  BY <1>1, <1>2, <1>3

LEMMA HarmlessParts ==
  /\ <<>> \in Harmless
  /\ DisarmBoth \in Harmless /\ ArmPcChange \in Harmless /\ DisarmPcChange \in Harmless /\ DisarmScanLoopExit \in Harmless
  /\ \A p \in PC : ArmScanLoopExit(p) \in Harmless
  /\ \A o \in Owners \union {"none"} : <<SetFrozen(FALSE, o)>> \in Harmless
  /\ \A v, w \in {"TRUE", "FALSE", "keep"} : <<SetArmed(v, w)>> \in Harmless
  /\ \A k \in StepKinds, g \in Nat : <<PostStep(k, g)>> \in Harmless
  /\ \A g \in Nat : <<[op |-> "onFrozenView", gen |-> g]>> \in Harmless
  /\ \A n \in PlainNames \ {"start", "await"} : <<Op(n)>> \in Harmless
  /\ Stop \in Harmless /\ Pull \in Harmless /\ ApplyTraceFlags \in Harmless /\ ArmScanLoop \in Harmless
<1>a. ASSUME NEW o \in UiOps, o.op \notin {"start", "await", "sync", "entered"}, o.op = "setFrozen" => ~o.frozen
      PROVE  <<o>> \in Harmless
  <2>1. o \notin GuardedOps
    BY <1>a, GuardedNames
  <2>2. <<o>> \in Seq(UiOps) /\ ~Has(<<o>>, GuardedOps)
    BY <2>1, OneOp
  <2> QED
    BY <2>2 DEF Harmless
<1>b. ASSUME NEW p \in Seq(UiOps), \A i \in 1..Len(p) : p[i].op = "store"
      PROVE  p \in Harmless
  BY <1>b, GuardedNames DEF Harmless, Has
<1>1. <<>> \in Harmless
  BY <1>b, EmptySeq DEF Harmless, Has
<1>2. DisarmBoth \in Harmless /\ ArmPcChange \in Harmless /\ DisarmPcChange \in Harmless /\ DisarmScanLoopExit \in Harmless
  <2>1. /\ \A i \in 1..Len(DisarmBoth) : DisarmBoth[i].op = "store"
        /\ \A i \in 1..Len(ArmPcChange) : ArmPcChange[i].op = "store"
        /\ \A i \in 1..Len(DisarmPcChange) : DisarmPcChange[i].op = "store"
        /\ \A i \in 1..Len(DisarmScanLoopExit) : DisarmScanLoopExit[i].op = "store"
    BY DEF DisarmBoth, ArmPcChange, DisarmPcChange, DisarmScanLoopExit, Store
  <2> QED
    BY <1>b, <2>1, PartsTyped
<1>3. ASSUME NEW p \in PC PROVE ArmScanLoopExit(p) \in Harmless
  <2>1. \A i \in 1..Len(ArmScanLoopExit(p)) : ArmScanLoopExit(p)[i].op = "store"
    BY DEF ArmScanLoopExit, Store
  <2> QED
    BY <1>b, <2>1, PartsTyped
<1>4. \A o \in Owners \union {"none"} : <<SetFrozen(FALSE, o)>> \in Harmless
  <2>1. \A o \in Owners \union {"none"} : SetFrozen(FALSE, o) \in UiOps /\ SetFrozen(FALSE, o).op = "setFrozen" /\ ~SetFrozen(FALSE, o).frozen
    BY UiAtoms DEF SetFrozen
  <2> QED
    BY <1>a, <2>1
<1>5. \A v, w \in {"TRUE", "FALSE", "keep"} : <<SetArmed(v, w)>> \in Harmless
  <2>1. \A v, w : SetArmed(v, w).op = "setArmed"
    BY DEF SetArmed
  <2> QED
    BY <1>a, <2>1, UiAtoms
<1>6. \A k \in StepKinds, g \in Nat : <<PostStep(k, g)>> \in Harmless
  <2>1. \A k, g : PostStep(k, g).op = "post"
    BY DEF PostStep
  <2> QED
    BY <1>a, <2>1, UiAtoms
<1>7. \A g \in Nat : <<[op |-> "onFrozenView", gen |-> g]>> \in Harmless
  BY <1>a, UiAtoms
<1>8. \A n \in PlainNames \ {"start", "await"} : <<Op(n)>> \in Harmless
  <2>1. \A n : Op(n).op = n
    BY DEF Op
  <2> QED
    BY <1>a, <2>1, UiAtoms DEF PlainNames
<1>9. Stop \in Harmless /\ Pull \in Harmless /\ ApplyTraceFlags \in Harmless /\ ArmScanLoop \in Harmless
  BY <1>8 DEF Stop, Pull, ApplyTraceFlags, ArmScanLoop, PlainNames
<1> QED
  BY <1>1, <1>2, <1>3, <1>4, <1>5, <1>6, <1>7, <1>8, <1>9

LEMMA GuardedParts ==
  /\ Stop \in Halts
  /\ Start \in Halting /\ Start \in Seq(UiOps) /\ ~Has(Start, Freezers)
  /\ ClearFreeze \in Harmless /\ ClearFreeze \in Thaws
  /\ \A o \in Owners : SetFrozenState(TRUE, o) \in Seq(UiOps) /\ ~Has(SetFrozenState(TRUE, o), Starts)
  /\ \A k \in SyncKinds : <<SyncOn(k)>> \in Seq(UiOps) /\ ~Has(<<SyncOn(k)>>, Starts) /\ ~Has(<<SyncOn(k)>>, Freezers)
  /\ ArmPc \in Harmless /\ DisarmPc \in Harmless /\ DisarmScanLoop \in Harmless
  /\ \A p \in PC : ArmScanLoopExit(p) \o <<SetArmed("FALSE", "TRUE")>> \o ApplyTraceFlags \in Harmless
<1>1. Stop \in Halts
  <2>1. Op("stop") \in UiOps /\ Op("stop") \in Stops /\ Op("stop") \notin HaltedOps
    BY UiAtoms, GuardedNames DEF PlainNames, Stops, GuardedOps, Op
  <2> QED
    BY <2>1, MadeParts DEF Stop, Halts
<1>2. Start \in Halting /\ Start \in Seq(UiOps) /\ ~Has(Start, Freezers)
  <2>1. Op("start") \in UiOps /\ Op("start") \notin HaltedOps /\ Op("start") \notin Freezers
    BY UiAtoms DEF PlainNames, HaltedOps, Freezers, FreezeOps, SetFrozenOps, SyncOps, EnteredOps, Op
  <2>2. Start \in Seq(UiOps) /\ ~Has(Start, Freezers) /\ ~Has(Start, HaltedOps)
    BY <2>1, OneOp DEF Start
  <2> QED
    BY <2>2, MadeParts DEF Halting
<1>3. ClearFreeze \in Harmless /\ ClearFreeze \in Thaws
  <2> DEFINE s == <<SetFrozen(FALSE, "none")>>
  <2>1. ClearFreeze = <<>> \o s \o ApplyTraceFlags
    BY DEF ClearFreeze, SetFrozenState
  <2>2. s \in Thaws
    <3>1. SetFrozen(FALSE, "none") \in UiOps /\ SetFrozen(FALSE, "none") \in UnfreezeOps /\ SetFrozen(FALSE, "none") \notin Starts
      BY UiAtoms DEF UnfreezeOps, SetFrozenOps, SetFrozen, Starts, EnteredOps, Op
    <3> QED
      BY <3>1, MadeParts DEF Thaws
  <2>3. s \in Harmless /\ ApplyTraceFlags \in Harmless /\ <<>> \in Harmless
    BY HarmlessParts
  <2> HIDE DEF s
  <2>4. <<>> \o s \in Harmless /\ <<>> \o s \o ApplyTraceFlags \in Harmless
    BY <2>3, HarmlessClosed
  <2>5. <<>> \o s \in Thaws
    BY <2>2, <2>3, HarmlessClosed, MadeParts DEF Thaws, Thawing
  <2>6. <<>> \o s \o ApplyTraceFlags \in Thaws
    BY <2>3, <2>5, HarmlessClosed, MadeParts DEF Thaws
  <2> QED
    BY <2>1, <2>4, <2>6
<1>4. ASSUME NEW o \in Owners PROVE SetFrozenState(TRUE, o) \in Seq(UiOps) /\ ~Has(SetFrozenState(TRUE, o), Starts)
  <2> DEFINE s == <<SetFrozen(TRUE, o)>>
  <2>1. SetFrozenState(TRUE, o) = DisarmBoth \o s \o ApplyTraceFlags
    BY DEF SetFrozenState
  <2>2. s \in Seq(UiOps) /\ ~Has(s, Starts)
    <3>1. SetFrozen(TRUE, o) \in UiOps /\ SetFrozen(TRUE, o) \notin Starts
      BY UiAtoms DEF SetFrozen, Starts, EnteredOps, Op
    <3> QED
      BY <3>1, OneOp
  <2>3. /\ DisarmBoth \in Seq(UiOps) /\ ~Has(DisarmBoth, Starts)
        /\ ApplyTraceFlags \in Seq(UiOps) /\ ~Has(ApplyTraceFlags, Starts)
    BY HarmlessParts, HarmlessClosed
  <2> HIDE DEF s
  <2>4. DisarmBoth \o s \in Seq(UiOps) /\ ~Has(DisarmBoth \o s, Starts)
    BY <2>2, <2>3, Joined
  <2>5. DisarmBoth \o s \o ApplyTraceFlags \in Seq(UiOps) /\ ~Has(DisarmBoth \o s \o ApplyTraceFlags, Starts)
    BY <2>3, <2>4, Joined
  <2> QED
    BY <2>1, <2>5
<1>5. ASSUME NEW k \in SyncKinds
      PROVE  <<SyncOn(k)>> \in Seq(UiOps) /\ ~Has(<<SyncOn(k)>>, Starts) /\ ~Has(<<SyncOn(k)>>, Freezers)
  <2>1. SyncOn(k) \in UiOps
    BY UiAtoms
  <2>2. SyncOn(k) \notin Starts /\ SyncOn(k) \notin Freezers
    BY DEF SyncOn, Starts, EnteredOps, Freezers, FreezeOps, SetFrozenOps, Op
  <2> QED
    BY <2>1, <2>2, OneOp
<1>6. ArmPc \in Harmless /\ DisarmPc \in Harmless /\ DisarmScanLoop \in Harmless
  BY HarmlessParts, HarmlessClosed DEF ArmPc, DisarmPc, DisarmScanLoop
<1>7. \A p \in PC : ArmScanLoopExit(p) \o <<SetArmed("FALSE", "TRUE")>> \o ApplyTraceFlags \in Harmless
  BY HarmlessParts, HarmlessClosed
<1> QED
  BY <1>1, <1>2, <1>3, <1>4, <1>5, <1>6, <1>7

(* What the classes give: the machine is halted before it is changed. *)
LEMMA HaltsClosed ==
  /\ \A p \in Halting, q \in Halting : p \o q \in Halting
  /\ \A p \in Halts, q \in Seq(UiOps) : ~Has(q, Starts) => p \o q \in Halts
  /\ \A p \in Halts, o \in UiOps : p \o <<o>> \in Halting
  /\ Halts \subseteq Halting
  /\ \A p \in Thawing, q \in Thawing : p \o q \in Thawing
  /\ \A p \in Thawing, q \in Thaws : p \o q \in Thaws
  /\ \A p \in Thaws, q \in Seq(UiOps) : ~Has(q, Freezers) => p \o q \in Thaws
  /\ \A p \in Thaws, o \in UiOps : p \o <<o>> \in Thawing
  /\ Thaws \subseteq Thawing
  /\ \A p \in Seq(UiOps) : ~Has(p, Starts) => p \in Thawing
  BY MadeParts DEF Halting, Halts, Thawing, Thaws

(* Every operation stops the loop before it waits for the machine, and      *)
(* thaws the machine before it starts it.                                   *)
LEMMA HaltedProgram ==
  ASSUME NEW c \in Operations
  PROVE  Program(c) \in Halting /\ Program(c) \in Thawing
<1>h. \A p \in Harmless : p \in Halting /\ p \in Thawing /\ ~Has(p, Starts) /\ ~Has(p, Freezers) /\ p \in Seq(UiOps)
  BY HarmlessClosed
<1>r. Resume \in Halting /\ Resume \in Thaws
  <2>1. ClearFreeze \in Halting /\ ClearFreeze \in Thaws /\ Resume = ClearFreeze \o Start
    BY <1>h, GuardedParts DEF Resume, ClearFreeze
  <2> QED
    BY <2>1, GuardedParts, HaltsClosed
<1>s. /\ \A k \in SyncKinds : Stop \o <<SyncOn(k)>> \in Halts
      /\ \A k \in SyncKinds : Stop \o <<SyncOn(k)>> \in Seq(UiOps) /\ ~Has(Stop \o <<SyncOn(k)>>, Starts) /\ ~Has(Stop \o <<SyncOn(k)>>, Freezers)
  <2> SUFFICES ASSUME NEW k \in SyncKinds
               PROVE  /\ Stop \o <<SyncOn(k)>> \in Halts /\ Stop \o <<SyncOn(k)>> \in Seq(UiOps)
                      /\ ~Has(Stop \o <<SyncOn(k)>>, Starts) /\ ~Has(Stop \o <<SyncOn(k)>>, Freezers)
    OBVIOUS
  <2>1. /\ <<SyncOn(k)>> \in Seq(UiOps) /\ ~Has(<<SyncOn(k)>>, Starts) /\ ~Has(<<SyncOn(k)>>, Freezers)
        /\ Stop \in Seq(UiOps) /\ ~Has(Stop, Starts) /\ ~Has(Stop, Freezers)
    BY <1>h, HarmlessParts, GuardedParts
  <2>2. Stop \o <<SyncOn(k)>> \in Halts
    BY <2>1, GuardedParts, HaltsClosed
  <2>3. (Has(Stop \o <<SyncOn(k)>>, Starts) <=> Has(Stop, Starts) \/ Has(<<SyncOn(k)>>, Starts)) /\ Stop \o <<SyncOn(k)>> \in Seq(UiOps)
    BY <2>1, Joined
  <2>4. Has(Stop \o <<SyncOn(k)>>, Freezers) <=> Has(Stop, Freezers) \/ Has(<<SyncOn(k)>>, Freezers)
    BY <2>1, Joined
  <2> QED
    BY <2>1, <2>2, <2>3, <2>4
<1>1. CASE c \in {"armPcChange", "armScanLoopExit", "disarm"}
  <2>1. Program(c) \in Harmless
    BY <1>1, GuardedParts, HarmlessParts, HarmlessClosed DEF Program
  <2> QED
    BY <1>h, <2>1
<1>2. CASE c \in {"stepKeycode", "stepInstruction", "applyReload", "runAsm", "resumeAfterSuspend"}
  <2>1. Program(c) \in Harmless
    BY <1>2, HarmlessParts DEF Program, PlainNames
  <2> QED
    BY <1>h, <2>1
<1>3. CASE c = "suspend"
  <2>1. <<Op("readRunning")>> \in Harmless
    BY HarmlessParts DEF PlainNames
  <2>2. Program(c) \in Harmless
    BY <1>3, <2>1, HarmlessParts, HarmlessClosed DEF Program
  <2> QED
    BY <1>h, <2>2
<1>4. CASE c = "freeze"
  <2> DEFINE s == SetFrozenState(TRUE, "Calculator")
             f == <<Op("postFreeze")>>
  <2>1. Program(c) = (Stop \o s) \o f \o Pull
    BY <1>4 DEF Program, Freeze
  <2>2. s \in Seq(UiOps) /\ ~Has(s, Starts)
    BY GuardedParts DEF Owners
  <2>3. f \in Harmless /\ Pull \in Harmless /\ Stop \in Harmless
    BY HarmlessParts DEF PlainNames
  <2> HIDE DEF s, f
  <2>4. Stop \o s \in Halts /\ (Stop \o s) \o f \in Halts /\ (Stop \o s) \o f \o Pull \in Halts
    BY <1>h, <2>2, <2>3, GuardedParts, HaltsClosed
  <2>5. s \in Thawing
    BY <2>2, HaltsClosed
  <2>6. Stop \o s \in Thawing /\ (Stop \o s) \o f \in Thawing /\ (Stop \o s) \o f \o Pull \in Thawing
    BY <1>h, <2>3, <2>5, HaltsClosed
  <2> QED
    BY <2>1, <2>4, <2>6, HaltsClosed
<1>5. CASE c = "resume"
  BY <1>5, <1>h, <1>r, HarmlessParts, HaltsClosed DEF Program
<1>6. CASE c = "resetMachine"
  <2> DEFINE a == Resume \o Pull
             b == Stop \o <<SyncOn("softReset")>>
  <2>1. Program(c) = a \o (b \o Start)
    BY <1>6 DEF Program, SoftResetStopped
  <2>2. a \in Halting /\ a \in Thaws
    BY <1>h, <1>r, HarmlessParts, HaltsClosed
  <2>3. b \in Halts /\ b \in Seq(UiOps) /\ ~Has(b, Freezers)
    BY <1>s DEF SyncKinds
  <2> HIDE DEF a, b
  <2>4. b \o Start \in Halting
    BY <2>3, GuardedParts, HaltsClosed
  <2>5. b \o Start \in Seq(UiOps) /\ ~Has(b \o Start, Freezers)
    BY <2>3, GuardedParts, Joined
  <2> QED
    BY <2>1, <2>2, <2>4, <2>5, HaltsClosed
<1>7. CASE c = "cleanReset"
  <2> DEFINE a == Resume \o Pull
             b == <<Op("cleanReset")>>
  <2>1. Program(c) = a \o b
    BY <1>7 DEF Program
  <2>2. a \in Halting /\ a \in Thaws
    BY <1>h, <1>r, HarmlessParts, HaltsClosed
  <2>3. b \in Harmless
    BY HarmlessParts DEF PlainNames
  <2> HIDE DEF a, b
  <2> QED
    BY <1>h, <2>1, <2>2, <2>3, HaltsClosed
<1>8. CASE c = "applyState"
  <2> DEFINE b == <<SyncOn("applyState")>>
             a == Stop \o ClearFreeze
  <2>1. Program(c) = (a \o b) \o Start \o Pull
    BY <1>8 DEF Program
  <2>2. a \in Halts /\ a \in Thaws
    BY <1>h, GuardedParts, HarmlessParts, HaltsClosed
  <2>3. b \in Seq(UiOps) /\ ~Has(b, Starts) /\ ~Has(b, Freezers)
    BY GuardedParts DEF SyncKinds
  <2> HIDE DEF a, b
  <2>4. a \o b \in Halts /\ a \o b \in Thaws
    BY <2>2, <2>3, HaltsClosed
  <2>5. (a \o b) \o Start \in Halting /\ (a \o b) \o Start \in Thaws
    BY <2>4, GuardedParts, HaltsClosed
  <2>6. Pull \in Halting /\ Pull \in Thawing
    BY <1>h, HarmlessParts
  <2> QED
    BY <2>1, <2>5, <2>6, HaltsClosed
<1>9. CASE c = "failedSwitch"
  <2> DEFINE b == Stop \o <<SyncOn("nothing")>>
             o == <<Op("startUnlessShownFrozen")>>
  <2>1. Program(c) = b \o o
    BY <1>9 DEF Program
  <2>2. b \in Halts /\ b \in Seq(UiOps) /\ ~Has(b, Starts)
    BY <1>s DEF SyncKinds
  <2>3. o \in Harmless
    BY HarmlessParts DEF PlainNames
  <2> HIDE DEF b, o
  <2>4. b \o o \in Halting
    BY <1>h, <2>2, <2>3, HaltsClosed
  <2>5. b \in Thawing
    BY <2>2, HaltsClosed
  <2> QED
    BY <1>h, <2>1, <2>3, <2>4, <2>5, HaltsClosed
<1> QED
  BY <1>1, <1>2, <1>3, <1>4, <1>5, <1>6, <1>7, <1>8, <1>9 DEF Operations, DebuggerCalls

(* So do the programs that a reading step is replaced by. *)
LEMMA HaltedReplacements ==
  /\ \A f \in BOOLEAN : RunAsm(f) \in Halting /\ RunAsm(f) \in Thawing
  /\ \A f \in BOOLEAN : LET q == Stop \o <<SyncOn("applyReload")>> \o (IF f THEN <<>> ELSE Start)
                        IN  q \in Halting /\ Safe(q, Starts, UnfreezeOps, Freezers, ~f)
  /\ FreezeInPlace("Cpu") \o <<Op("buildView")>> \in Thawing
  /\ FreezeInPlace("Cpu") \o <<Op("buildView")>> \in Seq(UiOps) /\ ~Has(FreezeInPlace("Cpu") \o <<Op("buildView")>>, Starts)
<1>h. \A p \in Harmless : p \in Halting /\ p \in Thawing /\ ~Has(p, Starts) /\ ~Has(p, Freezers) /\ p \in Seq(UiOps)
  BY HarmlessClosed
<1>1. ASSUME NEW f \in BOOLEAN PROVE RunAsm(f) \in Halting /\ RunAsm(f) \in Thawing
  <2> DEFINE d == Stop \o DisarmPc \o DisarmScanLoop
             s == <<SyncOn("runAsmOverlay")>>
             e == [op |-> "entered", freezeOnStart |-> f]
  <2>1. RunAsm(f) = d \o ClearFreeze \o s \o <<e>> \o Pull
    BY DEF RunAsm
  <2>2. d \in Halts
    BY <1>h, GuardedParts, HaltsClosed
  <2>3. d \in Harmless
    BY HarmlessParts, GuardedParts, HarmlessClosed
  <2>4. e \in UiOps
    BY UiAtoms
  <2>5. s \in Seq(UiOps) /\ ~Has(s, Starts) /\ ~Has(s, Freezers)
    BY GuardedParts DEF SyncKinds
  <2> HIDE DEF d, s, e
  <2>6. d \o ClearFreeze \in Halts /\ d \o ClearFreeze \in Thaws
    BY <1>h, <2>2, <2>3, GuardedParts, HaltsClosed
  <2>7. d \o ClearFreeze \o s \in Halts /\ d \o ClearFreeze \o s \in Thaws
    BY <2>5, <2>6, HaltsClosed
  <2>8. d \o ClearFreeze \o s \o <<e>> \in Halting /\ d \o ClearFreeze \o s \o <<e>> \in Thawing
    BY <2>4, <2>7, HaltsClosed
  <2>9. Pull \in Halting /\ Pull \in Thawing
    BY <1>h, HarmlessParts
  <2> QED
    BY <2>1, <2>8, <2>9, HaltsClosed
<1>2. ASSUME NEW f \in BOOLEAN
      PROVE  LET q == Stop \o <<SyncOn("applyReload")>> \o (IF f THEN <<>> ELSE Start)
             IN  q \in Halting /\ Safe(q, Starts, UnfreezeOps, Freezers, ~f)
  <2> DEFINE b == Stop \o <<SyncOn("applyReload")>>
             r == IF f THEN <<>> ELSE Start
  <2>1. <<SyncOn("applyReload")>> \in Seq(UiOps) /\ ~Has(<<SyncOn("applyReload")>>, Starts) /\ ~Has(<<SyncOn("applyReload")>>, Freezers)
    BY GuardedParts DEF SyncKinds
  <2>2. Stop \in Seq(UiOps) /\ ~Has(Stop, Starts) /\ ~Has(Stop, Freezers) /\ <<>> \in Harmless
    BY <1>h, HarmlessParts
  <2>3. b \in Halts
    BY <2>1, GuardedParts, HaltsClosed
  <2>4. b \in Seq(UiOps) /\ ~Has(b, Starts)
    BY <2>1, <2>2, Joined
  <2>5. ~Has(b, Freezers)
    BY <2>1, <2>2, Joined
  <2>6. r \in Halting /\ r \in Seq(UiOps) /\ ~Has(r, Freezers) /\ (f => ~Has(r, Starts))
    BY <1>h, <2>2, GuardedParts
  <2> HIDE DEF b, r
  <2>7. b \o r \in Halting
    BY <2>3, <2>6, HaltsClosed
  <2>8. CASE f
    <3>1. ~Has(b \o r, Starts) /\ b \o r \in Seq(UiOps)
      BY <2>4, <2>6, <2>8, Joined
    <3>2. Safe(b \o r, Starts, UnfreezeOps, Freezers, ~f)
      BY <3>1, SafeParts
    <3> QED
      BY <2>7, <3>2 DEF b, r
  <2>9. CASE ~f
    <3>1. ~Has(b \o r, Freezers) /\ b \o r \in Seq(UiOps)
      BY <2>4, <2>5, <2>6, Joined
    <3>2. Safe(b \o r, Starts, UnfreezeOps, Freezers, ~f)
      BY <2>9, <3>1, SafeParts
    <3> QED
      BY <2>7, <3>2 DEF b, r
  <2> QED
    BY <2>8, <2>9
<1>3. FreezeInPlace("Cpu") \o <<Op("buildView")>> \in Seq(UiOps) /\ ~Has(FreezeInPlace("Cpu") \o <<Op("buildView")>>, Starts)
  <2>1. FreezeInPlace("Cpu") \in Seq(UiOps) /\ ~Has(FreezeInPlace("Cpu"), Starts)
    BY GuardedParts DEF FreezeInPlace, Owners
  <2>2. <<Op("buildView")>> \in Seq(UiOps) /\ ~Has(<<Op("buildView")>>, Starts)
    BY <1>h, HarmlessParts DEF PlainNames
  <2> QED
    BY <2>1, <2>2, Joined
<1> QED
  BY <1>1, <1>2, <1>3, HaltsClosed

-----------------------------------------------------------------------------
(* The steps of the UI thread.                                              *)

(* The steps of the UI thread.  A steady one does not read what another     *)
(* operation left, and what it adds to its program neither starts nor stops *)
(* the loop, nor freezes the machine.                                       *)
SteadyNames == {"store", "setArmed", "applyTraceFlags", "readPc", "postLoop", "post", "sync", "stepKeycode",
                "stepInstruction", "cleanReset", "onFrozenView", "buildView", "pull", "stop", "start", "readRunning"}
StoreOps == DisarmOps \union ArmOps
AddedOps == DisarmOps \union ArmOps \union SetArmedOps \union PostOps
            \union {Op("postLoop"), Op("await"), Op("applyTraceFlags")}
Adds(h, q) ==
  /\ ~Has(q, UiOps \ AddedOps)
  /\ q # <<>> => h.op \in {"readPc", "sync", "start", "stepKeycode", "stepInstruction"}
  /\ Has(q, {Op("await")}) => h.op = "sync"
  /\ Has(q, SetArmedOps) \/ Has(q, StoreOps) => h.op = "readPc"
  /\ Has(q, UiOps \ DebuggerUiOps) => h.op \in {"sync", "readPc"}
Steady ==
  LET h == Head(todo["ui"])
  IN  /\ todo["ui"] # <<>> /\ h.op \in SteadyNames
      /\ \E q \in Seq(UiOps) : todo'["ui"] = q \o Tail(todo["ui"]) /\ Adds(h, q)
      /\ state'.frozen = state.frozen /\ (h.op # "setArmed" => state' = state)
      /\ mirror' = IF h.op = "pull" THEN state ELSE mirror
      /\ running' = IF h.op = "start" THEN TRUE ELSE IF h.op = "stop" THEN FALSE ELSE running
      /\ IF h.op = "readRunning" THEN suspended' = TRUE /\ suspendedRunning' = running
                                 ELSE UNCHANGED <<suspended, suspendedRunning>>
      /\ IF h.op = "store" THEN DoStore(h) ELSE flag' = flag
      /\ h.op = "setArmed" => SetArmedLocked("ui")
      /\ h.op = "readPc" => ReadPc("ui")
Reading == ReadFrozen \/ ReadArmed \/ Entered \/ StartUnlessShownFrozen \/ StartIfSuspendedRunning
Locking == SetFrozenLocked("ui") /\ UNCHANGED <<mirror, suspended, suspendedRunning>>

LEMMA UiLeaves ==
  ASSUME TypeOK, UiThread
  PROVE  UNCHANGED <<frontend, thread, check>> /\ todo'["emu"] = todo["emu"]
<1>0. TodoOK /\ UNCHANGED <<frontend, thread, check>>
  BY DEF TypeOK, UiThread, SessionOp, ControllerOp, MicroOp, StoreFlag, SetFrozenLocked, SetArmedLocked, RefreshTraceFlags,
         ReadPc, StopLoop, StartLoop, PostLoop, PostJob, PostSync, PostStepIfFrozen, BeginNextStep, Raise,
         PullDebugState, CleanReset, ReadFrozen, ReadArmed, Entered, StartUnlessShownFrozen, ReadRunning,
         StartIfSuspendedRunning, TakeEvent, OnFrozenView, BuildView, fcVars, emuVars, controllerVars
<1>2. CASE TakeEvent
  BY <1>0, <1>2 DEF TakeEvent, TodoOK, Threads
<1>3. CASE SetFrozenLocked("ui")
  <2>1. StateOK /\ "ui" \in Threads /\ "emu" \in Threads \ {"ui"}
    BY DEF TypeOK, Threads
  <2>2. \A u \in Threads \ {"ui"} : todo'[u] = todo[u]
    BY <1>0, <1>3, <2>1, Locked
  <2> QED
    BY <1>0, <2>1, <2>2
<1>4. CASE ~TakeEvent /\ ~SetFrozenLocked("ui")
  <2>1. Done("ui") \/ \E q : Replace("ui", q)
    BY <1>4 DEF UiThread, SessionOp, ControllerOp, MicroOp, StoreFlag, SetArmedLocked, RefreshTraceFlags,
         ReadPc, StopLoop, StartLoop, PostLoop, PostJob, PostSync, PostStepIfFrozen, BeginNextStep, Raise,
         PullDebugState, CleanReset, ReadFrozen, ReadArmed, Entered, StartUnlessShownFrozen, ReadRunning,
         StartIfSuspendedRunning, OnFrozenView, BuildView
  <2>2. CASE Done("ui")
    BY <1>0, <2>2 DEF Done, TodoOK, Threads
  <2>3. ASSUME NEW q, Replace("ui", q) PROVE todo'["emu"] = todo["emu"]
    BY <1>0, <2>3 DEF Replace, TodoOK, Threads
  <2> QED
    BY <1>0, <2>1, <2>2, <2>3
<1> QED
  BY <1>0, <1>2, <1>3, <1>4

LEMMA AddedParts ==
  ASSUME TypeOK, NEW h
  PROVE  /\ Adds(h, <<>>)
         /\ h.op = "start" => Adds(h, <<Op("postLoop")>>)
         /\ h.op = "sync" => Adds(h, <<Op("await")>>)
         /\ h.op \in {"stepKeycode", "stepInstruction"} => \A k \in StepKinds : Adds(h, <<PostStep(k, state.generation)>>)
         /\ h.op = "readPc" => Adds(h, ArmScanLoopExit(pc) \o <<SetArmed("FALSE", "TRUE")>> \o ApplyTraceFlags)
<1>g. state.generation \in Nat /\ pc \in PC
  BY DEF TypeOK, FreezeTypeOK, StateOK, DebugStates
<1>1. Adds(h, <<>>)
  BY DEF Adds, Has
<1>2. ASSUME h.op = "start" PROVE Adds(h, <<Op("postLoop")>>)
  <2>1. Op("postLoop") \in UiOps /\ Op("postLoop") \in AddedOps /\ Op("postLoop") \in DebuggerUiOps /\ Op("postLoop") # Op("await")
        /\ Op("postLoop") \notin SetArmedOps /\ Op("postLoop") \notin StoreOps
    BY UiAtoms DEF PlainNames, AddedOps, DebuggerUiOps, Op, SetArmedOps, StoreOps, DisarmOps, ArmOps
  <2> QED
    BY <1>2, <2>1, OneOp DEF Adds
<1>3. ASSUME h.op = "sync" PROVE Adds(h, <<Op("await")>>)
  <2>1. Op("await") \in UiOps /\ Op("await") \in AddedOps /\ Op("await") \notin SetArmedOps /\ Op("await") \notin StoreOps
    BY UiAtoms DEF PlainNames, AddedOps, SetArmedOps, StoreOps, DisarmOps, ArmOps, Op
  <2> QED
    BY <1>3, <2>1, OneOp DEF Adds
<1>4. ASSUME NEW k \in StepKinds, h.op \in {"stepKeycode", "stepInstruction"} PROVE Adds(h, <<PostStep(k, state.generation)>>)
  <2>1. PostStep(k, state.generation) \in UiOps /\ PostStep(k, state.generation) \in PostOps
    BY <1>g, UiAtoms DEF PostOps, PostStep, Job, StepJobs, Jobs
  <2>2. PostStep(k, state.generation) \in AddedOps /\ PostStep(k, state.generation) \in DebuggerUiOps /\ PostStep(k, state.generation) # Op("await")
        /\ PostStep(k, state.generation) \notin SetArmedOps /\ PostStep(k, state.generation) \notin StoreOps
    BY <2>1 DEF AddedOps, DebuggerUiOps, PostStep, Op, SetArmedOps, StoreOps, DisarmOps, ArmOps
  <2> DEFINE p == PostStep(k, state.generation)
  <2>3. <<p>> # <<>> /\ <<p>> \in Seq(UiOps)
    BY <2>1
  <2>4. \A A : Has(<<p>>, A) <=> p \in A
    BY OneOp
  <2>5. p \in UiOps /\ p \in AddedOps /\ p \in DebuggerUiOps /\ p # Op("await") /\ p \notin SetArmedOps /\ p \notin StoreOps
    BY <2>1, <2>2
  <2> HIDE DEF p
  <2>6. Adds(h, <<p>>)
    BY <1>4, <2>3, <2>4, <2>5 DEF Adds
  <2> QED
    BY <2>6 DEF p
<1>5. ASSUME h.op = "readPc" PROVE Adds(h, ArmScanLoopExit(pc) \o <<SetArmed("FALSE", "TRUE")>> \o ApplyTraceFlags)
  <2> DEFINE a == ArmScanLoopExit(pc)
             s == <<SetArmed("FALSE", "TRUE")>>
  <2>1. /\ a \in Seq(UiOps) /\ ~Has(a, UiOps \ AddedOps) /\ ~Has(a, {Op("await")})
    <3>1. a \in Seq(UiOps)
      BY <1>g, PartsTyped
    <3>2. \A i \in 1..Len(a) : a[i] \in DisarmOps \union ArmOps /\ a[i].op = "store"
      <4>1. Store("pcArmed", FALSE) \in DisarmOps /\ Store("seenLoop", FALSE) \in DisarmOps
        BY DEF Store, DisarmOps
      <4>2. Store("armPC", pc) \in ArmOps /\ Store("scanArmed", TRUE) \in ArmOps
        BY <1>g DEF Store, ArmOps
      <4>3. \A f, v : Store(f, v).op = "store"
        BY DEF Store
      <4>4. Len(a) = 4 /\ a[1] = Store("pcArmed", FALSE) /\ a[2] = Store("seenLoop", FALSE)
            /\ a[3] = Store("armPC", pc) /\ a[4] = Store("scanArmed", TRUE)
        BY DEF ArmScanLoopExit
      <4>5. \A i \in 1..4 : i = 1 \/ i = 2 \/ i = 3 \/ i = 4
        OBVIOUS
      <4> HIDE DEF a
      <4> QED
        BY <4>1, <4>2, <4>3, <4>4, <4>5
    <3>3. \A i \in 1..Len(a) : a[i] \in AddedOps /\ a[i] # Op("await")
      BY <3>2 DEF AddedOps, Op
    <3> QED
      BY <3>1, <3>3 DEF Has
  <2>2. s \in Seq(UiOps) /\ ~Has(s, UiOps \ AddedOps) /\ ~Has(s, {Op("await")})
    <3>1. SetArmed("FALSE", "TRUE") \in UiOps /\ SetArmed("FALSE", "TRUE") \in AddedOps /\ SetArmed("FALSE", "TRUE") # Op("await")
      BY UiAtoms DEF SetArmed, AddedOps, SetArmedOps, Op
    <3> QED
      BY <3>1, OneOp
  <2>3. ApplyTraceFlags \in Seq(UiOps) /\ ~Has(ApplyTraceFlags, UiOps \ AddedOps) /\ ~Has(ApplyTraceFlags, {Op("await")})
    <3>1. Op("applyTraceFlags") \in UiOps /\ Op("applyTraceFlags") \in AddedOps /\ Op("applyTraceFlags") # Op("await")
      BY UiAtoms DEF AddedOps, Op, PlainNames
    <3> QED
      BY <3>1, OneOp DEF ApplyTraceFlags
  <2> HIDE DEF a, s
  <2>4. a \o s \in Seq(UiOps) /\ ~Has(a \o s, UiOps \ AddedOps)
    BY <2>1, <2>2, Joined
  <2>5. ~Has(a \o s, {Op("await")})
    BY <2>1, <2>2, Joined
  <2>6. ~Has(a \o s \o ApplyTraceFlags, UiOps \ AddedOps)
    BY <2>3, <2>4, Joined
  <2>7. ~Has(a \o s \o ApplyTraceFlags, {Op("await")})
    <3>0. a \o s \in Seq(UiOps) /\ ApplyTraceFlags \in Seq(UiOps)
      BY <2>3, <2>4
    <3>1. Has((a \o s) \o ApplyTraceFlags, {Op("await")}) <=> Has(a \o s, {Op("await")}) \/ Has(ApplyTraceFlags, {Op("await")})
      BY <3>0, Joined
    <3> QED
      BY <2>3, <2>5, <3>1
  <2> QED
    BY <1>5, <2>6, <2>7 DEF Adds, a, s
<1> QED
  BY <1>1, <1>2, <1>3, <1>4, <1>5

LEMMA UiMoves ==
  ASSUME TypeOK, UiThread
  PROVE  Steady \/ Locking \/ Reading \/ TakeEvent
<1> DEFINE ui == todo["ui"]
           r == Tail(todo["ui"])
           h == Head(todo["ui"])
<1>0. TodoOK /\ StateOK /\ RunnerOK /\ ControllerOK /\ FreezeTypeOK
  BY DEF TypeOK
<1>q. <<>> \in Seq(UiOps) /\ \A p \in Seq(UiOps) : <<>> \o p = p
  BY EmptySeq, ConcatEmptySeq
<1>a. ASSUME NEW n \in SteadyNames, Next1("ui", n), Done("ui")
      PROVE  /\ ui # <<>> /\ h.op = n /\ n \in SteadyNames
             /\ \E q \in Seq(UiOps) : todo'["ui"] = q \o Tail(todo["ui"]) /\ Adds(h, q)
  <2>1. ui # <<>> /\ h.op = n
    BY <1>a DEF Next1
  <2>2. todo'["ui"] = r /\ r \in Seq(UiOps)
    BY <1>0, <1>a, <2>1, UiDone, HeadAndTail DEF TodoOK
  <2>3. todo'["ui"] = <<>> \o Tail(todo["ui"]) /\ Adds(h, <<>>)
    BY <1>q, <2>2, AddedParts
  <2> QED
    BY <1>q, <2>1, <2>3
<1>b. ASSUME NEW n \in SteadyNames, Next1("ui", n), NEW q \in Seq(UiOps), Replace("ui", q), Adds(h, q)
      PROVE  /\ ui # <<>> /\ h.op = n /\ n \in SteadyNames
             /\ \E p \in Seq(UiOps) : todo'["ui"] = p \o Tail(todo["ui"]) /\ Adds(h, p)
  <2>1. ui # <<>> /\ h.op = n
    BY <1>b DEF Next1
  <2>2. todo'["ui"] = q \o r
    BY <1>0, <1>b, <2>1, UiReplaced
  <2> QED
    BY <1>b, <2>1, <2>2
<1>1. CASE SessionOp /\ StoreFlag("ui")
  <2>1. Next1("ui", "store") /\ Done("ui") /\ DoStore(h) /\ UNCHANGED <<state, running, mirror, suspended, suspendedRunning>>
    BY <1>1 DEF StoreFlag, SessionOp, emuVars
  <2> QED
    BY <1>a, <2>1 DEF Steady, SteadyNames
<1>2. CASE SessionOp /\ (PostLoop("ui") \/ PostJob("ui") \/ RefreshTraceFlags("ui"))
  <2>1. PICK n \in {"postLoop", "post", "applyTraceFlags"} :
           Next1("ui", n) /\ Done("ui") /\ UNCHANGED <<flag, state, running, mirror, suspended, suspendedRunning>>
    BY <1>2 DEF PostLoop, PostJob, RefreshTraceFlags, SessionOp, emuVars, fcVars
  <2> QED
    BY <1>a, <2>1 DEF Steady, SteadyNames
<1>3. CASE SessionOp /\ SetArmedLocked("ui")
  <2>1. Next1("ui", "setArmed") /\ Done("ui") /\ UNCHANGED <<flag, running, mirror, suspended, suspendedRunning>> /\ state'.frozen = state.frozen
    BY <1>0, <1>3 DEF SetArmedLocked, SessionOp, emuVars, fcVars, StateOK, DebugStates
  <2>2. ui # <<>> /\ h.op = "setArmed" /\ \E q \in Seq(UiOps) : todo'["ui"] = q \o Tail(todo["ui"]) /\ Adds(h, q)
    BY <1>a, <2>1 DEF SteadyNames
  <2> QED
    BY <1>3, <2>1, <2>2 DEF Steady, SteadyNames
<1>4. CASE CleanReset \/ OnFrozenView \/ BuildView
  <2>1. PICK n \in {"cleanReset", "onFrozenView", "buildView"} :
          Next1("ui", n) /\ Done("ui") /\ UNCHANGED <<flag, state, running, mirror, suspended, suspendedRunning>>
    BY <1>4 DEF CleanReset, OnFrozenView, BuildView, controllerVars, emuVars, fcVars
  <2> QED
    BY <1>a, <2>1 DEF Steady, SteadyNames
<1>5. CASE PullDebugState
  <2>1. Next1("ui", "pull") /\ Done("ui") /\ UNCHANGED <<flag, state, running, suspended, suspendedRunning>> /\ mirror' = state
    BY <1>5 DEF PullDebugState, emuVars, fcVars
  <2> QED
    BY <1>a, <2>1 DEF Steady, SteadyNames
<1>6. CASE SessionOp /\ StopLoop("ui")
  <2>1. Next1("ui", "stop") /\ Done("ui") /\ UNCHANGED <<flag, state, mirror, suspended, suspendedRunning>> /\ running' = FALSE
    BY <1>6 DEF StopLoop, SessionOp, fcVars
  <2> QED
    BY <1>a, <2>1 DEF Steady, SteadyNames
<1>7. CASE ReadRunning
  <2>1. Next1("ui", "readRunning") /\ Done("ui") /\ UNCHANGED <<flag, state, mirror, running>> /\ suspended' = TRUE /\ suspendedRunning' = running
    BY <1>7 DEF ReadRunning, emuVars, fcVars
  <2> QED
    BY <1>a, <2>1 DEF Steady, SteadyNames
<1>8. CASE SessionOp /\ ReadPc("ui")
  <2> DEFINE q == ArmScanLoopExit(pc) \o <<SetArmed("FALSE", "TRUE")>> \o ApplyTraceFlags
  <2>1. Next1("ui", "readPc") /\ Replace("ui", q) /\ UNCHANGED <<flag, state, running, mirror, suspended, suspendedRunning>>
    BY <1>8 DEF ReadPc, SessionOp, emuVars, fcVars
  <2>2. q \in Seq(UiOps) /\ Adds(h, q)
    <3>1. h.op = "readPc"
      BY <2>1 DEF Next1
    <3>2. q \in Seq(UiOps)
      <4>1. q \in Harmless
        BY <1>0, GuardedParts DEF FreezeTypeOK
      <4> QED
        BY <4>1 DEF Harmless
    <3> QED
      BY <3>1, <3>2, AddedParts
  <2> HIDE DEF q
  <2>3. ui # <<>> /\ h.op = "readPc" /\ \E p \in Seq(UiOps) : todo'["ui"] = p \o Tail(todo["ui"]) /\ Adds(h, p)
    BY <1>b, <2>1, <2>2 DEF SteadyNames
  <2> QED
    BY <1>8, <2>1, <2>3 DEF Steady, SteadyNames
<1>9. CASE SessionOp /\ PostSync("ui")
  <2> DEFINE q == <<Op("await")>>
  <2>1. Next1("ui", "sync") /\ Replace("ui", q) /\ UNCHANGED <<flag, state, running, mirror, suspended, suspendedRunning>>
    BY <1>9 DEF PostSync, SessionOp, fcVars
  <2>2. q \in Seq(UiOps) /\ Adds(h, q)
    <3>1. h.op = "sync"
      BY <2>1 DEF Next1
    <3> QED
      BY <3>1, PartsTyped, AddedParts DEF PlainNames
  <2> HIDE DEF q
  <2> QED
    BY <1>b, <2>1, <2>2 DEF Steady, SteadyNames
<1>10. CASE SessionOp /\ StartLoop("ui")
  <2> DEFINE q == IF running THEN <<>> ELSE <<Op("postLoop")>>
  <2>1. Next1("ui", "start") /\ Replace("ui", q) /\ UNCHANGED <<flag, state, mirror, suspended, suspendedRunning>> /\ running' = TRUE
    BY <1>10 DEF StartLoop, SessionOp, fcVars
  <2>2. q \in Seq(UiOps) /\ Adds(h, q)
    BY <1>0, <2>1, PartsTyped, AddedParts DEF PlainNames, RunnerOK, Next1
  <2> HIDE DEF q
  <2> QED
    BY <1>b, <2>1, <2>2 DEF Steady, SteadyNames
<1>11. ASSUME NEW k \in {"stepKeycode", "stepInstruction"}, SessionOp, PostStepIfFrozen("ui", k) PROVE Steady
  <2> DEFINE q == IF state.frozen THEN <<PostStep(k, state.generation)>> ELSE <<>>
  <2>1. Next1("ui", k) /\ Replace("ui", q) /\ UNCHANGED <<flag, state, running, mirror, suspended, suspendedRunning>>
    BY <1>11 DEF PostStepIfFrozen, SessionOp, fcVars, emuVars
  <2>2. q \in Seq(UiOps) /\ Adds(h, q)
    <3>1. k \in StepKinds /\ state.frozen \in BOOLEAN /\ state.generation \in Nat /\ h.op \in {"stepKeycode", "stepInstruction"}
      BY <1>0, <2>1 DEF StepKinds, StateOK, DebugStates, Next1
    <3> QED
      BY <3>1, PartsTyped, AddedParts
  <2>3. k \in SteadyNames
    BY DEF SteadyNames
  <2> HIDE DEF q
  <2> QED
    BY <1>b, <2>1, <2>2, <2>3 DEF Steady, SteadyNames
<1>12. ~BeginNextStep("ui") /\ ~Raise("ui")
  <2>1. ASSUME NEW n \in {"beginNextStep", "debugStateChanged", "frozenView"}, Next1("ui", n) PROVE FALSE
    BY <1>0, <2>1, UiNext, UiHead DEF PlainNames
  <2> QED
    BY <2>1 DEF BeginNextStep, Raise
<1>13. CASE SessionOp /\ SetFrozenLocked("ui")
  BY <1>13 DEF SessionOp, Locking
<1> QED
  BY <1>1, <1>2, <1>3, <1>4, <1>5, <1>6, <1>7, <1>8, <1>9, <1>10, <1>11, <1>12, <1>13
     DEF UiThread, SessionOp, ControllerOp, MicroOp, Reading

-----------------------------------------------------------------------------
(* What waits for the loop has stopped it.                                  *)

LEMMA AddedNames ==
  \A o \in AddedOps : o = Op("await") \/ o.op \in {"store", "setArmed", "post", "postLoop", "applyTraceFlags"}
<1>1. \A o \in DisarmOps \union ArmOps : o.op = "store"
  BY DEF DisarmOps, ArmOps
<1>2. (\A o \in SetArmedOps : o.op = "setArmed") /\ (\A o \in PostOps : o.op = "post")
  BY DEF SetArmedOps, PostOps
<1>3. Op("postLoop").op = "postLoop" /\ Op("applyTraceFlags").op = "applyTraceFlags"
  BY DEF Op
<1> QED
  BY <1>1, <1>2, <1>3 DEF AddedOps

LEMMA NotAdded ==
  ASSUME NEW h, NEW q \in Seq(UiOps), Adds(h, q), NEW A, \A o \in AddedOps : o \notin A
  PROVE  ~Has(q, A)
<1>1. \A i \in 1..Len(q) : q[i] \in UiOps
  BY ElementOfSeq
<1> QED
  BY <1>1 DEF Adds, Has

(* A step of a program that keeps what the rest of it needs. *)
LEMMA UiSafe ==
  ASSUME NEW p \in Seq(UiOps), p # <<>>, NEW q \in Seq(UiOps), NEW A, NEW B, NEW C, NEW c \in BOOLEAN, NEW d \in BOOLEAN,
         Safe(p, A, B, C, c), Safe(q, A, B, C, d),
         Head(p) \in B \/ (c /\ Head(p) \notin C) => d /\ ~Has(q, C)
  PROVE  Safe(q \o Tail(p), A, B, C, d)
<1> DEFINE e == Head(p) \in B \/ (c /\ Head(p) \notin C)
<1>1. e \in BOOLEAN /\ Tail(p) \in Seq(UiOps)
  BY HeadAndTail
<1>e. Head(p) \in B \/ (c /\ Head(p) \notin C) => e
  OBVIOUS
<1> HIDE DEF e
<1>2. Safe(Tail(p), A, B, C, e)
  BY <1>1, <1>e, SafeBegun
<1>3. e => d /\ ~Has(q, C)
  BY DEF e
<1> QED
  BY <1>1, <1>2, <1>3, SafeJoined

LEMMA SafeStamped ==
  ASSUME NEW p \in Seq(UiOps), p # <<>>, NEW g \in Nat, NEW A, NEW B, NEW C, NEW c \in BOOLEAN,
         Unstamped(UiOps, A, g), Unstamped(UiOps, B, g), Unstamped(UiOps, C, g), Safe(Tail(p), A, B, C, c)
  PROVE  Safe(Stamped(p, g), A, B, C, c)
<1>1. \A o \in UiOps : Stamp(o, g) \in UiOps
  BY StampTyped
<1>2. /\ Len(Stamped(p, g)) = Len(Tail(p))
      /\ \A i \in 1..Len(Tail(p)) : Stamped(p, g)[i] = Stamp(Tail(p)[i], g) /\ Tail(p)[i] \in UiOps
  BY <1>1, StampedLen
<1>3. Len(Tail(p)) \in Nat
  BY HeadAndTail, LenProperties
<1>4. \A i \in 1..Len(Tail(p)) : /\ Stamped(p, g)[i] \in A <=> Tail(p)[i] \in A
                                 /\ Stamped(p, g)[i] \in B <=> Tail(p)[i] \in B
                                 /\ Stamped(p, g)[i] \in C <=> Tail(p)[i] \in C
  BY <1>2 DEF Unstamped
<1> SUFFICES ASSUME NEW i \in 1..Len(Tail(p)), Tail(p)[i] \in A PROVE Before(Stamped(p, g), i, B, C, c)
  BY <1>2, <1>4 DEF Safe
<1>5. \A k \in 1..(i - 1) : k \in 1..Len(Tail(p))
  BY <1>3
<1>6. \A j \in 1..(i - 1) : \A k \in (j + 1)..(i - 1) : k \in 1..Len(Tail(p))
  BY <1>3
<1>7. Before(Tail(p), i, B, C, c)
  BY DEF Safe
<1> QED
  BY <1>4, <1>5, <1>6, <1>7 DEF Before

(* A last step is replaced by the program it begins. *)
LEMMA LastReplaced ==
  ASSUME TypeOK, KeptAlive, NEW n, Next1("ui", n), Op(n) \in LastOps, NEW q \in Seq(UiOps), Replace("ui", q)
  PROVE  Head(todo["ui"]) = Op(n) /\ todo["ui"] # <<>> /\ Tail(todo["ui"]) = <<>> /\ todo'["ui"] = q
<1>0. TodoOK
  BY DEF TypeOK
<1>1. n \in PlainNames
  BY DEF LastOps, Op, PlainNames
<1>2. Head(todo["ui"]) = Op(n) /\ todo["ui"] # <<>> /\ todo["ui"] \in Seq(UiOps)
  BY <1>0, <1>1, UiNext, UiHead
<1>3. Tail(todo["ui"]) = <<>>
  BY <1>2, Ended DEF KeptAlive, StopsAreRevived
<1>4. todo'["ui"] = q \o Tail(todo["ui"])
  BY <1>0, <1>2, UiReplaced
<1>5. q \o <<>> = q
  BY ConcatEmptySeq
<1> QED
  BY <1>2, <1>3, <1>4, <1>5

LEMMA UiStopped ==
  ASSUME TypeOK, KeptAlive, StoppedFirst, UiThread
  PROVE  StoppedFirst'
<1> DEFINE ui == todo["ui"]
           r == Tail(todo["ui"])
           h == Head(todo["ui"])
<1>0. TodoOK /\ StateOK /\ RunnerOK /\ ui \in Seq(UiOps) /\ (~running) \in BOOLEAN
  BY DEF TypeOK, TodoOK
<1>h. ui # <<>> => h \in UiOps /\ r \in Seq(UiOps) /\ (h \in HaltedOps => ~running)
  <2>1. ui # <<>> => h \in UiOps /\ r \in Seq(UiOps)
    BY <1>0, HeadAndTail
  <2>2. ui # <<>> => (h \in HaltedOps => ~running)
    BY <1>0, SafeBegun DEF StoppedFirst
  <2> QED
    BY <2>1, <2>2
<1>1. CASE Steady
  <2>1. ui # <<>> /\ h \in UiOps /\ h.op \in SteadyNames
    BY <1>1, <1>h DEF Steady
  <2>2. PICK q \in Seq(UiOps) : todo'["ui"] = q \o r /\ Adds(h, q)
    BY <1>1 DEF Steady
  <2>3. running' = IF h.op = "start" THEN TRUE ELSE IF h.op = "stop" THEN FALSE ELSE running
    BY <1>1 DEF Steady
  <2>4. ~Has(q, Starts)
    <3>1. \A o \in AddedOps : o \notin Starts
      BY AddedNames DEF Starts, EnteredOps, Op
    <3> QED
      BY <2>2, <3>1, NotAdded
  <2>5. (~running)' \in BOOLEAN /\ (h \in Stops => (~running)') /\ (~running /\ h \notin Starts => (~running)')
    <3>1. h \in Stops => h.op = "stop"
      BY DEF Stops, Op
    <3>2. h.op = "start" => h \in Starts
      BY <2>1, UiHead DEF Starts, PlainNames
    <3> QED
      BY <1>0, <2>3, <3>1, <3>2 DEF RunnerOK
  <2>6. Safe(q, HaltedOps, Stops, Starts, (~running)')
    <3>1. CASE Has(q, {Op("await")})
      <4>1. h.op = "sync"
        BY <2>2, <3>1 DEF Adds
      <4>2. h \in HaltedOps
        BY <2>1, <4>1, UiHead DEF HaltedOps
      <4>3. (~running)'
        BY <1>h, <2>1, <2>3, <4>1, <4>2
      <4> QED
        BY <2>4, <2>5, <4>3, SafeParts
    <3>2. CASE ~Has(q, {Op("await")})
      <4>1. \A o \in AddedOps : o \in HaltedOps => o = Op("await")
        BY AddedNames DEF HaltedOps, FreezeOps, SetFrozenOps, SyncOps, EnteredOps, Op
      <4>2. \A i \in 1..Len(q) : q[i] \in AddedOps /\ q[i] # Op("await")
        <5>1. \A i \in 1..Len(q) : q[i] \in UiOps
          BY ElementOfSeq
        <5> QED
          BY <2>2, <3>2, <5>1 DEF Adds, Has
      <4>3. ~Has(q, HaltedOps)
        BY <4>1, <4>2 DEF Has
      <4> QED
        BY <2>5, <4>3, SafeParts
    <3> QED
      BY <3>1, <3>2
  <2> HIDE DEF ui, r, h
  <2>7. Safe(q \o Tail(ui), HaltedOps, Stops, Starts, (~running)')
    <3>1. Safe(ui, HaltedOps, Stops, Starts, ~running) /\ ui \in Seq(UiOps) /\ ui # <<>>
      BY <1>0, <2>1 DEF StoppedFirst, ui
    <3>2. Head(ui) \in Stops \/ (~running /\ Head(ui) \notin Starts) => (~running)' /\ ~Has(q, Starts)
      BY <2>4, <2>5 DEF h, ui
    <3> QED
      BY <1>0, <2>5, <2>6, <3>1, <3>2, UiSafe
  <2> QED
    BY <2>2, <2>7 DEF StoppedFirst, ui, r
<1>2. CASE Locking
  <2> DEFINE g == state.generation + 1
  <2>1. todo'["ui"] = Stamped(ui, g) /\ ui # <<>> /\ h \in SetFrozenOps /\ g \in Nat /\ running' = running
    <3>1. SetFrozenLocked("ui") /\ "ui" \in Threads /\ running' = running
      BY <1>2 DEF Locking, Threads, SetFrozenLocked, emuVars
    <3>2. todo'["ui"] = Stamped(ui, g) /\ ui # <<>> /\ h \in SetFrozenOps /\ state.generation \in Nat
      BY <1>0, <3>1, Locked
    <3> QED
      BY <3>1, <3>2
  <2>2. Unstamped(UiOps, HaltedOps, g) /\ Unstamped(UiOps, Stops, g) /\ Unstamped(UiOps, Starts, g)
    BY DEF Unstamped, Stamp, HaltedOps, FreezeOps, SetFrozenOps, SyncOps, EnteredOps, Stops, Starts, PostStep, Op
  <2>3. h \notin Starts
    BY <2>1 DEF SetFrozenOps, Starts, EnteredOps, Op
  <2>4. Safe(r, HaltedOps, Stops, Starts, ~running)
    <3>1. h \notin Stops
      BY <2>1 DEF SetFrozenOps, Stops, Op
    <3> QED
      BY <1>0, <2>1, <2>3, <3>1, SafeBegun DEF StoppedFirst
  <2> HIDE DEF g
  <2>5. Safe(Stamped(ui, g), HaltedOps, Stops, Starts, ~running)
    BY <1>0, <2>1, <2>2, <2>4, SafeStamped
  <2> QED
    BY <2>1, <2>5 DEF StoppedFirst
<1>h2. ASSUME NEW q \in Halting, todo'["ui"] = q, running' \in BOOLEAN PROVE StoppedFirst'
  <2>1. Safe(q, HaltedOps, Stops, Starts, FALSE) /\ q \in Seq(UiOps)
    BY DEF Halting, Sure
  <2>2. (~running)' \in BOOLEAN
    BY <1>h2
  <2>3. Safe(q, HaltedOps, Stops, Starts, (~running)')
    BY <2>1, <2>2, SafeParts
  <2> QED
    BY <1>h2, <2>3 DEF StoppedFirst
<1>e. <<>> \in Halting /\ Start \in Halting /\ Halting \subseteq Seq(UiOps)
  BY HarmlessParts, HarmlessClosed, GuardedParts DEF Halting, Sure
<1>3. ASSUME NEW n, Next1("ui", n), Op(n) \in LastOps, NEW q \in Halting, Replace("ui", q), running' = running
      PROVE  StoppedFirst'
  <2>1. todo'["ui"] = q
    BY <1>3, <1>e, LastReplaced
  <2>2. running' \in BOOLEAN
    BY <1>0, <1>3 DEF RunnerOK
  <2> QED
    BY <1>h2, <1>3, <2>1, <2>2
<1>l. Op("readFrozen") \in LastOps /\ Op("readArmed") \in LastOps /\ Op("startUnlessShownFrozen") \in LastOps /\ Op("startIfSuspendedRunning") \in LastOps
  BY DEF LastOps
<1>b. state.frozen \in BOOLEAN /\ state.scanLoopExitArmed \in BOOLEAN
  BY <1>0 DEF StateOK, DebugStates
<1>4. CASE ReadFrozen
  <2> DEFINE q == Stop \o <<SyncOn("applyReload")>> \o (IF state.frozen THEN <<>> ELSE Start)
  <2>1. Next1("ui", "readFrozen") /\ Replace("ui", q) /\ running' = running
    BY <1>4 DEF ReadFrozen, emuVars
  <2>2. q \in Halting
    BY <1>b, HaltedReplacements
  <2> HIDE DEF q
  <2> QED
    BY <1>3, <1>l, <2>1, <2>2
<1>5. CASE ReadArmed
  <2> DEFINE q == RunAsm(state.scanLoopExitArmed)
  <2>1. Next1("ui", "readArmed") /\ Replace("ui", q) /\ running' = running
    BY <1>5 DEF ReadArmed, emuVars
  <2>2. q \in Halting
    BY <1>b, HaltedReplacements
  <2> HIDE DEF q
  <2> QED
    BY <1>3, <1>l, <2>1, <2>2
<1>6. CASE StartUnlessShownFrozen
  <2> DEFINE q == IF mirror.frozen THEN <<>> ELSE Start
  <2>1. Next1("ui", "startUnlessShownFrozen") /\ Replace("ui", q) /\ running' = running
    BY <1>6 DEF StartUnlessShownFrozen, emuVars
  <2>2. q \in Halting
    BY <1>e
  <2> HIDE DEF q
  <2> QED
    BY <1>3, <1>l, <2>1, <2>2
<1>7. CASE StartIfSuspendedRunning
  <2> DEFINE q == IF suspendedRunning THEN Start ELSE <<>>
  <2>1. Next1("ui", "startIfSuspendedRunning") /\ Replace("ui", q) /\ running' = running
    BY <1>7 DEF StartIfSuspendedRunning, emuVars
  <2>2. q \in Halting
    BY <1>e
  <2> HIDE DEF q
  <2> QED
    BY <1>3, <1>l, <2>1, <2>2
<1>8. CASE Entered
  <2>1. ui # <<>> /\ h \in EnteredOps /\ h \in HaltedOps /\ h \in Starts /\ h \notin Stops /\ running' = running
    <3>1. Next1("ui", "entered") /\ running' = running
      BY <1>8 DEF Entered, emuVars
    <3>2. h \in EnteredOps /\ ui # <<>>
      BY <1>0, <3>1, UiNext, UiHead
    <3> QED
      BY <3>1, <3>2 DEF HaltedOps, Starts, Stops, EnteredOps, Op
  <2>2. ~running /\ (~running)'
    BY <1>h, <2>1
  <2>3. \E q \in Seq(UiOps) : todo'["ui"] = q \o r /\ (q \in Halting \/ ~Has(q, Starts))
    <3>1. CASE Done("ui")
      <4>1. todo'["ui"] = <<>> \o r
        BY <1>0, <1>h, <2>1, <3>1, UiDone, ConcatEmptySeq
      <4> QED
        BY <1>e, <4>1
    <3>2. CASE Replace("ui", IF h.freezeOnStart THEN FreezeInPlace("Cpu") \o <<Op("buildView")>> ELSE Start)
      <4> DEFINE q == IF h.freezeOnStart THEN FreezeInPlace("Cpu") \o <<Op("buildView")>> ELSE Start
      <4>1. q \in Seq(UiOps) /\ (q \in Halting \/ ~Has(q, Starts))
        BY <1>e, HaltedReplacements
      <4>2. Replace("ui", q)
        BY <3>2
      <4> HIDE DEF q
      <4>3. todo'["ui"] = q \o r
        BY <1>0, <2>1, <4>1, <4>2, UiReplaced
      <4> QED
        BY <4>1, <4>3
    <3> QED
      BY <1>8, <3>1, <3>2 DEF Entered
  <2>4. PICK q \in Seq(UiOps) : todo'["ui"] = q \o r /\ (q \in Halting \/ ~Has(q, Starts))
    BY <2>3
  <2>5. Safe(q, HaltedOps, Stops, Starts, TRUE)
    <3>1. CASE q \in Halting
      BY <3>1, SafeParts DEF Halting, Sure
    <3>2. CASE ~Has(q, Starts)
      BY <3>2, SafeParts
    <3> QED
      BY <2>4, <3>1, <3>2
  <2>6. Safe(q \o Tail(ui), HaltedOps, Stops, Starts, TRUE)
    <3>1. Safe(ui, HaltedOps, Stops, Starts, TRUE)
      BY <2>2 DEF StoppedFirst
    <3>2. ~ (Head(ui) \in Stops \/ (TRUE /\ Head(ui) \notin Starts))
      BY <2>1
    <3> HIDE DEF ui
    <3> QED
      BY <1>0, <2>1, <2>5, <3>1, <3>2, UiSafe
  <2> QED
    BY <2>2, <2>4, <2>6 DEF StoppedFirst
<1>9. CASE TakeEvent
  <2> DEFINE q == Pull \o (IF Head(events).op = "frozenView" THEN <<[op |-> "onFrozenView", gen |-> Head(events).gen]>> ELSE <<>>)
  <2>1. Head(events) \in EventOps
    BY <1>0, <1>9, HeadAndTail DEF TakeEvent, StateOK
  <2>2. q \in Halting
    <3>1. Head(events).op = "frozenView" => Head(events).gen \in Nat
      BY <2>1 DEF EventOps
    <3>2. q \in Harmless
      BY <3>1, HarmlessParts, HarmlessClosed
    <3> QED
      BY <3>2, HarmlessClosed
  <2>3. todo' = [todo EXCEPT !["ui"] = q] /\ running' = running
    BY <1>9 DEF TakeEvent, emuVars
  <2> HIDE DEF q
  <2>4. todo'["ui"] = q
    BY <1>0, <1>e, <2>2, <2>3, UiBegins
  <2> QED
    BY <1>0, <1>h2, <2>2, <2>3, <2>4 DEF RunnerOK
<1> QED
  BY <1>1, <1>2, <1>4, <1>5, <1>6, <1>7, <1>8, <1>9, UiMoves DEF Reading

(* The steps of the emulation thread: it never starts the loop, changes the *)
(* debug state only where a freeze has fired, and takes from the UI thread's*)
(* program only the wait for its job.                                       *)
LEMMA EmuMoves ==
  ASSUME TypeOK, EmuFired, Emulation
  PROVE  /\ EmuFired' /\ UNCHANGED <<frontend, mirror, suspended, suspendedRunning>>
         /\ \/ todo'["ui"] = todo["ui"]
            \/ Awaiting /\ todo'["ui"] = Tail(todo["ui"]) /\ UNCHANGED <<state, running>> /\ thread' = "wait"
         /\ running' = running \/ running' = FALSE
         /\ \/ state' = state
            \/ thread = "fired" /\ Has(todo["emu"], FreezeOps) /\ state'.frozen /\ todo'["ui"] = todo["ui"] /\ running' = running
         /\ InBatch' => InBatch \/ (running /\ (frontend.cooperative => UiAway))
         /\ Has(todo'["emu"], FreezeOps) => running' = FALSE \/ (Has(todo["emu"], FreezeOps) /\ running' = running)
<1>0. TodoOK /\ StateOK /\ SyncOK /\ RunnerOK /\ UNCHANGED <<frontend, mirror, suspended, suspendedRunning>>
      /\ (frontend.cooperative => UiAway)
  BY DEF TypeOK, Emulation, controllerVars
<1>f. ~Has(<<>>, FreezeOps)
  BY DEF Has
<1>1. CASE TakeJob \/ ExecuteJob \/ LoopTest \/ Instruction \/ CheckFreeze \/ BatchEnds \/ LeaveLoop \/ BatchDone
  <2>1. UNCHANGED <<state, todo, running>>
    BY <1>1 DEF TakeJob, ExecuteJob, LoopTest, Instruction, CheckFreeze, BatchEnds, LeaveLoop, BatchDone, sessionVars, emuVars
  <2>2. /\ thread = "fired" => todo["emu"] = <<>> \/ thread' = "fired"
        /\ thread' = "fired" => thread = "fired"
        /\ InBatch' => InBatch \/ running
    BY <1>1 DEF TakeJob, ExecuteJob, LoopTest, Instruction, CheckFreeze, BatchEnds, LeaveLoop, BatchDone, InBatch, emuVars
  <2> QED
    BY <1>0, <2>1, <2>2 DEF EmuFired
<1>2. CASE FinishJob
  <2>0. thread = "posted" /\ thread' = "wait" /\ UNCHANGED <<state, running>> /\ todo["emu"] = <<>>
    BY <1>2 DEF FinishJob, EmuFired
  <2>1. CASE job.kind \in StepKinds
    <3>1. todo' = todo
      BY <1>2, <2>1 DEF FinishJob
    <3> QED
      BY <1>0, <2>0, <3>1 DEF EmuFired, InBatch
  <2>2. CASE job.kind \notin StepKinds
    <3>1. Awaiting
      BY <1>0, <1>2, <2>2 DEF FinishJob, RunnerOK, StepJobs, SyncOK, Executing
    <3>2. todo["ui"] # <<>>
      BY <3>1 DEF Awaiting, Next1
    <3>3. todo'["ui"] = Tail(todo["ui"]) /\ todo'["emu"] = todo["emu"]
      BY <1>0, <1>2, <2>2, <3>2, UiDone DEF FinishJob
    <3> QED
      BY <1>0, <2>0, <3>1, <3>3 DEF EmuFired, InBatch
  <2> QED
    BY <2>1, <2>2
<1>3. CASE FreezeFires
  <2> DEFINE f == OnFreezeFired(check)
  <2>1. f \in Seq(EmuOps)
    BY <1>3, FiredTyped DEF FreezeFires
  <2>2. UNCHANGED state /\ todo' = [todo EXCEPT !["emu"] = f] /\ running' = FALSE /\ thread' = "fired" /\ thread = "batch"
    BY <1>3 DEF FreezeFires
  <2> HIDE DEF f
  <2>3. todo'["emu"] = f /\ todo'["ui"] = todo["ui"]
    BY <1>0, <2>1, <2>2, EmuBegins
  <2> QED
    BY <1>0, <2>2, <2>3 DEF EmuFired, InBatch
<1>4. CASE MicroOp("emu")
  <2>0. thread = "fired" \/ todo["emu"] = <<>>
    BY DEF EmuFired
  <2>1. CASE StoreFlag("emu") \/ BeginNextStep("emu") \/ RefreshTraceFlags("emu") \/ Raise("emu")
    <3>1. Done("emu") /\ UNCHANGED <<state, running, thread>> /\ \E n \in {"store", "beginNextStep", "applyTraceFlags", "debugStateChanged", "frozenView"} : Next1("emu", n)
      BY <2>1 DEF StoreFlag, BeginNextStep, RefreshTraceFlags, Raise, emuVars
    <3>2. todo["emu"] # <<>> /\ todo["emu"] \in Seq(EmuOps)
      BY <1>0, <3>1 DEF Next1, TodoOK
    <3>3. todo'["emu"] = Tail(todo["emu"]) /\ todo'["ui"] = todo["ui"]
      BY <1>0, <3>1, <3>2, EmuDone
    <3>4. Has(Tail(todo["emu"]), FreezeOps) => Has(todo["emu"], FreezeOps)
      BY <3>2, Begun
    <3> QED
      BY <1>0, <2>0, <3>1, <3>2, <3>3, <3>4 DEF EmuFired, InBatch
  <2>2. CASE SetFrozenLocked("emu")
    <3>0. "emu" \in Threads /\ "ui" \in Threads \ {"emu"}
      BY DEF Threads
    <3>1. /\ state'.frozen = Head(todo["emu"]).frozen /\ Head(todo["emu"]) \in FreezeOps /\ todo'["ui"] = todo["ui"]
          /\ todo["emu"] # <<>> /\ state.generation \in Nat /\ todo'["emu"] = Stamped(todo["emu"], state.generation + 1)
      BY <1>0, <2>2, <3>0, Locked
    <3>2. state'.frozen /\ Has(todo["emu"], FreezeOps)
      BY <1>0, <3>1, Begun DEF FreezeOps, TodoOK
    <3>3. UNCHANGED <<running, thread>>
      BY <2>2 DEF SetFrozenLocked, emuVars
    <3> QED
      BY <1>0, <2>0, <3>1, <3>2, <3>3 DEF EmuFired, InBatch
  <2> QED
    BY <1>0, <1>4, <2>1, <2>2, EmuMicroOps
<1> QED
  BY <1>1, <1>2, <1>3, <1>4 DEF Emulation, EmulationThread

(* The operations begin stopped or stop first. *)
LEMMA CallBegins ==
  ASSUME TypeOK, NEW c \in frontend.calls, Call(c)
  PROVE  /\ c \in Operations /\ todo["ui"] = <<>> /\ todo'["ui"] = Program(c) /\ todo'["emu"] = todo["emu"]
         /\ UNCHANGED <<fcVars, running, thread, state, events, frontend, mirror, suspended, suspendedRunning>>
         /\ BetweenPumps /\ Permitted(c)
<1>1. TodoOK /\ c \in Operations
  BY ControllerAssumption DEF TypeOK, ControllerOK, ControllerAssumption
<1>2. Program(c) \in Seq(UiOps)
  BY <1>1, HaltedProgram DEF Halting, Sure
<1>3. todo' = [todo EXCEPT !["ui"] = Program(c)] /\ todo["ui"] = <<>> /\ BetweenPumps /\ Permitted(c)
      /\ UNCHANGED <<fcVars, running, thread, state, events, frontend, mirror, suspended, suspendedRunning>>
  BY DEF Call, emuVars
<1>4. todo'["ui"] = Program(c) /\ todo'["emu"] = todo["emu"]
  BY <1>1, <1>2, <1>3, UiBegins
<1> QED
  BY <1>1, <1>3, <1>4

LEMMA StoppedStep ==
  ASSUME TypeOK, KeptAlive, EmuFired, StoppedFirst, Next
  PROVE  EmuFired' /\ StoppedFirst'
<1>0. TodoOK /\ todo["ui"] \in Seq(UiOps) /\ running \in BOOLEAN /\ (~running) \in BOOLEAN
  BY DEF TypeOK, TodoOK, RunnerOK
<1>1. CASE UiThread
  BY <1>1, UiStopped, UiLeaves DEF EmuFired
<1>2. CASE Emulation
  <2>1. EmuFired' /\ (running' = running \/ running' = FALSE)
    BY <1>2, EmuMoves
  <2>2. (~running)' \in BOOLEAN /\ (~running => (~running)')
    BY <1>0, <2>1
  <2>3. CASE todo'["ui"] = todo["ui"]
    <3>1. Safe(todo["ui"], HaltedOps, Stops, Starts, (~running)')
      BY <1>0, <2>2, SafeParts DEF StoppedFirst
    <3> QED
      BY <2>1, <2>3, <3>1 DEF StoppedFirst
  <2>4. CASE Awaiting /\ todo'["ui"] = Tail(todo["ui"]) /\ UNCHANGED <<state, running>>
    <3>1. todo["ui"] # <<>> /\ Head(todo["ui"]) = Op("await")
      BY <1>0, <2>4, UiNext, UiHead DEF Awaiting, PlainNames
    <3>2. Head(todo["ui"]) \notin Stops /\ Head(todo["ui"]) \notin Starts
      BY <3>1 DEF Stops, Starts, EnteredOps, Op
    <3>3. Safe(Tail(todo["ui"]), HaltedOps, Stops, Starts, ~running)
      BY <1>0, <3>1, <3>2, SafeBegun DEF StoppedFirst
    <3> QED
      BY <2>1, <2>4, <3>3 DEF StoppedFirst
  <2> QED
    BY <1>2, <2>3, <2>4, EmuMoves
<1>3. ASSUME NEW c \in frontend.calls, Call(c) PROVE EmuFired' /\ StoppedFirst'
  <2>1. c \in Operations /\ todo'["ui"] = Program(c) /\ todo'["emu"] = todo["emu"] /\ thread' = thread /\ running' = running
    BY <1>3, CallBegins
  <2>2. Safe(Program(c), HaltedOps, Stops, Starts, FALSE) /\ Program(c) \in Seq(UiOps)
    BY <2>1, HaltedProgram DEF Halting, Sure
  <2>3. Safe(Program(c), HaltedOps, Stops, Starts, ~running)
    BY <1>0, <2>2, SafeParts
  <2> QED
    BY <2>1, <2>3 DEF EmuFired, StoppedFirst
<1> QED
  BY <1>1, <1>2, <1>3 DEF Next

-----------------------------------------------------------------------------
(* Without the arming operations no freeze fires.                           *)

(* Where FREEZE, RESUME and STEP are all that is called, no freeze is ever  *)
(* armed.                                                                   *)
ArmedOps == UiOps \ DebuggerUiOps
Unarmed == {p \in Seq(UiOps) : ~Has(p, ArmedOps)}

LEMMA DebuggerNames ==
  /\ \A o \in DebuggerUiOps : o.op \in {"store", "setFrozen", "post", "onFrozenView", "start", "stop", "postLoop", "postFreeze",
                                        "applyTraceFlags", "pull", "stepKeycode", "stepInstruction"}
  /\ \A o \in DebuggerUiOps : o.op = "store" => o \in DisarmOps
  /\ \A n \in {"start", "stop", "postLoop", "postFreeze", "applyTraceFlags", "pull", "stepKeycode", "stepInstruction"} :
       Op(n) \in UiOps /\ Op(n) \in DebuggerUiOps
<1>1. \A n \in {"start", "stop", "postLoop", "postFreeze", "applyTraceFlags", "pull", "stepKeycode", "stepInstruction"} :
        Op(n) \in UiOps /\ Op(n) \in DebuggerUiOps
  BY UiAtoms DEF PlainNames, DebuggerUiOps, Op
<1>2. ASSUME NEW o \in DebuggerUiOps
      PROVE  /\ o.op \in {"store", "setFrozen", "post", "onFrozenView", "start", "stop", "postLoop", "postFreeze",
                          "applyTraceFlags", "pull", "stepKeycode", "stepInstruction"}
             /\ o.op = "store" => o \in DisarmOps
  <2>1. CASE o \in DisarmOps
    BY <2>1 DEF DisarmOps
  <2>2. CASE o \in SetFrozenOps
    BY <2>2 DEF SetFrozenOps
  <2>3. CASE o \in PostOps
    BY <2>3 DEF PostOps
  <2>4. CASE o \in ViewOps
    BY <2>4 DEF ViewOps
  <2> QED
    BY <2>1, <2>2, <2>3, <2>4 DEF DebuggerUiOps
<1> QED
  BY <1>1, <1>2

LEMMA UnarmedParts ==
  /\ \A p, q \in Unarmed : p \o q \in Unarmed
  /\ \A o \in UiOps : o \in DebuggerUiOps => <<o>> \in Unarmed
  /\ <<>> \in Unarmed /\ Unarmed \subseteq Seq(UiOps)
<1>1. ASSUME NEW p \in Unarmed, NEW q \in Unarmed PROVE p \o q \in Unarmed
  <2>1. p \in Seq(UiOps) /\ q \in Seq(UiOps) /\ ~Has(p, ArmedOps) /\ ~Has(q, ArmedOps)
    BY DEF Unarmed
  <2>2. p \o q \in Seq(UiOps) /\ ~Has(p \o q, ArmedOps)
    BY <2>1, Joined
  <2> QED
    BY <2>2 DEF Unarmed
<1>2. \A o \in UiOps : o \in DebuggerUiOps => <<o>> \in Unarmed
  BY OneOp DEF Unarmed, ArmedOps
<1>3. <<>> \in Unarmed
  BY EmptySeq DEF Unarmed, Has
<1> QED
  BY <1>1, <1>2, <1>3 DEF Unarmed

LEMMA UnarmedPrograms ==
  /\ Start \in Unarmed
  /\ \A c \in DebuggerCalls : Program(c) \in Unarmed
<1>o. \A n \in {"start", "stop", "postLoop", "postFreeze", "applyTraceFlags", "pull", "stepKeycode", "stepInstruction"} : <<Op(n)>> \in Unarmed
  BY DebuggerNames, UnarmedParts
<1>1. Start \in Unarmed /\ Stop \in Unarmed /\ Pull \in Unarmed /\ ApplyTraceFlags \in Unarmed
  BY <1>o DEF Start, Stop, Pull, ApplyTraceFlags
<1>2. \A f \in BOOLEAN, o \in Owners \union {"none"} : <<SetFrozen(f, o)>> \in Unarmed
  <2>1. \A f \in BOOLEAN, o \in Owners \union {"none"} : SetFrozen(f, o) \in UiOps /\ SetFrozen(f, o) \in DebuggerUiOps
    BY UiAtoms DEF DebuggerUiOps, SetFrozenOps, SetFrozen
  <2> QED
    BY <2>1, UnarmedParts
<1>3. DisarmBoth \in Unarmed
  <2>1. \A f \in {"pcArmed", "scanArmed", "seenLoop"} : <<Store(f, FALSE)>> \in Unarmed /\ Store(f, FALSE) \in DebuggerUiOps /\ Store(f, FALSE) \in UiOps
    <3>1. \A f \in {"pcArmed", "scanArmed", "seenLoop"} : Store(f, FALSE) \in UiOps /\ Store(f, FALSE) \in DebuggerUiOps
      BY UiAtoms DEF Store, DebuggerUiOps, DisarmOps
    <3> QED
      BY <3>1, UnarmedParts
  <2>2. DisarmBoth \in Seq(UiOps)
    BY PartsTyped
  <2>3. \A i \in 1..Len(DisarmBoth) : DisarmBoth[i] \in DebuggerUiOps
    <3>1. Len(DisarmBoth) = 3 /\ DisarmBoth[1] = Store("pcArmed", FALSE) /\ DisarmBoth[2] = Store("seenLoop", FALSE)
          /\ DisarmBoth[3] = Store("scanArmed", FALSE)
      BY DEF DisarmBoth
    <3>2. \A i \in 1..3 : i = 1 \/ i = 2 \/ i = 3
      OBVIOUS
    <3> QED
      BY <2>1, <3>1, <3>2
  <2> QED
    BY <2>2, <2>3 DEF Unarmed, Has, ArmedOps
<1>4. ASSUME NEW f \in BOOLEAN, NEW o \in Owners \union {"none"} PROVE SetFrozenState(f, o) \in Unarmed
  <2> DEFINE s == <<SetFrozen(f, o)>>
             d == IF f THEN DisarmBoth ELSE <<>>
  <2>1. SetFrozenState(f, o) = d \o s \o ApplyTraceFlags
    BY DEF SetFrozenState
  <2>2. s \in Unarmed /\ d \in Unarmed
    BY <1>2, <1>3, UnarmedParts
  <2> HIDE DEF s, d
  <2> QED
    BY <1>1, <2>1, <2>2, UnarmedParts
<1>5. Freeze("Calculator") \in Unarmed
  <2>1. SetFrozenState(TRUE, "Calculator") \in Unarmed /\ <<Op("postFreeze")>> \in Unarmed
    BY <1>4, <1>o DEF Owners
  <2> QED
    BY <1>1, <2>1, UnarmedParts DEF Freeze
<1>6. Resume \in Unarmed
  BY <1>1, <1>4, UnarmedParts DEF Resume
<1>7. ASSUME NEW c \in DebuggerCalls PROVE Program(c) \in Unarmed
  <2>1. c \in {"freeze", "resume", "stepKeycode", "stepInstruction"}
    BY DEF DebuggerCalls
  <2>2. CASE c = "freeze"
    BY <2>2, <1>1, <1>5, UnarmedParts DEF Program
  <2>3. CASE c = "resume"
    BY <2>3, <1>1, <1>6, UnarmedParts DEF Program
  <2>4. CASE c \in {"stepKeycode", "stepInstruction"}
    BY <2>4, <1>o DEF Program
  <2> QED
    BY <2>1, <2>2, <2>3, <2>4
<1> QED
  BY <1>1, <1>7

LEMMA UiUnarmed ==
  ASSUME TypeOK, NothingArmed, DebuggerOnly, UiThread
  PROVE  NothingArmed'
<1> DEFINE ui == todo["ui"]
           r == Tail(todo["ui"])
           h == Head(todo["ui"])
<1>0. TodoOK /\ StateOK /\ FreezeTypeOK /\ ui \in Seq(UiOps) /\ UNCHANGED <<frontend, thread, check>>
  BY UiLeaves DEF TypeOK, TodoOK
<1>1. /\ ~flag.pcArmed /\ ~flag.scanArmed /\ check \in {"idle", "pc", "scan"} /\ thread # "fired" /\ ~Has(ui, ArmedOps) /\ ~suspended
  BY DEF NothingArmed, ArmedOps
<1>2. ui # <<>> => h \in DebuggerUiOps /\ h \in UiOps /\ r \in Unarmed
  <2> SUFFICES ASSUME ui # <<>> PROVE h \in DebuggerUiOps /\ h \in UiOps /\ r \in Unarmed
    OBVIOUS
  <2>1. h \in UiOps /\ r \in Seq(UiOps)
    BY <1>0, HeadAndTail
  <2>2. Has(ui, ArmedOps) <=> h \in ArmedOps \/ Has(r, ArmedOps)
    BY <1>0, Begun
  <2> QED
    BY <1>1, <2>1, <2>2 DEF Unarmed, ArmedOps
<1> HIDE DEF ui, r, h
<1>3. CASE Steady
  <2>1. ui # <<>> /\ h.op \in SteadyNames
    BY <1>3 DEF Steady, ui, h
  <2>2. PICK q \in Seq(UiOps) : todo'["ui"] = q \o r /\ Adds(h, q)
    BY <1>3 DEF Steady, r, h
  <2>3. h.op \notin {"sync", "readPc", "readRunning"} /\ (h.op = "store" => h \in DisarmOps)
    BY <1>2, <2>1, DebuggerNames
  <2>4. ~Has(q, ArmedOps)
    BY <2>2, <2>3 DEF Adds, ArmedOps
  <2>5. q \o r \in Unarmed
    <3>1. q \in Unarmed
      BY <2>2, <2>4 DEF Unarmed
    <3> QED
      BY <1>2, <2>1, <3>1, UnarmedParts
  <2>6. suspended' = suspended /\ IF h.op = "store" THEN DoStore(h) ELSE flag' = flag
    BY <1>3, <2>3 DEF Steady, h
  <2>7. ~flag'.pcArmed /\ ~flag'.scanArmed
    <3>1. CASE h.op = "store"
      <4>1. flag' = [flag EXCEPT ![h.field] = h.value] /\ h.value = FALSE
        BY <2>3, <2>6, <3>1 DEF DoStore, DisarmOps
      <4> QED
        BY <1>0, <1>1, <4>1 DEF FreezeTypeOK
    <3> QED
      BY <1>1, <2>6, <3>1
  <2> QED
    BY <1>0, <1>1, <2>2, <2>5, <2>6, <2>7 DEF NothingArmed, Unarmed, ArmedOps
<1>4. CASE Locking
  <2> DEFINE g == state.generation + 1
  <2>1. todo'["ui"] = Stamped(ui, g) /\ ui # <<>> /\ g \in Nat /\ flag' = flag /\ suspended' = suspended
    <3>1. SetFrozenLocked("ui") /\ "ui" \in Threads /\ flag' = flag /\ suspended' = suspended
      BY <1>4 DEF Locking, Threads, SetFrozenLocked, fcVars
    <3>2. todo'["ui"] = Stamped(ui, g) /\ ui # <<>> /\ state.generation \in Nat
      BY <1>0, <3>1, Locked DEF ui
    <3> QED
      BY <3>1, <3>2
  <2> HIDE DEF g
  <2>2. \A o \in UiOps : Stamp(o, g) \in UiOps
    BY <2>1, StampTyped
  <2>3. Unstamped(UiOps, ArmedOps, g)
    <3>1. PostStep("freeze", g) \in UiOps /\ PostStep("freeze", g) \in DebuggerUiOps
      BY <2>1, UiAtoms DEF DebuggerUiOps, StepKinds, PostOps, PostStep, Job, StepJobs, Jobs
    <3>2. \A o \in UiOps : o.op # "frozenViewReady"
      BY UiHead DEF PlainNames
    <3>3. \A o \in UiOps : o.op = "postFreeze" => o \in DebuggerUiOps
      BY UiHead, DebuggerNames DEF PlainNames
    <3> QED
      BY <3>1, <3>2, <3>3 DEF Unstamped, Stamp, ArmedOps
  <2>4. Has(Stamped(ui, g), ArmedOps) <=> Has(Tail(ui), ArmedOps)
    BY <1>0, <2>1, <2>2, <2>3, StampedTail
  <2>5. ~Has(todo'["ui"], ArmedOps)
    BY <1>2, <2>1, <2>4 DEF Unarmed, r, ui
  <2> QED
    BY <1>0, <1>1, <2>1, <2>5 DEF NothingArmed, ArmedOps
<1>5. ~Reading
  <2>1. ASSUME NEW n \in {"readFrozen", "readArmed", "entered", "startUnlessShownFrozen", "startIfSuspendedRunning"}, Next1("ui", n) PROVE FALSE
    <3>1. ui # <<>> /\ h.op = n
      BY <2>1 DEF Next1, ui, h
    <3> QED
      BY <1>2, <3>1, DebuggerNames
  <2> QED
    BY <2>1 DEF Reading, ReadFrozen, ReadArmed, Entered, StartUnlessShownFrozen, StartIfSuspendedRunning
<1>6. CASE TakeEvent
  <2> DEFINE q == Pull \o (IF Head(events).op = "frozenView" THEN <<[op |-> "onFrozenView", gen |-> Head(events).gen]>> ELSE <<>>)
  <2>1. Head(events) \in EventOps
    BY <1>0, <1>6, HeadAndTail DEF TakeEvent, StateOK
  <2>2. q \in Unarmed
    <3>1. Head(events).op = "frozenView" => Head(events).gen \in Nat
      BY <2>1 DEF EventOps
    <3>2. \A n \in Nat : [op |-> "onFrozenView", gen |-> n] \in UiOps /\ [op |-> "onFrozenView", gen |-> n] \in DebuggerUiOps
      BY UiAtoms DEF DebuggerUiOps, ViewOps
    <3>3. Pull \in Unarmed
      BY DebuggerNames, UnarmedParts DEF Pull
    <3> QED
      BY <3>1, <3>2, <3>3, UnarmedParts
  <2>3. todo' = [todo EXCEPT !["ui"] = q] /\ flag' = flag /\ suspended' = suspended
    BY <1>6 DEF TakeEvent, fcVars, controllerVars
  <2> HIDE DEF q
  <2>4. todo'["ui"] = q
    BY <1>0, <2>2, <2>3, UiBegins DEF Unarmed
  <2> QED
    BY <1>0, <1>1, <2>2, <2>3, <2>4 DEF NothingArmed, Unarmed, ArmedOps
<1> QED
  BY <1>3, <1>4, <1>5, <1>6, UiMoves

LEMMA UnarmedStep ==
  ASSUME TypeOK, EmuFired, NothingArmed, Next
  PROVE  NothingArmed'
<1>0. frontend' = frontend /\ (DebuggerOnly' <=> DebuggerOnly)
  <2>1. frontend' = frontend
    BY UiLeaves, EmuMoves, CallBegins DEF Next
  <2> QED
    BY <2>1 DEF DebuggerOnly
<1> SUFFICES ASSUME DebuggerOnly PROVE NothingArmed'
  BY <1>0 DEF NothingArmed
<1>1. /\ ~flag.pcArmed /\ ~flag.scanArmed /\ check \in {"idle", "pc", "scan"} /\ thread # "fired" /\ ~Has(todo["ui"], ArmedOps) /\ ~suspended
      /\ TodoOK /\ todo["emu"] = <<>>
  BY DEF NothingArmed, ArmedOps, EmuFired, TypeOK
<1>2. CASE UiThread
  BY <1>2, UiUnarmed
<1>3. CASE Emulation
  <2>1. ~Has(todo'["ui"], ArmedOps) /\ suspended' = suspended
    <3>1. CASE todo'["ui"] = todo["ui"]
      BY <1>1, <1>3, <3>1, EmuMoves
    <3>2. CASE Awaiting /\ todo'["ui"] = Tail(todo["ui"])
      <4>1. todo["ui"] # <<>> /\ todo["ui"] \in Seq(UiOps)
        BY <1>1, <3>2 DEF Awaiting, Next1, TodoOK
      <4>2. Has(Tail(todo["ui"]), ArmedOps) => Has(todo["ui"], ArmedOps)
        BY <4>1, Begun
      <4> QED
        BY <1>1, <1>3, <3>2, <4>2, EmuMoves
    <3> QED
      BY <1>3, <3>1, <3>2, EmuMoves
  <2>2. ~FreezeFires /\ ~MicroOp("emu")
    <3>1. \A n : ~Next1("emu", n)
      BY <1>1 DEF Next1
    <3>2. ~MicroOp("emu")
      BY <1>1, <3>1, EmuMicroOps DEF StoreFlag, SetFrozenLocked, RefreshTraceFlags, BeginNextStep, Raise
    <3> QED
      BY <1>1, <3>2 DEF FreezeFires, Owners
  <2>3. CASE TakeJob \/ ExecuteJob \/ FinishJob \/ LoopTest \/ BatchEnds \/ LeaveLoop \/ BatchDone
    <3>1. UNCHANGED <<flag, check>> /\ thread' # "fired"
      BY <1>1, <2>3 DEF TakeJob, ExecuteJob, FinishJob, LoopTest, BatchEnds, LeaveLoop, BatchDone, fcVars
    <3> QED
      BY <1>0, <1>1, <2>1, <3>1 DEF NothingArmed, ArmedOps
  <2>4. CASE Instruction
    <3>1. flag' = flag /\ check' = "pc" /\ thread' = thread
      BY <2>4 DEF Instruction, Step
    <3> QED
      BY <1>0, <1>1, <2>1, <3>1 DEF NothingArmed, ArmedOps
  <2>5. CASE CheckFreeze
    <3>1. flag' = flag /\ check' \in {"idle", "scan"} /\ thread' = thread
      BY <1>1, <2>5 DEF CheckFreeze, CheckStep, TestPcArmed, ClearPcArmed, TestScanArmed, MarkSeen, TestLeftLoop, DisarmFired, emuVars
    <3> QED
      BY <1>0, <1>1, <2>1, <3>1 DEF NothingArmed, ArmedOps
  <2> QED
    BY <1>3, <2>2, <2>3, <2>4, <2>5 DEF Emulation, EmulationThread
<1>4. ASSUME NEW c \in frontend.calls, Call(c) PROVE NothingArmed'
  <2>1. todo'["ui"] = Program(c) /\ UNCHANGED <<flag, check, thread, suspended>>
    BY <1>4, CallBegins DEF fcVars
  <2>2. Program(c) \in Unarmed
    BY UnarmedPrograms DEF DebuggerOnly
  <2> QED
    BY <1>0, <1>1, <2>1, <2>2 DEF NothingArmed, Unarmed, ArmedOps
<1> QED
  BY <1>2, <1>3, <1>4 DEF Next

-----------------------------------------------------------------------------
(* In cooperative mode nothing interleaves with a batch.                    *)

(* A step that reads what another operation left: the rest of the program   *)
(* stays, but for the last of a program there is none.                      *)
LEMMA ReadingMoves ==
  ASSUME TypeOK, KeptAlive, Reading
  PROVE  /\ todo["ui"] # <<>> /\ todo["ui"] \in Seq(UiOps)
         /\ Head(todo["ui"]) \in EnteredOps \union LastOps
         /\ Head(todo["ui"]) \in LastOps => Tail(todo["ui"]) = <<>>
         /\ UNCHANGED <<state, running, mirror>>
         /\ Head(todo["ui"]) = Op("startIfSuspendedRunning") => ~suspended'
         /\ Head(todo["ui"]) # Op("startIfSuspendedRunning") => suspended' = suspended /\ suspendedRunning' = suspendedRunning
         /\ \E q \in Seq(UiOps) : /\ todo'["ui"] = q \o Tail(todo["ui"])
                                  /\ ~Has(q, {Op("startUnlessShownFrozen")})
<1> DEFINE ui == todo["ui"]
           h == Head(todo["ui"])
<1>0. TodoOK /\ StateOK /\ RunnerOK /\ ControllerOK /\ ui \in Seq(UiOps)
  BY DEF TypeOK, TodoOK
<1>l. Op("readFrozen") \in LastOps /\ Op("readArmed") \in LastOps /\ Op("startUnlessShownFrozen") \in LastOps /\ Op("startIfSuspendedRunning") \in LastOps
  BY DEF LastOps
<1>i. /\ <<>> \in Inner /\ Start \in Inner /\ Inner \subseteq Seq(UiOps)
      /\ \A f \in BOOLEAN : RunAsm(f) \in Inner
      /\ \A f \in BOOLEAN : Stop \o <<SyncOn("applyReload")>> \o (IF f THEN <<>> ELSE Start) \in Inner
      /\ FreezeInPlace("Cpu") \o <<Op("buildView")>> \in Inner
  <2>1. <<>> \in Inner /\ Start \in Inner /\ Inner \subseteq Seq(UiOps) /\ Quiet \subseteq Inner /\ Reviving \subseteq Inner
    BY QuietParts, RevivingParts, InnerConcat
  <2>2. \A f \in BOOLEAN : RunAsm(f) \in Inner
    BY <2>1, RevivingOperations
  <2>3. Stop \o <<SyncOn("applyReload")>> \in Inner
    <3>1. Stop \in Inner /\ <<SyncOn("applyReload")>> \in Inner
      BY <2>1, RevivingParts, QuietParts DEF SyncKinds
    <3> QED
      BY <3>1, InnerConcat
  <2>4. \A f \in BOOLEAN : Stop \o <<SyncOn("applyReload")>> \o (IF f THEN <<>> ELSE Start) \in Inner
    BY <2>1, <2>3, InnerConcat
  <2>5. FreezeInPlace("Cpu") \in Inner /\ <<Op("buildView")>> \in Inner
    BY <2>1, RevivingOperations, QuietParts DEF PlainNames, QuietNames
  <2> QED
    BY <2>1, <2>2, <2>4, <2>5, InnerConcat
<1>j. \A q \in Inner : q \in Seq(UiOps) /\ ~Has(q, {Op("startUnlessShownFrozen")})
  BY DEF Inner, Has, LastOps
<1>b. state.frozen \in BOOLEAN /\ state.scanLoopExitArmed \in BOOLEAN
  BY <1>0 DEF StateOK, DebugStates
<1>1. ASSUME NEW n, Next1("ui", n), Op(n) \in LastOps, NEW q \in Inner, Replace("ui", q)
      PROVE  /\ ui # <<>> /\ h = Op(n) /\ h \in LastOps /\ Tail(ui) = <<>>
             /\ \E p \in Seq(UiOps) : /\ todo'["ui"] = p \o Tail(ui)
                                      /\ ~Has(p, {Op("startUnlessShownFrozen")})
  <2>1. h = Op(n) /\ ui # <<>> /\ Tail(ui) = <<>> /\ todo'["ui"] = q
    BY <1>1, <1>i, LastReplaced
  <2>2. q \o <<>> = q
    BY <1>j, ConcatEmptySeq
  <2> QED
    BY <1>1, <1>j, <2>1, <2>2
<1>o. \A n \in {"readFrozen", "readArmed", "startUnlessShownFrozen"} : Op(n) # Op("startIfSuspendedRunning")
  BY DEF Op
<1>2. CASE ReadFrozen
  <2> DEFINE q == Stop \o <<SyncOn("applyReload")>> \o (IF state.frozen THEN <<>> ELSE Start)
  <2>1. Next1("ui", "readFrozen") /\ Replace("ui", q) /\ q \in Inner
        /\ UNCHANGED <<state, running, mirror>> /\ suspended' = suspended /\ suspendedRunning' = suspendedRunning
    BY <1>2, <1>b, <1>i DEF ReadFrozen, emuVars, controllerVars
  <2> HIDE DEF q
  <2> QED
    BY <1>0, <1>1, <1>l, <1>o, <2>1
<1>3. CASE ReadArmed
  <2> DEFINE q == RunAsm(state.scanLoopExitArmed)
  <2>1. Next1("ui", "readArmed") /\ Replace("ui", q) /\ q \in Inner
        /\ UNCHANGED <<state, running, mirror>> /\ suspended' = suspended /\ suspendedRunning' = suspendedRunning
    BY <1>3, <1>b, <1>i DEF ReadArmed, emuVars, controllerVars
  <2> HIDE DEF q
  <2> QED
    BY <1>0, <1>1, <1>l, <1>o, <2>1
<1>4. CASE StartUnlessShownFrozen
  <2> DEFINE q == IF mirror.frozen THEN <<>> ELSE Start
  <2>1. Next1("ui", "startUnlessShownFrozen") /\ Replace("ui", q) /\ q \in Inner
        /\ UNCHANGED <<state, running, mirror>> /\ suspended' = suspended /\ suspendedRunning' = suspendedRunning
    BY <1>4, <1>i DEF StartUnlessShownFrozen, emuVars, controllerVars
  <2> HIDE DEF q
  <2> QED
    BY <1>0, <1>1, <1>l, <1>o, <2>1
<1>5. CASE StartIfSuspendedRunning
  <2> DEFINE q == IF suspendedRunning THEN Start ELSE <<>>
  <2>1. Next1("ui", "startIfSuspendedRunning") /\ Replace("ui", q) /\ UNCHANGED <<state, running, mirror>> /\ suspended' = FALSE /\ q \in Inner
    BY <1>5, <1>i DEF StartIfSuspendedRunning, emuVars
  <2> HIDE DEF q
  <2> QED
    BY <1>0, <1>1, <1>l, <1>o, <2>1
<1>6. CASE Entered
  <2>1. ui # <<>> /\ h \in EnteredOps /\ UNCHANGED <<state, running, mirror, suspended, suspendedRunning>>
    <3>1. Next1("ui", "entered") /\ UNCHANGED <<state, running, mirror, suspended, suspendedRunning>>
      BY <1>6 DEF Entered, emuVars
    <3> QED
      BY <1>0, <3>1, UiNext, UiHead
  <2>2. h \notin LastOps /\ h # Op("startIfSuspendedRunning")
    BY <2>1 DEF EnteredOps, LastOps, Op
  <2>3. \E q \in Inner : todo'["ui"] = q \o Tail(ui)
    <3>1. CASE Done("ui")
      <4>1. todo'["ui"] = Tail(ui) /\ Tail(ui) \in Seq(UiOps)
        BY <1>0, <2>1, <3>1, UiDone, HeadAndTail
      <4>2. todo'["ui"] = <<>> \o Tail(ui)
        BY <4>1, ConcatEmptySeq
      <4> QED
        BY <1>i, <4>2
    <3>2. CASE Replace("ui", IF h.freezeOnStart THEN FreezeInPlace("Cpu") \o <<Op("buildView")>> ELSE Start)
      <4> DEFINE q == IF h.freezeOnStart THEN FreezeInPlace("Cpu") \o <<Op("buildView")>> ELSE Start
      <4>1. q \in Inner /\ q \in Seq(UiOps) /\ Replace("ui", q)
        BY <1>i, <3>2
      <4> HIDE DEF q
      <4> QED
        BY <1>0, <2>1, <4>1, UiReplaced
    <3> QED
      BY <1>6, <3>1, <3>2 DEF Entered
  <2> QED
    BY <1>0, <1>j, <2>1, <2>2, <2>3
<1> QED
  BY <1>0, <1>2, <1>3, <1>4, <1>5, <1>6 DEF Reading

(* In cooperative mode the UI thread only pulls while a batch executes; a   *)
(* suspended app does not run; and the panels that decide whether to start  *)
(* the loop are of the session as it is.                                    *)
LEMMA UiAlone ==
  ASSUME TypeOK, KeptAlive, EmuFired, CoopAlone, frontend.cooperative, running => ~state.frozen, UiThread
  PROVE  CoopAlone'
<1> DEFINE ui == todo["ui"]
           r == Tail(todo["ui"])
           h == Head(todo["ui"])
           shownOnly == UiOps \ (Pulls \union ViewOps)
           asShown == {Op("startUnlessShownFrozen")}
<1>0. TodoOK /\ StateOK /\ ControllerOK /\ ui \in Seq(UiOps)
  BY DEF TypeOK, TodoOK
<1>u. UNCHANGED <<frontend, thread>> /\ todo'["emu"] = todo["emu"] /\ frontend'.cooperative /\ (InBatch' <=> InBatch)
  BY UiLeaves DEF InBatch
<1>h. ui # <<>> => h \in UiOps /\ r \in Seq(UiOps) /\ \A A : Has(ui, A) <=> h \in A \/ Has(r, A)
  BY <1>0, HeadAndTail, Begun
<1>c. /\ InBatch => ~Has(ui, shownOnly) /\ ~suspended
      /\ suspended /\ running => Has(ui, Stops)
      /\ Has(ui, asShown) => mirror = state /\ ~Has(ui, WillChange)
      /\ suspended /\ suspendedRunning => ~state.frozen
      /\ Has(todo["emu"], FreezeOps) => ~running
  BY DEF CoopAlone
<1>v. InBatch /\ ui # <<>> => h.op \in {"pull", "onFrozenView"}
  BY <1>c, <1>h DEF Pulls, ViewOps, Op
<1>s. suspended => ui = <<>> \/ ui = <<Op("stop")>> \/ ui = <<Op("startIfSuspendedRunning")>>
  BY DEF KeptAlive, StopsAreRevived
<1>t. \A n : Head(<<Op(n)>>) = Op(n) /\ Op(n).op = n
  BY DEF Op
<1>w. suspended /\ ui # <<>> => h.op \in {"stop", "startIfSuspendedRunning"}
  BY <1>s, <1>t
<1>e. Has(todo["emu"], FreezeOps) => InBatch
  BY DEF EmuFired, InBatch, Has
<1>q. ASSUME InBatch => ~Has(todo'["ui"], shownOnly) /\ ~suspended',
             suspended' /\ running' => Has(todo'["ui"], Stops),
             Has(todo'["ui"], asShown) => mirror' = state' /\ ~Has(todo'["ui"], WillChange),
             suspended' /\ suspendedRunning' => ~state'.frozen,
             InBatch => running' = running
      PROVE  CoopAlone'
  BY <1>c, <1>e, <1>u, <1>q DEF CoopAlone
<1>1. CASE Steady
  <2>1. ui # <<>> /\ h \in UiOps /\ h.op \in SteadyNames /\ r \in Seq(UiOps)
    BY <1>1, <1>h DEF Steady
  <2>2. PICK q \in Seq(UiOps) : todo'["ui"] = q \o r /\ Adds(h, q)
    BY <1>1 DEF Steady
  <2>3. /\ state'.frozen = state.frozen /\ (h.op # "setArmed" => state' = state)
        /\ mirror' = IF h.op = "pull" THEN state ELSE mirror
        /\ running' = IF h.op = "start" THEN TRUE ELSE IF h.op = "stop" THEN FALSE ELSE running
        /\ IF h.op = "readRunning" THEN suspended' = TRUE /\ suspendedRunning' = running
                                   ELSE suspended' = suspended /\ suspendedRunning' = suspendedRunning
    BY <1>1 DEF Steady
  <2>4. \A A : Has(q \o r, A) <=> Has(q, A) \/ Has(r, A)
    <3> SUFFICES ASSUME NEW A PROVE Has(q \o r, A) <=> Has(q, A) \/ Has(r, A)
      OBVIOUS
    <3> QED
      BY <2>1, <2>2, Joined
  <2>5. h.op \notin {"readPc", "sync", "start", "stepKeycode", "stepInstruction"} => q = <<>> /\ todo'["ui"] = r
    BY <2>1, <2>2, ConcatEmptySeq DEF Adds
  <2>6. InBatch => ~Has(todo'["ui"], shownOnly) /\ ~suspended' /\ running' = running
    <3> SUFFICES ASSUME InBatch PROVE ~Has(todo'["ui"], shownOnly) /\ ~suspended' /\ running' = running
      OBVIOUS
    <3>1. h.op \in {"pull", "onFrozenView"}
      BY <1>v, <2>1
    <3>2. todo'["ui"] = r /\ running' = running /\ suspended' = suspended
      BY <2>3, <2>5, <3>1
    <3> HIDE DEF shownOnly
    <3> QED
      BY <1>c, <1>h, <2>1, <3>2
  <2>7. suspended' /\ running' => Has(todo'["ui"], Stops)
    <3>1. CASE h.op = "readRunning"
      <4>1. h = Op("readRunning")
        BY <2>1, <3>1, UiHead DEF PlainNames
      <4>2. Suspending
        <5>1. Has(ui, {Op("readRunning")})
          BY <1>h, <2>1, <4>1
        <5> QED
          BY <5>1 DEF KeptAlive, StopsAreRevived
      <4>3. Op("readRunning") \in UiOps /\ Op("stop") \in UiOps /\ <<Op("stop")>> \in Seq(UiOps)
        BY UiAtoms DEF PlainNames
      <4>4. r = <<Op("stop")>>
        <5>1. ui = <<Op("readRunning")>> \o <<Op("stop")>>
          BY <4>2, <4>3, Pair DEF Suspending
        <5> QED
          BY <4>3, <5>1, Consed
      <4>5. Has(r, Stops)
        BY <4>3, <4>4, OneOp DEF Stops
      <4> QED
        BY <2>2, <2>4, <4>5
    <3>2. CASE h.op # "readRunning"
      BY <1>w, <2>1, <2>3, <3>2 DEF SteadyNames
    <3> QED
      BY <3>1, <3>2
  <2>8. Has(todo'["ui"], asShown) => mirror' = state' /\ ~Has(todo'["ui"], WillChange)
    <3> SUFFICES ASSUME Has(todo'["ui"], asShown) PROVE mirror' = state' /\ ~Has(todo'["ui"], WillChange)
      OBVIOUS
    <3>1. \A o \in AddedOps : o \notin asShown
      BY AddedNames DEF Op
    <3> HIDE DEF asShown
    <3>2. ~Has(q, asShown)
      BY <2>2, <3>1, NotAdded
    <3>3. Has(ui, asShown)
      BY <1>h, <2>1, <2>2, <2>4, <3>2
    <3>4. mirror = state /\ h \notin WillChange /\ ~Has(r, WillChange)
      BY <1>c, <1>h, <2>1, <3>3
    <3>5. h.op \notin {"setArmed", "readPc"}
      BY <2>1, <3>4, UiHead DEF WillChange, Changes, PlainNames
    <3>6. mirror' = state'
      BY <2>3, <3>4, <3>5
    <3>7. ~Has(q, WillChange)
      <4>1. ~Has(q, SetArmedOps) /\ ~Has(q, UiOps \ AddedOps)
        BY <2>2, <3>5 DEF Adds
      <4>2. \A o \in AddedOps : o \in WillChange => o \in SetArmedOps
        <5> SUFFICES ASSUME NEW o \in AddedOps, o \in WillChange PROVE o \in SetArmedOps
          OBVIOUS
        <5>1. o.op \notin {"setFrozen", "entered", "readPc"}
          BY AddedNames DEF Op
        <5> QED
          BY <5>1 DEF WillChange, Changes, SetFrozenOps, EnteredOps, Op
      <4>3. \A i \in 1..Len(q) : q[i] \in UiOps
        BY ElementOfSeq
      <4> QED
        BY <4>1, <4>2, <4>3 DEF Has
    <3> QED
      BY <2>2, <2>4, <3>4, <3>6, <3>7
  <2>9. suspended' /\ suspendedRunning' => ~state'.frozen
    BY <1>c, <2>3
  <2> QED
    BY <1>q, <2>6, <2>7, <2>8, <2>9
<1>2. CASE Locking
  <2> DEFINE g == state.generation + 1
  <2>1. /\ todo'["ui"] = Stamped(ui, g) /\ ui # <<>> /\ h \in SetFrozenOps /\ g \in Nat
        /\ running' = running /\ mirror' = mirror /\ suspended' = suspended /\ suspendedRunning' = suspendedRunning
    <3>1. SetFrozenLocked("ui") /\ "ui" \in Threads /\ running' = running
      BY <1>2 DEF Locking, Threads, SetFrozenLocked, emuVars
    <3>2. todo'["ui"] = Stamped(ui, g) /\ ui # <<>> /\ h \in SetFrozenOps /\ state.generation \in Nat
      BY <1>0, <3>1, Locked
    <3> QED
      BY <1>2, <3>1, <3>2 DEF Locking
  <2>2. h.op = "setFrozen" /\ h \in WillChange
    BY <2>1 DEF SetFrozenOps, WillChange, Changes
  <2>3. ~InBatch /\ ~suspended'
    BY <1>v, <1>w, <2>1, <2>2
  <2>4. ~Has(todo'["ui"], asShown)
    <3>1. ~Has(ui, asShown)
      BY <1>c, <1>h, <2>1, <2>2
    <3>2. Unstamped(UiOps, asShown, g)
      BY DEF Unstamped, Stamp, PostStep, Op
    <3>3. \A o \in UiOps : Stamp(o, g) \in UiOps
      BY <2>1, StampTyped
    <3> HIDE DEF asShown, g
    <3>4. Has(Stamped(ui, g), asShown) <=> Has(Tail(ui), asShown)
      BY <1>0, <2>1, <3>2, <3>3, StampedTail
    <3> QED
      BY <1>h, <2>1, <3>1, <3>4
  <2> QED
    BY <1>q, <2>1, <2>3, <2>4
<1>3. CASE Reading
  <2>1. PICK q \in Seq(UiOps) : todo'["ui"] = q \o r /\ ~Has(q, asShown)
    BY <1>3, ReadingMoves
  <2>2. /\ ui # <<>> /\ h \in EnteredOps \union LastOps
        /\ h \in LastOps => r = <<>>
        /\ UNCHANGED <<state, running, mirror>>
        /\ h = Op("startIfSuspendedRunning") => ~suspended'
        /\ h # Op("startIfSuspendedRunning") => suspended' = suspended /\ suspendedRunning' = suspendedRunning
    BY <1>3, ReadingMoves
  <2>3. h.op \in {"entered", "readFrozen", "readArmed", "startUnlessShownFrozen", "startIfSuspendedRunning"}
    BY <2>2 DEF EnteredOps, LastOps, Op
  <2>4. h.op = "startIfSuspendedRunning" => h = Op("startIfSuspendedRunning")
    BY <1>h, <2>2, UiHead DEF PlainNames
  <2>5. ~InBatch /\ ~suspended'
    BY <1>v, <1>w, <2>2, <2>3, <2>4
  <2>6. ~Has(todo'["ui"], asShown)
    <3>1. ~Has(r, asShown)
      <4>0. ~Has(<<>>, asShown)
        BY DEF Has
      <4> HIDE DEF asShown
      <4>1. CASE h \in LastOps
        BY <2>2, <4>0, <4>1
      <4>2. CASE h \in EnteredOps
        <5>1. h \in WillChange
          BY <4>2 DEF WillChange
        <5> QED
          BY <1>c, <1>h, <2>2, <5>1
      <4> QED
        BY <2>2, <4>1, <4>2
    <3> HIDE DEF asShown
    <3>2. Has(q \o r, asShown) <=> Has(q, asShown) \/ Has(r, asShown)
      BY <1>h, <2>2, Joined
    <3> QED
      BY <2>1, <3>1, <3>2
  <2> QED
    BY <1>q, <2>5, <2>6
<1>4. CASE TakeEvent
  <2> DEFINE q == Pull \o (IF Head(events).op = "frozenView" THEN <<[op |-> "onFrozenView", gen |-> Head(events).gen]>> ELSE <<>>)
  <2>1. /\ todo' = [todo EXCEPT !["ui"] = q] /\ ui = <<>> /\ ~suspended /\ UNCHANGED <<state, running, mirror>>
        /\ suspended' = suspended /\ suspendedRunning' = suspendedRunning /\ Head(events) \in EventOps
    BY <1>0, <1>4, HeadAndTail DEF TakeEvent, emuVars, controllerVars, StateOK
  <2>2. q \in Seq(UiOps) /\ \A i \in 1..Len(q) : q[i] \in Pulls \union ViewOps
    <3>1. Op("pull") \in Pulls /\ Op("pull") \in UiOps
      BY UiAtoms DEF Pulls, PlainNames
    <3>2. ASSUME NEW e \in EventOps, e.op = "frozenView"
          PROVE  [op |-> "onFrozenView", gen |-> e.gen] \in ViewOps /\ [op |-> "onFrozenView", gen |-> e.gen] \in UiOps
      BY <3>2 DEF EventOps, ViewOps, UiOps
    <3>3. Pull \in Seq(Pulls \union ViewOps)
      BY <3>1, OneOp DEF Pull
    <3>4. (IF Head(events).op = "frozenView" THEN <<[op |-> "onFrozenView", gen |-> Head(events).gen]>> ELSE <<>>) \in Seq(Pulls \union ViewOps)
      BY <2>1, <3>1, <3>2, OneOp
    <3> HIDE DEF q
    <3>5. q \in Seq(Pulls \union ViewOps)
      BY <3>3, <3>4, ConcatTyped DEF q
    <3>6. Pulls \union ViewOps \subseteq UiOps
      BY <3>1 DEF Pulls, UiOps
    <3> QED
      BY <3>5, <3>6
  <2> HIDE DEF q
  <2>3. todo'["ui"] = q
    BY <1>0, <2>1, <2>2, UiBegins
  <2>4. ~Has(q, shownOnly) /\ ~Has(q, asShown)
    BY <2>2 DEF Has, Pulls, ViewOps, Op
  <2> QED
    BY <1>q, <2>1, <2>3, <2>4
<1> QED
  BY <1>1, <1>2, <1>3, <1>4, UiMoves

LEMMA EmuAlone ==
  ASSUME TypeOK, KeptAlive, EmuFired, StoppedFirst, CoopAlone, frontend.cooperative, Emulation
  PROVE  CoopAlone'
<1> DEFINE ui == todo["ui"]
           shownOnly == UiOps \ (Pulls \union ViewOps)
           asShown == {Op("startUnlessShownFrozen")}
<1>0. TodoOK /\ ui \in Seq(UiOps) /\ running \in BOOLEAN /\ UNCHANGED <<frontend, mirror, suspended, suspendedRunning>>
  BY EmuMoves DEF TypeOK, TodoOK, RunnerOK
<1>c. /\ InBatch => ~Has(ui, shownOnly) /\ ~suspended
      /\ suspended /\ running => Has(ui, Stops)
      /\ Has(ui, asShown) => mirror = state /\ ~Has(ui, WillChange)
      /\ suspended /\ suspendedRunning => ~state.frozen
      /\ Has(todo["emu"], FreezeOps) => ~running
  BY DEF CoopAlone
<1>m. /\ \/ todo'["ui"] = ui
         \/ Awaiting /\ todo'["ui"] = Tail(ui) /\ UNCHANGED <<state, running>> /\ thread' = "wait"
      /\ running' = running \/ running' = FALSE
      /\ state' = state \/ thread = "fired"
      /\ InBatch' => InBatch \/ (running /\ UiAway)
      /\ Has(todo'["emu"], FreezeOps) => running' = FALSE \/ (Has(todo["emu"], FreezeOps) /\ running' = running)
  BY EmuMoves
<1>n. \A A : ~Has(<<>>, A)
  BY DEF Has
<1>a. Awaiting => /\ ui # <<>> /\ Head(ui) = Op("await") /\ ~running /\ ~InBatch /\ ~suspended
                  /\ \A A : Has(Tail(ui), A) => Has(ui, A)
  <2> SUFFICES ASSUME Awaiting
               PROVE  /\ ui # <<>> /\ Head(ui) = Op("await") /\ ~running /\ ~InBatch /\ ~suspended
                      /\ \A A : Has(Tail(ui), A) => Has(ui, A)
    OBVIOUS
  <2>1. ui # <<>> /\ Head(ui) = Op("await") /\ Op("await") \in UiOps
    BY <1>0, UiNext, UiHead, UiAtoms DEF Awaiting, PlainNames
  <2>2. ~running
    <3>1. Head(ui) \in HaltedOps /\ (~running) \in BOOLEAN
      BY <2>1 DEF HaltedOps
    <3> QED
      BY <1>0, <2>1, <3>1, SafeBegun DEF StoppedFirst
  <2>3. \A A : Has(ui, A) <=> Head(ui) \in A \/ Has(Tail(ui), A)
    BY <1>0, <2>1, Begun
  <2>4. ~InBatch
    <3>1. Op("await") \in shownOnly
      BY <2>1 DEF Pulls, ViewOps, Op
    <3> HIDE DEF shownOnly
    <3> QED
      BY <1>c, <2>1, <2>3, <3>1
  <2>5. ~suspended
    <3>1. \A n : Head(<<Op(n)>>) = Op(n)
      OBVIOUS
    <3>2. Op("await") # Op("stop") /\ Op("await") # Op("startIfSuspendedRunning")
      BY DEF Op
    <3> QED
      BY <2>1, <3>1, <3>2 DEF KeptAlive, StopsAreRevived
  <2> QED
    BY <2>1, <2>2, <2>3, <2>4, <2>5
<1>r. running /\ UiAway => ui = <<>>
  BY <1>a DEF UiAway, Awaiting
<1>s. thread = "fired" => InBatch
  BY DEF InBatch
<1>k. InBatch => ~Has(ui, asShown)
  <2>1. asShown \subseteq shownOnly
    BY UiAtoms DEF PlainNames, Pulls, ViewOps, Op
  <2> QED
    BY <1>c, <2>1 DEF Has
<1>1. InBatch' => ~Has(todo'["ui"], shownOnly) /\ ~suspended'
  <2> HIDE DEF shownOnly
  <2>1. CASE InBatch
    BY <1>0, <1>a, <1>c, <1>m, <2>1
  <2>2. CASE running /\ UiAway
    BY <1>0, <1>a, <1>c, <1>m, <1>n, <1>r, <2>2
  <2> QED
    BY <1>m, <2>1, <2>2
<1>2. suspended' /\ running' => Has(todo'["ui"], Stops)
  BY <1>0, <1>a, <1>c, <1>m
<1>3. Has(todo'["ui"], asShown) => mirror' = state' /\ ~Has(todo'["ui"], WillChange)
  <2> HIDE DEF asShown
  <2> QED
    BY <1>0, <1>a, <1>c, <1>k, <1>m, <1>s
<1>4. suspended' /\ suspendedRunning' => ~state'.frozen
  BY <1>0, <1>c, <1>m, <1>s
<1>5. Has(todo'["emu"], FreezeOps) => ~running'
  BY <1>c, <1>m
<1> QED
  BY <1>1, <1>2, <1>3, <1>4, <1>5 DEF CoopAlone

(* The one program that decides by what the panels show changes nothing     *)
(* they would have to be told of.                                           *)
LEMMA SwitchUnchanging == ~Has(Program("failedSwitch"), WillChange)
<1>1. \A n \in {"stop", "startUnlessShownFrozen"} : Op(n) \in UiOps /\ Op(n) \notin WillChange
  BY UiAtoms DEF PlainNames, WillChange, Changes, SetFrozenOps, SetArmedOps, EnteredOps, Op
<1>2. SyncOn("nothing") \in UiOps /\ SyncOn("nothing") \notin WillChange
  BY UiAtoms DEF SyncKinds, WillChange, Changes, SetFrozenOps, SetArmedOps, EnteredOps, Op, SyncOn
<1>3. Stop \in Seq(UiOps) /\ ~Has(Stop, WillChange)
  BY <1>1, OneOp DEF Stop
<1>4. <<SyncOn("nothing")>> \in Seq(UiOps) /\ ~Has(<<SyncOn("nothing")>>, WillChange)
  BY <1>2, OneOp
<1>5. <<Op("startUnlessShownFrozen")>> \in Seq(UiOps) /\ ~Has(<<Op("startUnlessShownFrozen")>>, WillChange)
  BY <1>1, OneOp
<1>6. Stop \o <<SyncOn("nothing")>> \in Seq(UiOps) /\ ~Has(Stop \o <<SyncOn("nothing")>>, WillChange)
  BY <1>3, <1>4, Joined
<1>7. ~Has(Stop \o <<SyncOn("nothing")>> \o <<Op("startUnlessShownFrozen")>>, WillChange)
  BY <1>5, <1>6, Joined
<1> QED
  BY <1>7 DEF Program

LEMMA CallAlone ==
  ASSUME TypeOK, MirrorDue, KeptAlive, EmuFired, CoopAlone, frontend.cooperative, NEW c \in frontend.calls, Call(c)
  PROVE  CoopAlone'
<1> DEFINE asShown == {Op("startUnlessShownFrozen")}
<1>1. /\ c \in Operations /\ todo["ui"] = <<>> /\ todo'["ui"] = Program(c) /\ todo'["emu"] = todo["emu"]
      /\ UNCHANGED <<fcVars, running, thread, state, events, frontend, mirror, suspended, suspendedRunning>>
      /\ BetweenPumps
  BY CallBegins
<1>2. events = <<>> /\ thread \in {"wait", "enter", "top"}
  BY <1>1 DEF BetweenPumps
<1>3. \A A : ~Has(<<>>, A)
  BY DEF Has
<1>4. todo["emu"] = <<>> /\ ~InBatch /\ ~InBatch'
  BY <1>1, <1>2 DEF EmuFired, InBatch
<1>5. mirror = state
  BY <1>1, <1>2, <1>3, <1>4 DEF MirrorDue
<1>6. suspended => ~running
  BY <1>1, <1>3 DEF CoopAlone
<1>7. Has(Program(c), asShown) => ~Has(Program(c), WillChange)
  <2>1. c # "failedSwitch" => ~Has(Program(c), asShown)
    BY <1>1, RevivingProgram
  <2> QED
    BY <2>1, SwitchUnchanging
<1> QED
  BY <1>1, <1>3, <1>4, <1>5, <1>6, <1>7 DEF CoopAlone

LEMMA AloneStep ==
  ASSUME TypeOK, MirrorDue, KeptAlive, EmuFired, StoppedFirst, CoopAlone, FrozenStops, Next
  PROVE  CoopAlone'
<1>1. frontend' = frontend
  BY UiLeaves, EmuMoves DEF Next, Call
<1> SUFFICES ASSUME frontend.cooperative PROVE CoopAlone'
  BY <1>1 DEF CoopAlone
<1>2. running => ~state.frozen
  BY DEF FrozenStops, Overlapping
<1> QED
  BY <1>2, UiAlone, EmuAlone, CallAlone DEF Next

-----------------------------------------------------------------------------
(* A frozen machine is not started.                                         *)

(* Where the operations do not overlap, no program starts the loop of a     *)
(* machine that is frozen.                                                  *)
LEMMA UiFrozen ==
  ASSUME TypeOK, KeptAlive, StoppedFirst, CoopAlone, NothingArmed, FrozenStops, ~Overlapping, UiThread
  PROVE  FrozenStops'
<1> DEFINE ui == todo["ui"]
           r == Tail(todo["ui"])
           h == Head(todo["ui"])
           t == ~state.frozen
           Unfrozen(p, c) == Safe(p, Starts, UnfreezeOps, Freezers, c)
<1>0. TodoOK /\ StateOK /\ ui \in Seq(UiOps) /\ t \in BOOLEAN /\ UNCHANGED <<frontend, thread>> /\ (~running) \in BOOLEAN
  BY UiLeaves DEF TypeOK, TodoOK
<1>c. (running => t) /\ Unfrozen(ui, t)
  BY DEF FrozenStops
<1>h. ui # <<>> => h \in UiOps /\ r \in Seq(UiOps) /\ (h \in Starts => t) /\ (h \in HaltedOps => ~running)
  <2>1. ui # <<>> => h \in UiOps /\ r \in Seq(UiOps)
    BY <1>0, HeadAndTail
  <2>2. ui # <<>> => (h \in HaltedOps => ~running)
    BY <1>0, SafeBegun DEF StoppedFirst
  <2>3. ui # <<>> => (h \in Starts => t)
    <3> HIDE DEF t, ui
    <3> QED
      BY <1>0, <1>c, SafeBegun DEF h, ui
  <2> QED
    BY <2>1, <2>2, <2>3
<1>o. frontend.cooperative \/ DebuggerOnly
  BY DEF Overlapping, DebuggerOnly
<1>f. ASSUME NEW p \in Seq(UiOps), todo'["ui"] = p, running' => ~state'.frozen, Unfrozen(p, ~state'.frozen)
      PROVE  FrozenStops'
  BY <1>f DEF FrozenStops
<1>1. CASE Steady
  <2>1. ui # <<>> /\ h \in UiOps /\ h.op \in SteadyNames /\ r \in Seq(UiOps)
    BY <1>1, <1>h DEF Steady
  <2>2. PICK q \in Seq(UiOps) : todo'["ui"] = q \o r /\ Adds(h, q)
    BY <1>1 DEF Steady
  <2>3. state'.frozen = state.frozen /\ running' = IF h.op = "start" THEN TRUE ELSE IF h.op = "stop" THEN FALSE ELSE running
    BY <1>1 DEF Steady
  <2>4. ~Has(q, Starts) /\ ~Has(q, Freezers)
    <3>1. \A o \in AddedOps : o \notin Starts /\ o \notin Freezers
      BY AddedNames DEF Starts, Freezers, FreezeOps, SetFrozenOps, EnteredOps, Op
    <3> QED
      BY <2>2, <3>1, NotAdded
  <2>5. running' => ~state'.frozen
    <3>1. h.op = "start" => h \in Starts
      BY <2>1, UiHead DEF Starts, PlainNames
    <3> QED
      BY <1>c, <1>h, <2>1, <2>3, <3>1
  <2>6. h \notin UnfreezeOps
    BY <2>1 DEF UnfreezeOps, SetFrozenOps, SteadyNames
  <2>7. Unfrozen(q, t)
    BY <1>0, <2>4, SafeParts
  <2>8. Unfrozen(q \o Tail(ui), t)
    <3>1. Head(ui) \in UnfreezeOps \/ (t /\ Head(ui) \notin Freezers) => t /\ ~Has(q, Freezers)
      BY <2>4, <2>6
    <3> HIDE DEF ui, t
    <3> QED
      BY <1>0, <1>c, <2>1, <2>7, <3>1, UiSafe DEF ui
  <2>9. q \o r \in Seq(UiOps)
    BY <2>1, ConcatTyped
  <2> QED
    BY <1>f, <2>2, <2>3, <2>5, <2>8, <2>9
<1>2. CASE Locking
  <2> DEFINE g == state.generation + 1
             d == ~state'.frozen
  <2>1. todo'["ui"] = Stamped(ui, g) /\ ui # <<>> /\ h \in SetFrozenOps /\ g \in Nat /\ running' = running /\ state'.frozen = h.frozen
    <3>1. SetFrozenLocked("ui") /\ "ui" \in Threads /\ running' = running
      BY <1>2 DEF Locking, Threads, SetFrozenLocked, emuVars
    <3>2. todo'["ui"] = Stamped(ui, g) /\ ui # <<>> /\ h \in SetFrozenOps /\ state.generation \in Nat /\ state'.frozen = h.frozen
      BY <1>0, <3>1, Locked
    <3> QED
      BY <3>1, <3>2
  <2>2. d \in BOOLEAN /\ (h \in UnfreezeOps \/ (t /\ h \notin Freezers) => d)
    BY <2>1 DEF UnfreezeOps, Freezers, FreezeOps, SetFrozenOps
  <2>3. running' => d
    <3>1. h.frozen => h \in HaltedOps
      BY <2>1 DEF HaltedOps, FreezeOps
    <3> QED
      BY <1>h, <2>1, <3>1
  <2>4. Unstamped(UiOps, Starts, g) /\ Unstamped(UiOps, UnfreezeOps, g) /\ Unstamped(UiOps, Freezers, g)
    BY DEF Unstamped, Stamp, Starts, UnfreezeOps, Freezers, FreezeOps, SetFrozenOps, EnteredOps, PostStep, Op
  <2> HIDE DEF g, d, t, ui
  <2>5. Unfrozen(Tail(ui), d)
    BY <1>0, <1>c, <2>1, <2>2, SafeBegun DEF ui
  <2>6. Unfrozen(Stamped(ui, g), d)
    BY <1>0, <2>1, <2>2, <2>4, <2>5, SafeStamped
  <2>7. Stamped(ui, g) \in Seq(UiOps)
    BY <1>0, <2>1, StampedSeq, StampTyped
  <2> QED
    BY <1>f, <2>1, <2>3, <2>6, <2>7 DEF d
<1>p. /\ Thawing \subseteq Seq(UiOps) /\ <<>> \in Thawing /\ Start \in Seq(UiOps) /\ ~Has(Start, Freezers)
      /\ \A q \in Thawing, c \in BOOLEAN : Unfrozen(q, c)
      /\ Unfrozen(Start, TRUE)
  <2>1. <<>> \in Thawing /\ Start \in Seq(UiOps) /\ ~Has(Start, Freezers)
    BY HarmlessParts, HarmlessClosed, GuardedParts
  <2>2. ASSUME NEW q \in Thawing, NEW c \in BOOLEAN PROVE Unfrozen(q, c)
    <3>1. q \in Seq(UiOps) /\ Unfrozen(q, FALSE)
      BY DEF Thawing, Sure
    <3> QED
      BY <3>1, SafeParts
  <2>3. Unfrozen(Start, TRUE)
    BY <2>1, SafeParts
  <2> QED
    BY <2>1, <2>2, <2>3 DEF Thawing, Sure
<1>l. Op("readFrozen") \in LastOps /\ Op("readArmed") \in LastOps /\ Op("startUnlessShownFrozen") \in LastOps /\ Op("startIfSuspendedRunning") \in LastOps
  BY DEF LastOps
<1>b. state.frozen \in BOOLEAN /\ state.scanLoopExitArmed \in BOOLEAN
  BY <1>0 DEF StateOK, DebugStates
<1>3. ASSUME NEW n, Next1("ui", n), Op(n) \in LastOps, NEW q \in Seq(UiOps), Replace("ui", q), running' = running, state' = state, Unfrozen(q, t)
      PROVE  FrozenStops'
  <2>1. todo'["ui"] = q
    BY <1>3, LastReplaced
  <2> QED
    BY <1>3, <1>c, <1>f, <2>1
<1>4. CASE ReadFrozen
  <2> DEFINE q == Stop \o <<SyncOn("applyReload")>> \o (IF state.frozen THEN <<>> ELSE Start)
  <2>1. Next1("ui", "readFrozen") /\ Replace("ui", q) /\ running' = running /\ state' = state
    BY <1>4 DEF ReadFrozen, emuVars
  <2>2. q \in Seq(UiOps) /\ Unfrozen(q, t)
    BY <1>b, HaltedReplacements, ReplacementsTyped
  <2> HIDE DEF q
  <2> QED
    BY <1>3, <1>l, <2>1, <2>2
<1>5. CASE ReadArmed
  <2> DEFINE q == RunAsm(state.scanLoopExitArmed)
  <2>1. Next1("ui", "readArmed") /\ Replace("ui", q) /\ running' = running /\ state' = state
    BY <1>5 DEF ReadArmed, emuVars
  <2>2. q \in Thawing
    BY <1>b, HaltedReplacements
  <2> HIDE DEF q
  <2>3. q \in Seq(UiOps) /\ Unfrozen(q, t)
    BY <1>0, <1>p, <2>2
  <2> QED
    BY <1>3, <1>l, <2>1, <2>3
<1>x. ASSUME NEW n \in {"startUnlessShownFrozen", "startIfSuspendedRunning"}, Next1("ui", n)
      PROVE  frontend.cooperative /\ Has(ui, {Op(n)})
  <2>1. ui # <<>> /\ h = Op(n) /\ Op(n) \in UiOps
    BY <1>0, <1>x, UiNext, UiHead, UiAtoms DEF PlainNames
  <2>2. \A A : h \in A => Has(ui, A)
    BY <1>0, <2>1, Begun
  <2>3. Op(n).op = n
    BY DEF Op
  <2>4. Op(n) \notin DebuggerUiOps
    BY <2>3, DebuggerNames
  <2>5. ~DebuggerOnly
    BY <2>1, <2>2, <2>4 DEF NothingArmed
  <2> QED
    BY <1>o, <2>1, <2>2, <2>5
<1>6. CASE StartUnlessShownFrozen
  <2> DEFINE q == IF mirror.frozen THEN <<>> ELSE Start
  <2>1. Next1("ui", "startUnlessShownFrozen") /\ Replace("ui", q) /\ running' = running /\ state' = state
    BY <1>6 DEF StartUnlessShownFrozen, emuVars
  <2>2. mirror = state
    BY <1>x, <2>1 DEF CoopAlone
  <2>3. q \in Seq(UiOps) /\ Unfrozen(q, t)
    <3>1. CASE state.frozen
      BY <1>0, <1>p, <2>2, <3>1
    <3>2. CASE ~state.frozen
      <4>1. q = Start /\ t = TRUE
        BY <2>2, <3>2
      <4> QED
        BY <1>p, <4>1
    <3> QED
      BY <3>1, <3>2
  <2> HIDE DEF q
  <2> QED
    BY <1>3, <1>l, <2>1, <2>3
<1>7. CASE StartIfSuspendedRunning
  <2> DEFINE q == IF suspendedRunning THEN Start ELSE <<>>
  <2>1. Next1("ui", "startIfSuspendedRunning") /\ Replace("ui", q) /\ running' = running /\ state' = state
    BY <1>7 DEF StartIfSuspendedRunning, emuVars
  <2>2. frontend.cooperative /\ suspended
    BY <1>x, <2>1 DEF KeptAlive, StopsAreRevived
  <2>3. suspendedRunning => t
    BY <2>2 DEF CoopAlone
  <2>4. q \in Seq(UiOps) /\ Unfrozen(q, t)
    <3>1. CASE suspendedRunning
      <4>1. q = Start /\ t = TRUE
        BY <2>3, <3>1
      <4> QED
        BY <1>p, <4>1
    <3>2. CASE ~suspendedRunning
      BY <1>0, <1>p, <3>2
    <3> QED
      BY <3>1, <3>2
  <2> HIDE DEF q
  <2> QED
    BY <1>3, <1>l, <2>1, <2>4
<1>8. CASE Entered
  <2>1. ui # <<>> /\ h \in EnteredOps /\ h \in Starts /\ h \in Freezers /\ h \notin UnfreezeOps /\ running' = running /\ state' = state
    <3>1. Next1("ui", "entered") /\ running' = running /\ state' = state
      BY <1>8 DEF Entered, emuVars
    <3>2. h \in EnteredOps /\ ui # <<>>
      BY <1>0, <3>1, UiNext, UiHead
    <3> QED
      BY <3>1, <3>2 DEF Starts, Freezers, UnfreezeOps, SetFrozenOps, EnteredOps, Op
  <2>2. t = TRUE
    BY <1>0, <1>h, <2>1
  <2>3. \E q \in Seq(UiOps) : todo'["ui"] = q \o r /\ Unfrozen(q, TRUE)
    <3>1. CASE Done("ui")
      <4>1. todo'["ui"] = <<>> \o r
        BY <1>0, <1>h, <2>1, <3>1, UiDone, ConcatEmptySeq
      <4> QED
        BY <1>p, <4>1
    <3>2. CASE Replace("ui", IF h.freezeOnStart THEN FreezeInPlace("Cpu") \o <<Op("buildView")>> ELSE Start)
      <4> DEFINE q == IF h.freezeOnStart THEN FreezeInPlace("Cpu") \o <<Op("buildView")>> ELSE Start
      <4>1. q \in Seq(UiOps) /\ Unfrozen(q, TRUE)
        BY <1>p, HaltedReplacements
      <4>2. Replace("ui", q)
        BY <3>2
      <4> HIDE DEF q
      <4>3. todo'["ui"] = q \o r
        BY <1>0, <2>1, <4>1, <4>2, UiReplaced
      <4> QED
        BY <4>1, <4>3
    <3> QED
      BY <1>8, <3>1, <3>2 DEF Entered
  <2>4. PICK q \in Seq(UiOps) : todo'["ui"] = q \o r /\ Unfrozen(q, TRUE)
    BY <2>3
  <2>5. Unfrozen(q \o Tail(ui), TRUE) /\ q \o r \in Seq(UiOps)
    <3>1. Unfrozen(ui, TRUE)
      BY <1>c, <2>2
    <3>2. ~ (Head(ui) \in UnfreezeOps \/ (TRUE /\ Head(ui) \notin Freezers))
      BY <2>1
    <3>3. q \o r \in Seq(UiOps)
      BY <1>h, <2>1, ConcatTyped
    <3> HIDE DEF ui
    <3>4. Unfrozen(q \o Tail(ui), TRUE)
      BY <1>0, <2>1, <2>4, <3>1, <3>2, UiSafe
    <3> QED
      BY <3>3, <3>4
  <2>6. (~state'.frozen) = TRUE
    BY <2>1, <2>2
  <2> QED
    BY <1>f, <2>4, <2>5, <2>6
<1>9. CASE TakeEvent
  <2> DEFINE q == Pull \o (IF Head(events).op = "frozenView" THEN <<[op |-> "onFrozenView", gen |-> Head(events).gen]>> ELSE <<>>)
  <2>1. Head(events) \in EventOps
    BY <1>0, <1>9, HeadAndTail DEF TakeEvent, StateOK
  <2>2. q \in Thawing
    <3>1. Head(events).op = "frozenView" => Head(events).gen \in Nat
      BY <2>1 DEF EventOps
    <3>2. q \in Harmless
      BY <3>1, HarmlessParts, HarmlessClosed
    <3> QED
      BY <3>2, HarmlessClosed
  <2>3. todo' = [todo EXCEPT !["ui"] = q] /\ running' = running /\ state' = state
    BY <1>9 DEF TakeEvent, emuVars
  <2> HIDE DEF q
  <2>4. q \in Seq(UiOps) /\ Unfrozen(q, t)
    BY <1>0, <1>p, <2>2
  <2>5. todo'["ui"] = q
    BY <1>0, <2>3, <2>4, UiBegins
  <2> QED
    BY <1>c, <1>f, <2>3, <2>4, <2>5
<1> QED
  BY <1>1, <1>2, <1>4, <1>5, <1>6, <1>7, <1>8, <1>9, UiMoves DEF Reading

LEMMA EmuFrozen ==
  ASSUME TypeOK, EmuFired, CoopAlone, NothingArmed, FrozenStops, ~Overlapping, Emulation
  PROVE  FrozenStops'
<1> DEFINE ui == todo["ui"]
           t == ~state.frozen
           Unfrozen(p, c) == Safe(p, Starts, UnfreezeOps, Freezers, c)
<1>0. TodoOK /\ StateOK /\ ui \in Seq(UiOps) /\ t \in BOOLEAN /\ state' \in DebugStates
  <2>1. TypeOK'
    BY StepTyped DEF Next
  <2> QED
    BY <2>1 DEF TypeOK, TodoOK, StateOK
<1>c. (running => t) /\ Unfrozen(ui, t)
  BY DEF FrozenStops
<1>m. /\ \/ todo'["ui"] = ui
         \/ Awaiting /\ todo'["ui"] = Tail(ui) /\ UNCHANGED <<state, running>>
      /\ running' = running \/ running' = FALSE
      /\ \/ state' = state
         \/ thread = "fired" /\ Has(todo["emu"], FreezeOps) /\ todo'["ui"] = ui /\ running' = running
  BY EmuMoves
<1>o. frontend.cooperative \/ DebuggerOnly
  BY DEF Overlapping, DebuggerOnly
<1>1. CASE todo'["ui"] = ui /\ state' = state
  BY <1>c, <1>m, <1>1 DEF FrozenStops
<1>2. CASE Awaiting /\ todo'["ui"] = Tail(ui) /\ UNCHANGED <<state, running>>
  <2>1. ui # <<>> /\ Head(ui) = Op("await")
    BY <1>0, <1>2, UiNext, UiHead DEF Awaiting, PlainNames
  <2>2. Head(ui) \notin UnfreezeOps /\ Head(ui) \notin Freezers
    BY <2>1 DEF UnfreezeOps, Freezers, FreezeOps, SetFrozenOps, EnteredOps, Op
  <2> HIDE DEF t, ui
  <2>3. Unfrozen(Tail(ui), t)
    BY <1>0, <1>c, <2>1, <2>2, SafeBegun
  <2> QED
    BY <1>2, <1>c, <2>3 DEF FrozenStops, t
<1>3. CASE thread = "fired" /\ Has(todo["emu"], FreezeOps) /\ todo'["ui"] = ui /\ running' = running
  <2>1. frontend.cooperative
    BY <1>o, <1>3 DEF NothingArmed
  <2>2. ~running /\ ~Has(ui, UiOps \ (Pulls \union ViewOps))
    BY <1>3, <2>1 DEF CoopAlone, InBatch
  <2>3. ~Has(ui, Starts)
    <3>1. \A o \in Starts : o \notin Pulls /\ o \notin ViewOps
      BY DEF Starts, EnteredOps, Pulls, ViewOps, Op
    <3>2. \A i \in 1..Len(ui) : ui[i] \in UiOps
      BY <1>0, ElementOfSeq
    <3> QED
      BY <2>2, <3>1, <3>2 DEF Has
  <2>4. (~state'.frozen) \in BOOLEAN
    OBVIOUS
  <2>5. Unfrozen(ui, ~state'.frozen)
    BY <1>0, <2>3, <2>4, SafeParts
  <2> QED
    BY <1>3, <2>2, <2>5 DEF FrozenStops
<1> QED
  BY <1>m, <1>1, <1>2, <1>3

LEMMA FrozenStep ==
  ASSUME TypeOK, KeptAlive, EmuFired, StoppedFirst, CoopAlone, NothingArmed, FrozenStops, Next
  PROVE  FrozenStops'
<1>1. frontend' = frontend
  BY UiLeaves, EmuMoves DEF Next, Call
<1> SUFFICES ASSUME ~Overlapping PROVE FrozenStops'
  BY <1>1 DEF FrozenStops, Overlapping
<1>2. ASSUME NEW c \in frontend.calls, Call(c) PROVE FrozenStops'
  <2>1. c \in Operations /\ todo'["ui"] = Program(c) /\ UNCHANGED <<running, state>>
    BY <1>2, CallBegins
  <2>2. Safe(Program(c), Starts, UnfreezeOps, Freezers, FALSE) /\ Program(c) \in Seq(UiOps)
    BY <2>1, HaltedProgram DEF Thawing, Sure
  <2>3. Safe(Program(c), Starts, UnfreezeOps, Freezers, ~state.frozen)
    <3>1. (~state.frozen) \in BOOLEAN
      OBVIOUS
    <3> QED
      BY <2>2, <3>1, SafeParts
  <2> QED
    BY <2>1, <2>3 DEF FrozenStops
<1> QED
  BY <1>2, UiFrozen, EmuFrozen DEF Next

(* Everything the proof of HaltedWhileFrozen needs of the UI thread's and   *)
(* the emulation thread's programs.                                         *)
InOrder == EmuFired /\ StoppedFirst /\ CoopAlone /\ NothingArmed /\ FrozenStops

LEMMA OrderInit == Init => InOrder
<1> SUFFICES ASSUME Init PROVE InOrder
  OBVIOUS
<1>1. /\ todo["ui"] = Start /\ todo["emu"] = <<>> /\ thread = "wait" /\ ~running /\ ~suspended
      /\ ~state.frozen /\ ~flag.pcArmed /\ ~flag.scanArmed /\ check = "idle"
  BY DEF Init, FreezeInit, Debug
<1>2. Start \in Halting /\ Start \in Unarmed /\ Start \in Seq(UiOps) /\ ~Has(Start, Freezers)
  BY GuardedParts, UnarmedPrograms
<1>3. StoppedFirst
  <2>1. (~running) = TRUE /\ Safe(Start, HaltedOps, Stops, Starts, FALSE)
    BY <1>1, <1>2 DEF Halting, Sure
  <2>2. Safe(Start, HaltedOps, Stops, Starts, TRUE)
    BY <1>2, <2>1, SafeParts
  <2> QED
    BY <1>1, <2>1, <2>2 DEF StoppedFirst
<1>4. FrozenStops
  <2>1. Safe(Start, Starts, UnfreezeOps, Freezers, TRUE) /\ (~state.frozen) = TRUE
    BY <1>1, <1>2, SafeParts
  <2> QED
    BY <1>1, <2>1 DEF FrozenStops
<1>5. ~Has(Start, {Op("startUnlessShownFrozen")}) /\ ~Has(<<>>, FreezeOps)
  <2>1. Op("start") # Op("startUnlessShownFrozen")
    BY DEF Op
  <2> QED
    BY <2>1 DEF Has, Start
<1>6. CoopAlone
  BY <1>1, <1>5 DEF CoopAlone, InBatch
<1>7. NothingArmed
  BY <1>1, <1>2 DEF NothingArmed, Unarmed, ArmedOps
<1> QED
  BY <1>1, <1>3, <1>4, <1>6, <1>7 DEF InOrder, EmuFired

LEMMA OrderStep == TypeOK /\ MirrorDue /\ KeptAlive /\ InOrder /\ [Next]_vars => InOrder'
<1>1. ASSUME TypeOK, MirrorDue, KeptAlive, InOrder, Next PROVE InOrder'
  BY <1>1, StoppedStep, AloneStep, UnarmedStep, FrozenStep DEF InOrder
<1>2. ASSUME InOrder, UNCHANGED vars PROVE InOrder'
  <2>1. UNCHANGED <<flag, check, running, thread, state, todo, frontend, mirror, suspendedRunning, suspended>>
    BY <1>2 DEF vars, fcVars, emuVars, sessionVars, controllerVars
  <2>2. EmuFired' /\ StoppedFirst'
    BY <1>2, <2>1 DEF InOrder, EmuFired, StoppedFirst
  <2>3. CoopAlone'
    BY <1>2, <2>1 DEF InOrder, CoopAlone, InBatch
  <2>4. NothingArmed'
    BY <1>2, <2>1 DEF InOrder, NothingArmed, DebuggerOnly
  <2>5. FrozenStops'
    BY <1>2, <2>1 DEF InOrder, FrozenStops, Overlapping
  <2> QED
    BY <2>2, <2>3, <2>4, <2>5 DEF InOrder
<1> QED
  BY <1>1, <1>2

(* A frozen machine does not run: in cooperative mode always, on two        *)
(* threads as long as FREEZE, RESUME and STEP are the only operations.      *)
THEOREM FrozenIsAtRest == Spec => []HaltedWhileFrozen
<1>1. InOrder => HaltedWhileFrozen
  BY DEF InOrder, FrozenStops, HaltedWhileFrozen, FrozenIsHalted
<1> QED
  BY <1>1, OrderInit, OrderStep, AliveInit, AliveStep, MirrorStep, TypeCorrect, PTL DEF Spec

-----------------------------------------------------------------------------
(* A freeze shown as armed is armed.                                         *)

(* What a freeze is shown as armed by and no longer shown by, and the       *)
(* stores that arm and disarm it.                                           *)
Armings == {"pcArmed", "scanArmed"}
Shows(f) == {o \in SetArmedOps : o[f] = "TRUE"}
Hides(f) == FreezeOps \union {o \in SetArmedOps : o[f] = "FALSE"}
Arms(f) == {Store(f, TRUE)}
Disarms(f) == {Store(f, FALSE)}
Disturbs(f) == Disarms(f) \union EnteredOps \union {Op("readPc")}
ShownArmed(f) == IF f = "pcArmed" THEN state.pcChangeArmed ELSE state.scanLoopExitArmed
Fires(f) == IF f = "pcArmed" THEN "Calculator" ELSE "Cpu"

(* A freeze is armed before it is shown so, what disarms it goes on to hide *)
(* it, and while it is shown it is armed, about to be hidden, or has fired. *)
Due(f) ==
  /\ Leads(todo["ui"], Disarms(f), Hides(f)) /\ Leads(todo["emu"], Disarms(f), Hides(f))
  /\ Safe(todo["ui"], Shows(f), Arms(f), Disturbs(f), flag[f])
  /\ ShownArmed(f) => flag[f] \/ Has(todo["ui"], Hides(f)) \/ Has(todo["emu"], Hides(f)) \/ check = Fires(f)
ArmedDue == frontend.cooperative => \A f \in Armings : Due(f)

-----------------------------------------------------------------------------
(* The programs: they arm before they show, and hide what they disarm.      *)

Honest(f) == {p \in Sure(Shows(f), Arms(f), Disturbs(f)) : Leads(p, Disarms(f), Hides(f))}

LEMMA HonestClosed ==
  ASSUME NEW f \in Armings
  PROVE  /\ Honest(f) \subseteq Seq(UiOps)
         /\ \A p, q \in Honest(f) : p \o q \in Honest(f)
         /\ \A p \in Seq(UiOps) : ~Has(p, Disarms(f)) /\ ~Has(p, Shows(f)) => p \in Honest(f)
         /\ \A p \in Seq(UiOps), q \in Honest(f) : ~Has(p, Shows(f)) /\ Has(q, Hides(f)) => p \o q \in Honest(f)
         /\ \A p \in Made(Shows(f), Arms(f), Disturbs(f)), o \in UiOps :
              ~Has(p, Disarms(f)) /\ o \notin Disarms(f) => p \o <<o>> \in Honest(f)
<1>0. Honest(f) \subseteq Seq(UiOps) /\ Sure(Shows(f), Arms(f), Disturbs(f)) \subseteq Seq(UiOps)
  BY DEF Honest, Sure
<1>1. ASSUME NEW p \in Honest(f), NEW q \in Honest(f) PROVE p \o q \in Honest(f)
  <2>1. p \o q \in Sure(Shows(f), Arms(f), Disturbs(f))
    BY MadeParts DEF Honest
  <2>2. Leads(p \o q, Disarms(f), Hides(f))
    BY <1>0, Joined DEF Honest
  <2> QED
    BY <2>1, <2>2 DEF Honest
<1>2. ASSUME NEW p \in Seq(UiOps), ~Has(p, Disarms(f)), ~Has(p, Shows(f)) PROVE p \in Honest(f)
  <2>1. p \in Sure(Shows(f), Arms(f), Disturbs(f))
    BY <1>2, MadeParts
  <2> QED
    BY <1>2, <2>1 DEF Honest, Leads, Has
<1>3. ASSUME NEW p \in Seq(UiOps), NEW q \in Honest(f), ~Has(p, Shows(f)), Has(q, Hides(f)) PROVE p \o q \in Honest(f)
  <2>1. p \o q \in Sure(Shows(f), Arms(f), Disturbs(f))
    BY <1>3, MadeParts DEF Honest
  <2>2. Leads(p \o q, Disarms(f), Hides(f))
    BY <1>0, <1>3, Joined DEF Honest
  <2> QED
    BY <2>1, <2>2 DEF Honest
<1>4. ASSUME NEW p \in Made(Shows(f), Arms(f), Disturbs(f)), NEW o \in UiOps, ~Has(p, Disarms(f)), o \notin Disarms(f)
      PROVE  p \o <<o>> \in Honest(f)
  <2>1. p \o <<o>> \in Sure(Shows(f), Arms(f), Disturbs(f))
    BY MadeParts
  <2>2. p \in Seq(UiOps) /\ <<o>> \in Seq(UiOps) /\ ~Has(<<o>>, Disarms(f))
    BY <1>4, OneOp DEF Made, Sure
  <2>3. ~Has(p \o <<o>>, Disarms(f))
    BY <1>4, <2>2, Joined
  <2> QED
    BY <2>1, <2>3 DEF Honest, Leads, Has
<1> QED
  BY <1>0, <1>1, <1>2, <1>3, <1>4

LEMMA ShowNames ==
  ASSUME NEW f \in Armings
  PROVE  /\ \A o \in Disarms(f) \union Arms(f) : o.op = "store"
         /\ \A o \in Shows(f) : o.op = "setArmed"
         /\ \A o \in Hides(f) : o.op = "setArmed" \/ (o.op = "setFrozen" /\ o.frozen)
  BY DEF Disarms, Arms, Shows, Hides, SetArmedOps, SetFrozenOps, FreezeOps, Store

LEMMA HonestParts ==
  ASSUME NEW f \in Armings
  PROVE  /\ <<>> \in Honest(f)
         /\ \A o \in UiOps : o.op \notin {"store", "setArmed"} => <<o>> \in Honest(f)
         /\ \A o \in Owners : SetFrozenState(TRUE, o) \in Honest(f)
         /\ ClearFreeze \in Honest(f)
         /\ ArmPc \in Honest(f) /\ DisarmPc \in Honest(f) /\ DisarmScanLoop \in Honest(f)
         /\ \A p \in PC : ArmScanLoopExit(p) \o <<SetArmed("FALSE", "TRUE")>> \o ApplyTraceFlags \in Honest(f)
<1>f. f = "pcArmed" \/ f = "scanArmed"
  BY DEF Armings
<1>1. <<>> \in Honest(f)
  <2>1. <<>> \in Seq(UiOps) /\ ~Has(<<>>, Disarms(f)) /\ ~Has(<<>>, Shows(f))
    BY EmptySeq DEF Has
  <2> QED
    BY <2>1, HonestClosed
<1>2. ASSUME NEW o \in UiOps, o.op \notin {"store", "setArmed"} PROVE <<o>> \in Honest(f)
  <2>1. o \notin Disarms(f) /\ o \notin Shows(f)
    BY <1>2, ShowNames
  <2>2. <<o>> \in Seq(UiOps) /\ ~Has(<<o>>, Disarms(f)) /\ ~Has(<<o>>, Shows(f))
    BY <2>1, OneOp
  <2> QED
    BY <2>2, HonestClosed
<1>a. ApplyTraceFlags \in Honest(f)
  <2>1. Op("applyTraceFlags") \in UiOps /\ Op("applyTraceFlags").op \notin {"store", "setArmed"}
    BY UiAtoms DEF PlainNames, Op
  <2> QED
    BY <1>2, <2>1 DEF ApplyTraceFlags
<1>s. ASSUME NEW p \in Seq(UiOps), \A i \in 1..Len(p) : p[i].op = "store" PROVE ~Has(p, Shows(f))
  BY <1>s, ShowNames DEF Has
<1>h. ASSUME NEW p \in Seq(UiOps), \A i \in 1..Len(p) : p[i].op = "store", NEW o \in UiOps, o \in Hides(f), o.op # "store", o \notin Shows(f)
      PROVE  p \o <<o>> \o ApplyTraceFlags \in Honest(f)
  <2>1. <<o>> \in Seq(UiOps) /\ ~Has(<<o>>, Disarms(f)) /\ ~Has(<<o>>, Shows(f)) /\ Has(<<o>>, Hides(f))
    <3>1. o \notin Disarms(f)
      BY <1>h, ShowNames
    <3> QED
      BY <1>h, <3>1, OneOp
  <2>2. <<o>> \in Honest(f)
    BY <2>1, HonestClosed
  <2>3. p \o <<o>> \in Honest(f)
    BY <1>h, <1>s, <2>1, <2>2, HonestClosed
  <2> QED
    BY <1>a, <2>3, HonestClosed
<1>n. ASSUME NEW p \in Seq(UiOps), \A i \in 1..Len(p) : p[i].op = "store" /\ p[i] # Store(f, FALSE), NEW o \in UiOps, o.op # "store", o \notin Shows(f)
      PROVE  p \o <<o>> \o ApplyTraceFlags \in Honest(f)
  <2>1. <<o>> \in Seq(UiOps) /\ ~Has(<<o>>, Disarms(f)) /\ ~Has(<<o>>, Shows(f))
    <3>1. o \notin Disarms(f)
      BY <1>n, ShowNames
    <3> QED
      BY <1>n, <3>1, OneOp
  <2>2. ~Has(p, Disarms(f)) /\ ~Has(p, Shows(f))
    BY <1>n, <1>s DEF Has, Disarms
  <2>3. p \in Honest(f) /\ <<o>> \in Honest(f)
    BY <2>1, <2>2, HonestClosed
  <2> QED
    BY <1>a, <2>3, HonestClosed
<1>m. ASSUME NEW p \in Seq(UiOps), p # <<>>, \A i \in 1..Len(p) : p[i].op = "store", p[Len(p)] = Store(f, TRUE),
             \A i \in 1..Len(p) : p[i] # Store(f, FALSE), NEW o \in UiOps, o.op # "store"
      PROVE  p \o <<o>> \o ApplyTraceFlags \in Honest(f)
  <2>1. ~Has(p, Disarms(f)) /\ ~Has(p, Shows(f)) /\ o \notin Disarms(f)
    BY <1>m, <1>s, ShowNames DEF Has, Disarms
  <2>2. p \in Made(Shows(f), Arms(f), Disturbs(f))
    <3>1. p \in Sure(Shows(f), Arms(f), Disturbs(f))
      BY <2>1, MadeParts
    <3>2. Len(p) \in 1..Len(p) /\ p[Len(p)] \in Arms(f) /\ \A k \in (Len(p) + 1)..Len(p) : p[k] \notin Disturbs(f)
      <4>1. Len(p) \in Nat \ {0}
        BY <1>m, EmptySeq
      <4>2. \A k \in (Len(p) + 1)..Len(p) : FALSE
        BY <4>1
      <4> QED
        BY <1>m, <4>1, <4>2 DEF Arms
    <3> QED
      BY <3>1, <3>2 DEF Made, After
  <2>3. p \o <<o>> \in Honest(f)
    BY <2>1, <2>2, HonestClosed
  <2> QED
    BY <1>a, <2>3, HonestClosed
<1>3. ASSUME NEW o \in Owners PROVE SetFrozenState(TRUE, o) \in Honest(f)
  <2>1. SetFrozen(TRUE, o) \in UiOps /\ SetFrozen(TRUE, o).op = "setFrozen" /\ SetFrozen(TRUE, o) \in FreezeOps
    BY UiAtoms DEF SetFrozen, FreezeOps, SetFrozenOps
  <2>2. SetFrozen(TRUE, o) \in Hides(f) /\ SetFrozen(TRUE, o) \notin Shows(f) /\ SetFrozen(TRUE, o).op # "store"
    BY <2>1, ShowNames DEF Hides
  <2>3. DisarmBoth \in Seq(UiOps) /\ \A i \in 1..Len(DisarmBoth) : DisarmBoth[i].op = "store"
    BY PartsTyped DEF DisarmBoth, Store
  <2>4. SetFrozenState(TRUE, o) = DisarmBoth \o <<SetFrozen(TRUE, o)>> \o ApplyTraceFlags
    BY DEF SetFrozenState
  <2> QED
    BY <1>h, <2>1, <2>2, <2>3, <2>4
<1>4. ClearFreeze \in Honest(f)
  <2>1. SetFrozen(FALSE, "none") \in UiOps /\ SetFrozen(FALSE, "none").op = "setFrozen"
    BY UiAtoms DEF SetFrozen
  <2>2. <<SetFrozen(FALSE, "none")>> \in Honest(f)
    BY <1>2, <2>1
  <2>3. ClearFreeze = <<>> \o <<SetFrozen(FALSE, "none")>> \o ApplyTraceFlags
    BY DEF ClearFreeze, SetFrozenState
  <2> QED
    BY <1>1, <1>a, <2>2, <2>3, HonestClosed
<1>v. \A v, w \in {"TRUE", "FALSE", "keep"} :
        /\ SetArmed(v, w) \in UiOps /\ SetArmed(v, w) \in SetArmedOps /\ SetArmed(v, w).op # "store"
        /\ SetArmed(v, w)["pcArmed"] = v /\ SetArmed(v, w)["scanArmed"] = w
  BY UiAtoms DEF SetArmed, SetArmedOps
<1>5. DisarmPc \in Honest(f)
  <2> DEFINE o == SetArmed("FALSE", "keep")
  <2>1. /\ DisarmPcChange \in Seq(UiOps) /\ Len(DisarmPcChange) = 1 /\ DisarmPcChange[1] = Store("pcArmed", FALSE)
    BY PartsTyped DEF DisarmPcChange
  <2>2. \A i \in 1..Len(DisarmPcChange) : DisarmPcChange[i].op = "store" /\ DisarmPcChange[i].field = "pcArmed"
    BY <2>1 DEF Store
  <2>3. o \in UiOps /\ o.op # "store" /\ o \notin Shows(f) /\ (f = "pcArmed" => o \in Hides(f))
    BY <1>f, <1>v DEF Shows, Hides
  <2>4. f = "scanArmed" => \A i \in 1..Len(DisarmPcChange) : DisarmPcChange[i] # Store(f, FALSE)
    BY <2>2 DEF Store
  <2>5. DisarmPc = DisarmPcChange \o <<o>> \o ApplyTraceFlags
    BY DEF DisarmPc
  <2> HIDE DEF o
  <2> QED
    BY <1>f, <1>h, <1>n, <2>1, <2>2, <2>3, <2>4, <2>5
<1>6. DisarmScanLoop \in Honest(f)
  <2> DEFINE o == SetArmed("keep", "FALSE")
             p == DisarmScanLoopExit
  <2>1. p \in Seq(UiOps) /\ Len(p) = 2 /\ p[1] = Store("seenLoop", FALSE) /\ p[2] = Store("scanArmed", FALSE)
    BY PartsTyped DEF DisarmScanLoopExit
  <2>2. \A i \in 1..Len(p) : p[i].op = "store" /\ p[i].field \in {"seenLoop", "scanArmed"}
    BY <2>1 DEF Store
  <2>3. o \in UiOps /\ o.op # "store" /\ o \notin Shows(f) /\ (f = "scanArmed" => o \in Hides(f))
    BY <1>f, <1>v DEF Shows, Hides
  <2>4. f = "pcArmed" => \A i \in 1..Len(p) : p[i] # Store(f, FALSE)
    BY <2>2 DEF Store
  <2>5. DisarmScanLoop = p \o <<o>> \o ApplyTraceFlags
    BY DEF DisarmScanLoop
  <2> HIDE DEF o, p
  <2> QED
    BY <1>f, <1>h, <1>n, <2>1, <2>2, <2>3, <2>4, <2>5
<1>7. ArmPc \in Honest(f)
  <2> DEFINE o == SetArmed("TRUE", "FALSE")
             p == ArmPcChange
  <2>1. p \in Seq(UiOps) /\ Len(p) = 3 /\ p[1] = Store("seenLoop", FALSE) /\ p[2] = Store("scanArmed", FALSE) /\ p[3] = Store("pcArmed", TRUE)
    BY PartsTyped DEF ArmPcChange
  <2> HIDE DEF p
  <2>2. (\A i \in 1..Len(p) : p[i].op = "store") /\ p # <<>>
    <3>1. \A i \in 1..3 : i = 1 \/ i = 2 \/ i = 3
      OBVIOUS
    <3>2. \A g, v : Store(g, v).op = "store"
      BY DEF Store
    <3>3. p # <<>>
      <4>1. Len(p) # 0
        BY <2>1
      <4> QED
        BY <4>1
    <3> QED
      BY <2>1, <3>1, <3>2, <3>3
  <2>3. o \in UiOps /\ o.op # "store" /\ (f = "scanArmed" => o \in Hides(f) /\ o \notin Shows(f))
    BY <1>f, <1>v DEF Shows, Hides
  <2>4. f = "pcArmed" => p[Len(p)] = Store(f, TRUE) /\ \A i \in 1..Len(p) : p[i] # Store(f, FALSE)
    <3> SUFFICES ASSUME f = "pcArmed" PROVE p[Len(p)] = Store(f, TRUE) /\ \A i \in 1..Len(p) : p[i] # Store(f, FALSE)
      OBVIOUS
    <3>1. \A i \in 1..3 : i = 1 \/ i = 2 \/ i = 3
      OBVIOUS
    <3> QED
      BY <2>1, <3>1 DEF Store
  <2>5. ArmPc = p \o <<o>> \o ApplyTraceFlags
    BY DEF ArmPc, p
  <2> HIDE DEF o, p
  <2>6. f = "pcArmed" => p \o <<o>> \o ApplyTraceFlags \in Honest(f)
    BY <1>m, <2>1, <2>2, <2>3, <2>4
  <2>7. f = "scanArmed" => p \o <<o>> \o ApplyTraceFlags \in Honest(f)
    BY <1>h, <2>1, <2>2, <2>3
  <2> QED
    BY <1>f, <2>5, <2>6, <2>7
<1>8. ASSUME NEW c \in PC PROVE ArmScanLoopExit(c) \o <<SetArmed("FALSE", "TRUE")>> \o ApplyTraceFlags \in Honest(f)
  <2> DEFINE o == SetArmed("FALSE", "TRUE")
             p == ArmScanLoopExit(c)
  <2>1. p \in Seq(UiOps) /\ Len(p) = 4 /\ p[1] = Store("pcArmed", FALSE) /\ p[2] = Store("seenLoop", FALSE)
        /\ p[3] = Store("armPC", c) /\ p[4] = Store("scanArmed", TRUE)
    BY PartsTyped DEF ArmScanLoopExit
  <2> HIDE DEF p
  <2>2. (\A i \in 1..Len(p) : p[i].op = "store") /\ p # <<>>
    <3>1. \A i \in 1..4 : i = 1 \/ i = 2 \/ i = 3 \/ i = 4
      OBVIOUS
    <3>2. \A g, v : Store(g, v).op = "store"
      BY DEF Store
    <3>3. p # <<>>
      <4>1. Len(p) # 0
        BY <2>1
      <4> QED
        BY <4>1
    <3>4. p[1].op = "store" /\ p[2].op = "store" /\ p[3].op = "store" /\ p[4].op = "store"
      BY <2>1, <3>2
    <3>5. \A i \in 1..4 : p[i].op = "store"
      BY <3>1, <3>4
    <3> QED
      BY <2>1, <3>3, <3>5
  <2>3. o \in UiOps /\ o.op # "store" /\ (f = "pcArmed" => o \in Hides(f) /\ o \notin Shows(f))
    BY <1>f, <1>v DEF Shows, Hides
  <2>4. f = "scanArmed" => p[Len(p)] = Store(f, TRUE) /\ \A i \in 1..Len(p) : p[i] # Store(f, FALSE)
    <3> SUFFICES ASSUME f = "scanArmed" PROVE p[Len(p)] = Store(f, TRUE) /\ \A i \in 1..Len(p) : p[i] # Store(f, FALSE)
      OBVIOUS
    <3>1. \A i \in 1..4 : i = 1 \/ i = 2 \/ i = 3 \/ i = 4
      OBVIOUS
    <3> QED
      BY <2>1, <3>1 DEF Store
  <2> HIDE DEF o, p
  <2>6. f = "scanArmed" => p \o <<o>> \o ApplyTraceFlags \in Honest(f)
    BY <1>m, <2>1, <2>2, <2>3, <2>4
  <2>7. f = "pcArmed" => p \o <<o>> \o ApplyTraceFlags \in Honest(f)
    BY <1>h, <2>1, <2>2, <2>3
  <2> QED
    BY <1>f, <2>6, <2>7 DEF o, p
<1> QED
  BY <1>1, <1>2, <1>3, <1>4, <1>5, <1>6, <1>7, <1>8

LEMMA HonestProgram ==
  ASSUME NEW f \in Armings
  PROVE  /\ \A c \in Operations : Program(c) \in Honest(f)
         /\ \A b \in BOOLEAN : RunAsm(b) \in Honest(f)
         /\ \A b \in BOOLEAN : Stop \o <<SyncOn("applyReload")>> \o (IF b THEN <<>> ELSE Start) \in Honest(f)
         /\ FreezeInPlace("Cpu") \o <<Op("buildView")>> \in Honest(f)
         /\ Start \in Honest(f) /\ <<>> \in Honest(f) /\ Pull \in Honest(f)
         /\ \A g \in Nat : <<[op |-> "onFrozenView", gen |-> g]>> \in Honest(f)
<1>n. \A n \in PlainNames : <<Op(n)>> \in Honest(f)
  <2>1. \A n \in PlainNames : Op(n) \in UiOps /\ Op(n).op = n /\ n \notin {"store", "setArmed"}
    BY UiAtoms DEF Op, PlainNames
  <2> QED
    BY <2>1, HonestParts
<1>s. \A k \in SyncKinds : <<SyncOn(k)>> \in Honest(f)
  <2>1. \A k \in SyncKinds : SyncOn(k) \in UiOps /\ SyncOn(k).op = "sync"
    BY UiAtoms DEF SyncOn
  <2> QED
    BY <2>1, HonestParts
<1>e. \A b \in BOOLEAN : <<[op |-> "entered", freezeOnStart |-> b]>> \in Honest(f)
  BY UiAtoms, HonestParts
<1>v. \A g \in Nat : <<[op |-> "onFrozenView", gen |-> g]>> \in Honest(f)
  BY UiAtoms, HonestParts
<1>p. Start \in Honest(f) /\ Stop \in Honest(f) /\ Pull \in Honest(f) /\ ArmScanLoop \in Honest(f) /\ <<>> \in Honest(f)
  BY <1>n, HonestParts DEF Start, Stop, Pull, ArmScanLoop, PlainNames
<1>o. \A p, q \in Honest(f) : p \o q \in Honest(f)
  BY HonestClosed
<1>c. ClearFreeze \in Honest(f) /\ Resume \in Honest(f) /\ Resume = ClearFreeze \o Start
  <2>1. ClearFreeze \in Honest(f) /\ Resume = ClearFreeze \o Start
    BY HonestParts DEF Resume, ClearFreeze
  <2> QED
    BY <1>o, <1>p, <2>1
<1>r. \A b \in BOOLEAN : RunAsm(b) \in Honest(f)
  <2> SUFFICES ASSUME NEW b \in BOOLEAN PROVE RunAsm(b) \in Honest(f)
    OBVIOUS
  <2>1. <<SyncOn("runAsmOverlay")>> \in Honest(f) /\ <<[op |-> "entered", freezeOnStart |-> b]>> \in Honest(f)
    BY <1>s, <1>e DEF SyncKinds
  <2> QED
    BY <1>o, <1>p, <1>c, <2>1, HonestParts DEF RunAsm
<1>l. \A b \in BOOLEAN : Stop \o <<SyncOn("applyReload")>> \o (IF b THEN <<>> ELSE Start) \in Honest(f)
  BY <1>o, <1>p, <1>s DEF SyncKinds
<1>i. FreezeInPlace("Cpu") \o <<Op("buildView")>> \in Honest(f)
  BY <1>n, <1>o, HonestParts DEF FreezeInPlace, PlainNames, Owners
<1>1. ASSUME NEW c \in {"armPcChange", "armScanLoopExit", "disarm"} PROVE Program(c) \in Honest(f)
  <2>1. ArmPc \o Pull \in Honest(f) /\ ArmScanLoop \o Pull \in Honest(f)
    BY <1>o, <1>p, HonestParts
  <2>2. DisarmPc \o Pull \o DisarmScanLoop \o Pull \in Honest(f)
    BY <1>o, <1>p, HonestParts
  <2> QED
    BY <2>1, <2>2 DEF Program
<1>2. ASSUME NEW c \in {"stepKeycode", "stepInstruction", "applyReload", "runAsm", "resumeAfterSuspend", "suspend"} PROVE Program(c) \in Honest(f)
  <2>1. <<Op("readRunning")>> \o Stop \in Honest(f)
    BY <1>n, <1>o, <1>p DEF PlainNames
  <2> QED
    BY <1>n, <2>1 DEF Program, PlainNames
<1>3. ASSUME NEW c \in {"resume", "cleanReset", "resetMachine"} PROVE Program(c) \in Honest(f)
  <2>1. Resume \o Pull \in Honest(f)
    BY <1>o, <1>p, <1>c
  <2>2. Resume \o Pull \o <<Op("cleanReset")>> \in Honest(f)
    BY <1>n, <1>o, <2>1 DEF PlainNames
  <2>3. SoftResetStopped \in Honest(f)
    BY <1>o, <1>p, <1>s DEF SoftResetStopped, SyncKinds
  <2>4. Resume \o Pull \o SoftResetStopped \in Honest(f)
    BY <1>o, <2>1, <2>3
  <2> QED
    BY <2>1, <2>2, <2>4 DEF Program
<1>4. Program("freeze") \in Honest(f)
  <2>1. Freeze("Calculator") \in Honest(f)
    BY <1>n, <1>o, <1>p, HonestParts DEF Freeze, PlainNames, Owners
  <2> QED
    BY <1>o, <1>p, <2>1 DEF Program
<1>5. Program("applyState") \in Honest(f)
  <2>1. <<SyncOn("applyState")>> \in Honest(f)
    BY <1>s DEF SyncKinds
  <2> QED
    BY <1>o, <1>p, <1>c, <2>1 DEF Program
<1>6. Program("failedSwitch") \in Honest(f)
  <2>1. <<SyncOn("nothing")>> \in Honest(f) /\ <<Op("startUnlessShownFrozen")>> \in Honest(f)
    BY <1>n, <1>s DEF SyncKinds, PlainNames
  <2> QED
    BY <1>o, <1>p, <2>1 DEF Program
<1> QED
  BY <1>1, <1>2, <1>3, <1>4, <1>5, <1>6, <1>r, <1>l, <1>i, <1>p, <1>v DEF Operations, DebuggerCalls

LEMMA HonestBegins ==
  ASSUME NEW f \in Armings, NEW p \in Honest(f), NEW c \in BOOLEAN
  PROVE  p \in Seq(UiOps) /\ Leads(p, Disarms(f), Hides(f)) /\ Safe(p, Shows(f), Arms(f), Disturbs(f), c)
<1>1. p \in Seq(UiOps) /\ Leads(p, Disarms(f), Hides(f)) /\ Safe(p, Shows(f), Arms(f), Disturbs(f), FALSE)
  BY DEF Honest, Sure
<1> QED
  BY <1>1, SafeParts

LEMMA FlagTyped ==
  ASSUME TypeOK, NEW f \in Armings
  PROVE  flag[f] \in BOOLEAN /\ ShownArmed(f) \in BOOLEAN /\ todo["ui"] \in Seq(UiOps) /\ todo["emu"] \in Seq(EmuOps)
  BY DEF TypeOK, FreezeTypeOK, StateOK, DebugStates, TodoOK, Armings, ShownArmed

(* A store, where it is not one that disarms f. *)
LEMMA StoresFlag ==
  ASSUME TypeOK, NEW f \in Armings, NEW h \in DisarmOps \union ArmOps, DoStore(h)
  PROVE  /\ h \in Arms(f) => flag'[f]
         /\ flag[f] /\ h \notin Disarms(f) => flag'[f]
         /\ flag'[f] \in BOOLEAN
<1>1. flag \in [pcArmed : BOOLEAN, scanArmed : BOOLEAN, seenLoop : BOOLEAN, armPC : PC \union {NoPC}]
      /\ flag' \in [pcArmed : BOOLEAN, scanArmed : BOOLEAN, seenLoop : BOOLEAN, armPC : PC \union {NoPC}]
  BY StoredTyped DEF TypeOK, FreezeTypeOK
<1>2. h.field \in {"pcArmed", "scanArmed", "seenLoop", "armPC"} /\ flag' = [flag EXCEPT ![h.field] = h.value]
  BY DEF DisarmOps, ArmOps, DoStore
<1>3. h = [op |-> "store", field |-> h.field, value |-> h.value] /\ (h.field \in Armings => h.value \in BOOLEAN)
  BY DEF DisarmOps, ArmOps, Armings
<1>4. flag'[f] = IF h.field = f THEN h.value ELSE flag[f]
  BY <1>1, <1>2 DEF Armings
<1>5. h \in Arms(f) => h.field = f /\ h.value = TRUE
  BY DEF Arms, Store
<1>6. h.field = f /\ h.value = FALSE => h \in Disarms(f)
  BY <1>3 DEF Disarms, Store
<1>7. flag'[f] \in BOOLEAN
  BY <1>1 DEF Armings
<1> QED
  BY <1>3, <1>4, <1>5, <1>6, <1>7

(* A step that adds nothing a freeze is armed or shown by. *)
LEMMA UiSteadyArmed ==
  ASSUME TypeOK, NEW f \in Armings, Due(f), Steady, UNCHANGED <<frontend, check>>, todo'["emu"] = todo["emu"]
  PROVE  Due(f)'
<1> DEFINE ui == todo["ui"]
           r == Tail(todo["ui"])
           h == Head(todo["ui"])
<1>0. FreezeTypeOK /\ StateOK /\ ui \in Seq(UiOps) /\ flag[f] \in BOOLEAN
  BY FlagTyped DEF TypeOK
<1>1. ui # <<>> /\ h \in UiOps /\ r \in Seq(UiOps) /\ h.op \in SteadyNames
  BY <1>0, HeadAndTail DEF Steady
<1>2. PICK q \in Seq(UiOps) : todo'["ui"] = q \o r /\ Adds(h, q)
  BY DEF Steady
<1>b. \A A : (Has(ui, A) <=> h \in A \/ Has(r, A)) /\ (Has(q \o r, A) <=> Has(q, A) \/ Has(r, A))
  <2> SUFFICES ASSUME NEW A PROVE (Has(ui, A) <=> h \in A \/ Has(r, A)) /\ (Has(q \o r, A) <=> Has(q, A) \/ Has(r, A))
    OBVIOUS
  <2>1. Has(ui, A) <=> h \in A \/ Has(r, A)
    BY <1>0, <1>1, Begun
  <2>2. Has(q \o r, A) <=> Has(q, A) \/ Has(r, A)
    BY <1>1, Joined
  <2> QED
    BY <2>1, <2>2
<1>l. Leads(r, Disarms(f), Hides(f)) /\ (h \in Disarms(f) => Has(r, Hides(f)))
  BY <1>0, <1>1, Begun DEF Due
<1>s. h \in Shows(f) => flag[f]
  BY <1>0, <1>1, SafeBegun DEF Due
<1>g. flag'[f] \in BOOLEAN /\ (h \in Arms(f) => flag'[f]) /\ (flag[f] /\ h \notin Disarms(f) => flag'[f])
      /\ (flag'[f] = flag[f] \/ h \in DisarmOps \union ArmOps)
  <2>1. CASE h.op = "store"
    <3>1. h \in DisarmOps \union ArmOps /\ DoStore(h)
      BY <1>1, <2>1, UiHead DEF Steady
    <3> QED
      BY <3>1, StoresFlag
  <2>2. CASE h.op # "store"
    <3>1. h \notin Arms(f) /\ flag' = flag
      BY <2>2, ShowNames DEF Steady
    <3> QED
      BY <1>0, <3>1
  <2> QED
    BY <2>1, <2>2
(* What the debug state shows. *)
<1>t. ShownArmed(f)' => flag'[f] \/ Has(r, Hides(f)) \/ Has(todo["emu"], Hides(f)) \/ check = Fires(f)
  <2>1. CASE h.op = "setArmed"
    <3>1. SetArmedLocked("ui") /\ h \in SetArmedOps
      BY <1>1, <2>1, UiHead DEF Steady
    <3>2. h \notin Disarms(f) /\ h \notin DisarmOps \union ArmOps
      BY <2>1, ShowNames DEF DisarmOps, ArmOps
    <3>3. h[f] \in {"TRUE", "FALSE", "keep"} /\ (h[f] = "TRUE" <=> h \in Shows(f)) /\ (h[f] = "FALSE" => h \in Hides(f))
      BY <3>1 DEF SetArmedOps, Shows, Hides, Armings
    <3>4. ShownArmed(f)' = IF h[f] = "keep" THEN ShownArmed(f) ELSE h[f] = "TRUE"
      BY <1>0, <3>1 DEF SetArmedLocked, ShownArmed, Armings, StateOK, DebugStates
    <3>5. h[f] = "keep" => h \notin Hides(f)
      BY <3>1 DEF Hides, FreezeOps, SetFrozenOps, SetArmedOps
    <3> QED
      BY <1>b, <1>g, <1>s, <3>2, <3>3, <3>4, <3>5 DEF Due
  <2>2. CASE h.op # "setArmed"
    <3>1. ShownArmed(f)' = ShownArmed(f)
      BY <2>2 DEF Steady, ShownArmed
    <3>2. h \notin Hides(f)
      BY <1>1, <2>2, ShowNames DEF SteadyNames
    <3> QED
      BY <1>b, <1>g, <1>l, <3>1, <3>2 DEF Due
  <2> QED
    BY <2>1, <2>2
<1>i. ShownArmed(f)' => flag'[f] \/ Has(todo'["ui"], Hides(f)) \/ Has(todo'["emu"], Hides(f)) \/ check' = Fires(f)
  BY <1>2, <1>b, <1>t
<1>3. CASE h.op = "readPc"
  <2>1. h = Op("readPc") /\ h \in Disturbs(f) /\ h \notin Arms(f)
    BY <1>1, <1>3, UiHead, ShowNames DEF Disturbs, PlainNames
  <2> DEFINE p == ArmScanLoopExit(pc) \o <<SetArmed("FALSE", "TRUE")>> \o ApplyTraceFlags
  <2>2. Replace("ui", p)
    BY <1>1, <1>3 DEF Steady, ReadPc
  <2>3. p \in Honest(f)
    BY <1>0, HonestParts DEF FreezeTypeOK
  <2> HIDE DEF p
  <2>4. p \in Seq(UiOps) /\ Leads(p, Disarms(f), Hides(f)) /\ Safe(p, Shows(f), Arms(f), Disturbs(f), flag'[f])
    BY <1>g, <2>3, HonestBegins
  <2>5. todo'["ui"] = p \o r
    BY <1>1, <2>2, <2>4, UiReplaced DEF TypeOK
  <2>6. Leads(p \o r, Disarms(f), Hides(f))
    BY <1>1, <1>l, <2>4, Joined
  <2>7. Safe(p \o r, Shows(f), Arms(f), Disturbs(f), flag'[f])
    <3>1. Safe(ui, Shows(f), Arms(f), Disturbs(f), flag[f]) /\ ~(Head(ui) \in Arms(f) \/ (flag[f] /\ Head(ui) \notin Disturbs(f)))
      BY <2>1 DEF Due
    <3> HIDE DEF ui
    <3>2. Safe(p \o Tail(ui), Shows(f), Arms(f), Disturbs(f), flag'[f])
      BY <1>0, <1>1, <1>g, <2>4, <3>1, UiSafe
    <3> QED
      BY <3>2 DEF ui
  <2> QED
    BY <1>i, <2>5, <2>6, <2>7 DEF Due
<1>4. CASE h.op # "readPc"
  <2>1. ~Has(q, Disturbs(f)) /\ ~Has(q, Shows(f)) /\ ~Has(q, Disarms(f))
    <3>1. ~Has(q, StoreOps) /\ ~Has(q, SetArmedOps) /\ \A i \in 1..Len(q) : q[i] \in UiOps /\ q[i] \in AddedOps
      <4>1. \A i \in 1..Len(q) : q[i] \in UiOps
        BY ElementOfSeq
      <4> QED
        BY <1>2, <1>4, <4>1 DEF Adds, Has
    <3>2. Disarms(f) \subseteq StoreOps /\ Shows(f) \subseteq SetArmedOps
      BY DEF Disarms, Shows, StoreOps, DisarmOps, Armings, Store
    <3>3. \A o \in AddedOps : o \in Disturbs(f) => o \in StoreOps
      <4>1. \A o \in AddedOps : o \notin EnteredOps /\ o # Op("readPc")
        BY AddedNames DEF EnteredOps, Op
      <4> QED
        BY <3>2, <4>1 DEF Disturbs
    <3> QED
      BY <3>1, <3>2, <3>3 DEF Has
  <2>2. Leads(q \o r, Disarms(f), Hides(f))
    <3>1. Leads(q, Disarms(f), Hides(f))
      BY <2>1 DEF Leads, Has
    <3> QED
      BY <1>1, <1>l, <3>1, Joined
  <2>3. Safe(q \o r, Shows(f), Arms(f), Disturbs(f), flag'[f])
    <3>1. Safe(ui, Shows(f), Arms(f), Disturbs(f), flag[f])
      BY DEF Due
    <3>2. Head(ui) \in Arms(f) \/ (flag[f] /\ Head(ui) \notin Disturbs(f)) => flag'[f] /\ ~Has(q, Disturbs(f))
      BY <1>g, <2>1 DEF Disturbs
    <3>3. Safe(q, Shows(f), Arms(f), Disturbs(f), flag'[f])
      BY <1>g, <2>1, SafeParts
    <3> HIDE DEF ui
    <3>4. Safe(q \o Tail(ui), Shows(f), Arms(f), Disturbs(f), flag'[f])
      BY <1>0, <1>1, <1>g, <3>1, <3>2, <3>3, UiSafe
    <3> QED
      BY <3>4 DEF ui
  <2> QED
    BY <1>2, <1>i, <2>2, <2>3 DEF Due
<1> QED
  BY <1>3, <1>4

(* A step of the UI thread that begins an honest program, where what comes  *)
(* after it is untouched.                                                   *)
LEMMA ArmedReplaced ==
  ASSUME TypeOK, NEW f \in Armings, Due(f), NEW r \in Seq(UiOps), NEW q \in Honest(f),
         todo'["ui"] = q \o r, UNCHANGED <<state, flag, check>>, todo'["emu"] = todo["emu"],
         Leads(r, Disarms(f), Hides(f)), Safe(r, Shows(f), Arms(f), Disturbs(f), FALSE),
         Has(todo["ui"], Hides(f)) => Has(r, Hides(f))
  PROVE  Due(f)'
<1>0. flag[f] \in BOOLEAN
  BY FlagTyped
<1>1. q \in Seq(UiOps) /\ Leads(q, Disarms(f), Hides(f)) /\ Safe(q, Shows(f), Arms(f), Disturbs(f), flag[f])
  BY <1>0, HonestBegins
<1>2. Leads(q \o r, Disarms(f), Hides(f)) /\ (Has(r, Hides(f)) => Has(q \o r, Hides(f)))
  BY <1>1, Joined DEF Due
<1>3. Safe(q \o r, Shows(f), Arms(f), Disturbs(f), flag[f])
  BY <1>0, <1>1, SafeJoined
<1>4. ShownArmed(f)' = ShownArmed(f)
  BY DEF ShownArmed
<1>5. flag'[f] = flag[f]
  OBVIOUS
<1> QED
  BY <1>2, <1>3, <1>4, <1>5 DEF Due

LEMMA SafeRest ==
  ASSUME NEW p \in Seq(UiOps), p # <<>>, NEW A, NEW B, NEW C, NEW c \in BOOLEAN, NEW d \in BOOLEAN,
         Safe(p, A, B, C, c), Head(p) \in B \/ (c /\ Head(p) \notin C) => d
  PROVE  Safe(Tail(p), A, B, C, d)
  BY SafeBegun

LEMMA UiArmed ==
  ASSUME TypeOK, KeptAlive, NEW f \in Armings, Due(f), UiThread
  PROVE  Due(f)'
<1> DEFINE ui == todo["ui"]
           r == Tail(todo["ui"])
           h == Head(todo["ui"])
<1>0. TodoOK /\ StateOK /\ ui \in Seq(UiOps) /\ flag[f] \in BOOLEAN
  BY FlagTyped DEF TypeOK
<1>u. UNCHANGED <<frontend, check>> /\ todo'["emu"] = todo["emu"]
  BY UiLeaves
<1>e. <<>> \in Seq(UiOps) /\ (\A A : ~Has(<<>>, A)) /\ Leads(<<>>, Disarms(f), Hides(f))
      /\ Safe(<<>>, Shows(f), Arms(f), Disturbs(f), FALSE) /\ (\A p \in Seq(UiOps) : p \o <<>> = p)
  <2>1. \A A : ~Has(<<>>, A)
    BY DEF Has
  <2>2. Leads(<<>>, Disarms(f), Hides(f)) /\ Safe(<<>>, Shows(f), Arms(f), Disturbs(f), FALSE)
    BY DEF Leads, Safe
  <2> QED
    BY <2>1, <2>2, EmptySeq, ConcatEmptySeq
<1>h. ui # <<>> => /\ h \in UiOps /\ r \in Seq(UiOps)
                   /\ \A A : Has(ui, A) <=> h \in A \/ Has(r, A)
                   /\ Leads(r, Disarms(f), Hides(f))
  BY <1>0, HeadAndTail, Begun DEF Due
<1>1. CASE Steady
  BY <1>1, <1>u, UiSteadyArmed
<1>2. CASE Locking
  <2> DEFINE g == state.generation + 1
  <2>1. /\ todo'["ui"] = Stamped(ui, g) /\ ui # <<>> /\ h \in SetFrozenOps /\ g \in Nat /\ flag' = flag
        /\ (h.frozen => ~ShownArmed(f)') /\ (~h.frozen => ShownArmed(f)' = ShownArmed(f))
    <3>1. SetFrozenLocked("ui") /\ "ui" \in Threads /\ flag' = flag
      BY <1>2 DEF Locking, Threads, SetFrozenLocked, fcVars
    <3>2. /\ todo'["ui"] = Stamped(ui, g) /\ ui # <<>> /\ h \in SetFrozenOps /\ state.generation \in Nat
          /\ state'.pcChangeArmed = (state.pcChangeArmed /\ ~h.frozen)
          /\ state'.scanLoopExitArmed = (state.scanLoopExitArmed /\ ~h.frozen)
      BY <1>0, <3>1, Locked
    <3>3. state.pcChangeArmed \in BOOLEAN /\ state.scanLoopExitArmed \in BOOLEAN /\ h.frozen \in BOOLEAN
      BY <1>0, <3>2 DEF StateOK, DebugStates, SetFrozenOps
    <3>4. h.frozen => ~state'.pcChangeArmed /\ ~state'.scanLoopExitArmed
      BY <3>2, <3>3
    <3>5. ~h.frozen => state'.pcChangeArmed = state.pcChangeArmed /\ state'.scanLoopExitArmed = state.scanLoopExitArmed
      BY <3>2, <3>3
    <3>6. h.frozen => ~ShownArmed(f)'
      BY <3>4 DEF ShownArmed
    <3>7. ~h.frozen => ShownArmed(f)' = ShownArmed(f)
      BY <3>5 DEF ShownArmed
    <3> QED
      BY <3>1, <3>2, <3>3, <3>6, <3>7
  <2>2. /\ Unstamped(UiOps, Shows(f), g) /\ Unstamped(UiOps, Arms(f), g) /\ Unstamped(UiOps, Disturbs(f), g)
        /\ Unstamped(UiOps, Disarms(f), g) /\ Unstamped(UiOps, Hides(f), g)
    BY DEF Unstamped, Stamp, Shows, Arms, Disturbs, Disarms, Hides, SetArmedOps, FreezeOps, SetFrozenOps, EnteredOps, Store, PostStep, Op
  <2>3. h \notin Disturbs(f) /\ h \notin Arms(f) /\ (~h.frozen => h \notin Hides(f))
    BY <2>1 DEF Disturbs, Disarms, EnteredOps, SetFrozenOps, Arms, Hides, FreezeOps, SetArmedOps, Store, Op
  <2>4. \A o \in UiOps : Stamp(o, g) \in UiOps
    BY <2>1, StampTyped
  <2> HIDE DEF g
  <2>5. Safe(Stamped(ui, g), Shows(f), Arms(f), Disturbs(f), flag[f])
    <3>1. Safe(r, Shows(f), Arms(f), Disturbs(f), flag[f])
      BY <1>0, <2>1, <2>3, SafeBegun DEF Due
    <3> QED
      BY <1>0, <2>1, <2>2, <3>1, SafeStamped
  <2>6. Leads(Stamped(ui, g), Disarms(f), Hides(f)) /\ (Has(Stamped(ui, g), Hides(f)) <=> Has(r, Hides(f)))
    <3>1. /\ Leads(Stamped(ui, g), Disarms(f), Hides(f)) <=> Leads(r, Disarms(f), Hides(f))
          /\ Has(Stamped(ui, g), Hides(f)) <=> Has(r, Hides(f))
      BY <1>0, <2>1, <2>2, <2>4, StampedTail
    <3> QED
      BY <1>h, <2>1, <3>1
  <2>7. ShownArmed(f)' => flag'[f] \/ Has(todo'["ui"], Hides(f)) \/ Has(todo'["emu"], Hides(f)) \/ check' = Fires(f)
    BY <1>h, <1>u, <2>1, <2>3, <2>6 DEF Due
  <2> QED
    BY <1>u, <2>1, <2>5, <2>6, <2>7 DEF Due
<1>3. ASSUME NEW n, Next1("ui", n), Op(n) \in LastOps, NEW q \in Honest(f), Replace("ui", q), UNCHANGED <<state, flag>>
      PROVE  Due(f)'
  <2>1. q \in Seq(UiOps)
    BY DEF Honest, Sure
  <2>2. h = Op(n) /\ ui # <<>> /\ r = <<>> /\ todo'["ui"] = q
    BY <1>3, <2>1, LastReplaced
  <2>3. h \notin Hides(f)
    BY <1>3, <2>2 DEF LastOps, Hides, FreezeOps, SetFrozenOps, SetArmedOps, Op
  <2>4. ~Has(ui, Hides(f))
    BY <1>e, <1>h, <2>2, <2>3
  <2>5. todo'["ui"] = q \o <<>>
    BY <1>e, <2>1, <2>2
  <2> QED
    BY <1>3, <1>e, <1>u, <2>4, <2>5, ArmedReplaced
<1>l. Op("readFrozen") \in LastOps /\ Op("readArmed") \in LastOps /\ Op("startUnlessShownFrozen") \in LastOps /\ Op("startIfSuspendedRunning") \in LastOps
  BY DEF LastOps
<1>b. state.frozen \in BOOLEAN /\ state.scanLoopExitArmed \in BOOLEAN
  BY <1>0 DEF StateOK, DebugStates
<1>4. CASE ReadFrozen
  <2> DEFINE q == Stop \o <<SyncOn("applyReload")>> \o (IF state.frozen THEN <<>> ELSE Start)
  <2>1. Next1("ui", "readFrozen") /\ Replace("ui", q) /\ UNCHANGED <<state, flag>>
    BY <1>4 DEF ReadFrozen, fcVars
  <2>2. q \in Honest(f)
    BY <1>b, HonestProgram
  <2> HIDE DEF q
  <2> QED
    BY <1>3, <1>l, <2>1, <2>2
<1>5. CASE ReadArmed
  <2> DEFINE q == RunAsm(state.scanLoopExitArmed)
  <2>1. Next1("ui", "readArmed") /\ Replace("ui", q) /\ UNCHANGED <<state, flag>>
    BY <1>5 DEF ReadArmed, fcVars
  <2>2. q \in Honest(f)
    BY <1>b, HonestProgram
  <2> HIDE DEF q
  <2> QED
    BY <1>3, <1>l, <2>1, <2>2
<1>6. CASE StartUnlessShownFrozen
  <2> DEFINE q == IF mirror.frozen THEN <<>> ELSE Start
  <2>1. Next1("ui", "startUnlessShownFrozen") /\ Replace("ui", q) /\ UNCHANGED <<state, flag>>
    BY <1>6 DEF StartUnlessShownFrozen, fcVars
  <2>2. q \in Honest(f)
    BY HonestProgram
  <2> HIDE DEF q
  <2> QED
    BY <1>3, <1>l, <2>1, <2>2
<1>7. CASE StartIfSuspendedRunning
  <2> DEFINE q == IF suspendedRunning THEN Start ELSE <<>>
  <2>1. Next1("ui", "startIfSuspendedRunning") /\ Replace("ui", q) /\ UNCHANGED <<state, flag>>
    BY <1>7 DEF StartIfSuspendedRunning, fcVars
  <2>2. q \in Honest(f)
    BY HonestProgram
  <2> HIDE DEF q
  <2> QED
    BY <1>3, <1>l, <2>1, <2>2
<1>8. CASE Entered
  <2>1. ui # <<>> /\ h \in EnteredOps /\ UNCHANGED <<state, flag>>
    <3>1. Next1("ui", "entered") /\ UNCHANGED <<state, flag>>
      BY <1>8 DEF Entered, fcVars
    <3> QED
      BY <1>0, <3>1, UiNext, UiHead
  <2>2. h \in Disturbs(f) /\ h \notin Arms(f) /\ h \notin Hides(f)
    BY <2>1 DEF Disturbs, EnteredOps, Arms, Hides, FreezeOps, SetFrozenOps, SetArmedOps, Store
  <2>3. Safe(r, Shows(f), Arms(f), Disturbs(f), FALSE)
    <3>1. Safe(ui, Shows(f), Arms(f), Disturbs(f), flag[f])
      BY DEF Due
    <3>2. ~(Head(ui) \in Arms(f) \/ (flag[f] /\ Head(ui) \notin Disturbs(f)))
      BY <2>2
    <3> HIDE DEF ui
    <3>3. Safe(Tail(ui), Shows(f), Arms(f), Disturbs(f), FALSE)
      <4>1. ui \in Seq(UiOps) /\ ui # <<>> /\ flag[f] \in BOOLEAN /\ FALSE \in BOOLEAN
        BY <1>0, <2>1
      <4> QED
        BY <3>1, <3>2, <4>1, SafeRest
    <3> QED
      BY <3>3 DEF ui
  <2>4. Has(ui, Hides(f)) => Has(r, Hides(f))
    BY <1>h, <2>1, <2>2
  <2>5. \E q \in Honest(f) : todo'["ui"] = q \o r
    <3>1. CASE Done("ui")
      <4>1. todo'["ui"] = <<>> \o r
        BY <1>0, <1>h, <2>1, <3>1, UiDone, ConcatEmptySeq
      <4> QED
        BY <4>1, HonestProgram
    <3>2. CASE Replace("ui", IF h.freezeOnStart THEN FreezeInPlace("Cpu") \o <<Op("buildView")>> ELSE Start)
      <4> DEFINE q == IF h.freezeOnStart THEN FreezeInPlace("Cpu") \o <<Op("buildView")>> ELSE Start
      <4>1. q \in Honest(f)
        BY HonestProgram
      <4>2. Replace("ui", q)
        BY <3>2
      <4> HIDE DEF q
      <4>3. q \in Seq(UiOps)
        BY <4>1 DEF Honest, Sure
      <4>4. todo'["ui"] = q \o r
        BY <1>0, <2>1, <4>2, <4>3, UiReplaced
      <4> QED
        BY <4>1, <4>4
    <3> QED
      BY <1>8, <3>1, <3>2 DEF Entered
  <2>6. r \in Seq(UiOps) /\ Leads(r, Disarms(f), Hides(f))
    BY <1>h, <2>1
  <2> HIDE DEF r
  <2> QED
    BY <1>u, <2>1, <2>3, <2>4, <2>5, <2>6, ArmedReplaced
<1>9. CASE TakeEvent
  <2> DEFINE q == Pull \o (IF Head(events).op = "frozenView" THEN <<[op |-> "onFrozenView", gen |-> Head(events).gen]>> ELSE <<>>)
  <2>1. Head(events) \in EventOps
    BY <1>0, <1>9, HeadAndTail DEF TakeEvent, StateOK
  <2>2. q \in Honest(f)
    <3>1. Head(events).op = "frozenView" => Head(events).gen \in Nat
      BY <2>1 DEF EventOps
    <3> QED
      BY <3>1, HonestProgram, HonestClosed
  <2>3. todo' = [todo EXCEPT !["ui"] = q] /\ ui = <<>> /\ UNCHANGED <<state, flag>>
    BY <1>9 DEF TakeEvent, fcVars
  <2> HIDE DEF q
  <2>4. q \in Seq(UiOps)
    BY <2>2 DEF Honest, Sure
  <2>5. todo'["ui"] = q \o <<>>
    BY <1>0, <1>e, <2>3, <2>4, UiBegins
  <2> QED
    BY <1>e, <1>u, <2>2, <2>3, <2>5, ArmedReplaced
<1> QED
  BY <1>1, <1>2, <1>4, <1>5, <1>6, <1>7, <1>8, <1>9, UiMoves DEF Reading

LEMMA FireHides ==
  ASSUME NEW f \in Armings, NEW o \in Owners
  PROVE  Leads(OnFreezeFired(o), Disarms(f), Hides(f)) /\ Has(OnFreezeFired(o), Hides(f))
<1>1. DisarmBoth \in Seq(EmuOps) /\ <<SetFrozen(TRUE, o)>> \in Seq(EmuOps) /\ ApplyTraceFlags \in Seq(EmuOps)
      /\ (IF o = "Calculator" THEN <<Op("beginNextStep")>> ELSE <<>>) \in Seq(EmuOps)
      /\ <<Op("debugStateChanged"), Op("frozenViewReady")>> \in Seq(EmuOps)
  BY FiredParts
<1>2. SetFrozen(TRUE, o) \in Hides(f)
  BY DEF SetFrozen, Hides, FreezeOps, SetFrozenOps
<1>3. Has(<<SetFrozen(TRUE, o)>>, Hides(f)) /\ Leads(<<SetFrozen(TRUE, o)>>, Disarms(f), Hides(f))
  <2>1. SetFrozen(TRUE, o).op = "setFrozen"
    BY DEF SetFrozen
  <2>2. SetFrozen(TRUE, o) \notin Disarms(f)
    BY <2>1, ShowNames
  <2> QED
    BY <1>2, <2>2, OneOp
<1>4. \A n \in EmuNames : Op(n) \notin Disarms(f)
  BY DEF EmuNames, Op, Disarms, Store
<1>5. Leads(ApplyTraceFlags, Disarms(f), Hides(f))
  BY <1>4 DEF Leads, EmuNames, ApplyTraceFlags
<1>6. Leads(IF o = "Calculator" THEN <<Op("beginNextStep")>> ELSE <<>>, Disarms(f), Hides(f))
  BY <1>4 DEF Leads, EmuNames
<1>7. Leads(<<Op("debugStateChanged"), Op("frozenViewReady")>>, Disarms(f), Hides(f))
  BY <1>4 DEF Leads, EmuNames
<1> DEFINE b == DisarmBoth
           s == <<SetFrozen(TRUE, o)>>
           a == ApplyTraceFlags
           q == IF o = "Calculator" THEN <<Op("beginNextStep")>> ELSE <<>>
           r == <<Op("debugStateChanged"), Op("frozenViewReady")>>
<1>8. b \in Seq(EmuOps) /\ s \in Seq(EmuOps) /\ a \in Seq(EmuOps) /\ q \in Seq(EmuOps) /\ r \in Seq(EmuOps)
      /\ Has(s, Hides(f)) /\ Leads(s, Disarms(f), Hides(f)) /\ Leads(a, Disarms(f), Hides(f))
      /\ Leads(q, Disarms(f), Hides(f)) /\ Leads(r, Disarms(f), Hides(f))
  BY <1>1, <1>3, <1>5, <1>6, <1>7
<1>9. OnFreezeFired(o) = b \o s \o a \o q \o r
  BY DEF OnFreezeFired, SetFrozenState
<1> HIDE DEF b, s, a, q, r
<1>10. b \o s \in Seq(EmuOps) /\ Leads(b \o s, Disarms(f), Hides(f)) /\ Has(b \o s, Hides(f))
  BY <1>8, Joined
<1>11. b \o s \o a \in Seq(EmuOps) /\ Leads(b \o s \o a, Disarms(f), Hides(f)) /\ Has(b \o s \o a, Hides(f))
  BY <1>8, <1>10, Joined
<1>12. b \o s \o a \o q \in Seq(EmuOps) /\ Leads(b \o s \o a \o q, Disarms(f), Hides(f)) /\ Has(b \o s \o a \o q, Hides(f))
  BY <1>8, <1>11, Joined
<1>13. Leads(b \o s \o a \o q \o r, Disarms(f), Hides(f)) /\ Has(b \o s \o a \o q \o r, Hides(f))
  BY <1>8, <1>12, Joined
<1> QED
  BY <1>9, <1>13

LEMMA EmuArmed ==
  ASSUME TypeOK, EmuFired, CoopAlone, frontend.cooperative, NEW f \in Armings, Due(f), Emulation
  PROVE  Due(f)'
<1> DEFINE ui == todo["ui"]
           emu == todo["emu"]
           h == Head(todo["emu"])
<1>0. TodoOK /\ StateOK /\ SyncOK /\ RunnerOK /\ ui \in Seq(UiOps) /\ emu \in Seq(EmuOps) /\ flag[f] \in BOOLEAN
  BY FlagTyped DEF TypeOK
<1>t. flag'[f] \in BOOLEAN
  <2>1. TypeOK'
    BY StepTyped DEF Next
  <2> QED
    BY <2>1 DEF TypeOK, FreezeTypeOK, Armings
<1>b. InBatch => Safe(ui, Shows(f), Arms(f), Disturbs(f), flag'[f])
  <2> SUFFICES ASSUME InBatch PROVE Safe(ui, Shows(f), Arms(f), Disturbs(f), flag'[f])
    OBVIOUS
  <2>1. ~Has(ui, UiOps \ (Pulls \union ViewOps))
    BY DEF CoopAlone
  <2>2. \A o \in Shows(f) : o \notin Pulls \union ViewOps
    BY DEF Shows, SetArmedOps, Pulls, ViewOps, Op
  <2>3. \A i \in 1..Len(ui) : ui[i] \in UiOps
    BY <1>0, ElementOfSeq
  <2>4. ~Has(ui, Shows(f))
    BY <2>1, <2>2, <2>3 DEF Has
  <2> QED
    BY <1>0, <1>t, <2>4, SafeParts
<1>e. emu # <<>> => thread = "fired" /\ InBatch
  BY DEF EmuFired, InBatch
<1>f. f = "pcArmed" \/ f = "scanArmed"
  BY DEF Armings
<1>1. CASE TakeJob \/ ExecuteJob \/ LoopTest \/ BatchEnds \/ LeaveLoop \/ BatchDone
  <2>1. UNCHANGED <<state, todo, flag, check>>
    BY <1>1 DEF TakeJob, ExecuteJob, LoopTest, BatchEnds, LeaveLoop, BatchDone, sessionVars, fcVars
  <2> QED
    BY <2>1 DEF Due, ShownArmed
<1>2. CASE FinishJob
  <2>0. UNCHANGED <<state, flag, check>>
    BY <1>2 DEF FinishJob, fcVars
  <2>1. CASE job.kind \in StepKinds
    <3>1. todo' = todo
      BY <1>2, <2>1 DEF FinishJob
    <3> QED
      BY <2>0, <3>1 DEF Due, ShownArmed
  <2>2. CASE job.kind \notin StepKinds
    <3>1. Awaiting
      BY <1>0, <1>2, <2>2 DEF FinishJob, RunnerOK, StepJobs, SyncOK, Executing
    <3>2. ui # <<>> /\ Head(ui) = Op("await")
      BY <1>0, <3>1, UiNext, UiHead DEF Awaiting, PlainNames
    <3>3. todo'["ui"] = Tail(ui) /\ todo'["emu"] = emu
      BY <1>0, <1>2, <2>2, <3>2, UiDone DEF FinishJob
    <3>4. Head(ui) \notin Hides(f) /\ Head(ui) \notin Arms(f) /\ Head(ui) \notin Disturbs(f)
      BY <3>2 DEF Hides, FreezeOps, SetFrozenOps, SetArmedOps, Arms, Disturbs, Disarms, EnteredOps, Store, Op
    <3>5. (Has(ui, Hides(f)) <=> Has(Tail(ui), Hides(f))) /\ Leads(Tail(ui), Disarms(f), Hides(f))
      BY <1>0, <3>2, <3>4, Begun DEF Due
    <3>6. Safe(Tail(ui), Shows(f), Arms(f), Disturbs(f), flag[f])
      <4>1. Safe(ui, Shows(f), Arms(f), Disturbs(f), flag[f])
        BY DEF Due
      <4> QED
        BY <1>0, <3>2, <3>4, <4>1, SafeRest
    <3> QED
      BY <2>0, <3>3, <3>5, <3>6 DEF Due, ShownArmed
  <2> QED
    BY <2>1, <2>2
<1>3. CASE Instruction
  <2>1. UNCHANGED <<state, todo, flag>> /\ check = "idle"
    BY <1>3 DEF Instruction, Step
  <2>2. check # Fires(f)
    BY <2>1 DEF Fires
  <2> QED
    BY <2>1, <2>2 DEF Due, ShownArmed
<1>4. CASE CheckFreeze
  <2>1. UNCHANGED <<state, todo>> /\ InBatch
    BY <1>4 DEF CheckFreeze, sessionVars, InBatch
  <2>2. ((flag[f] => flag'[f]) /\ check # Fires(f)) \/ check' = Fires(f)
    <3>0. flag \in [pcArmed : BOOLEAN, scanArmed : BOOLEAN, seenLoop : BOOLEAN, armPC : PC \union {NoPC}]
      BY DEF TypeOK, FreezeTypeOK
    <3>1. CASE TestPcArmed \/ TestScanArmed \/ TestLeftLoop
      BY <3>1 DEF TestPcArmed, TestScanArmed, TestLeftLoop, Fires
    <3>2. CASE ClearPcArmed
      BY <1>f, <3>0, <3>2 DEF ClearPcArmed, DoStore, Store, Fires
    <3>3. CASE MarkSeen
      BY <1>f, <3>0, <3>3 DEF MarkSeen, DoStore, Store, Fires
    <3>4. CASE DisarmFired
      <4>1. CASE check = "disarm1"
        <5>1. flag' = [flag EXCEPT !["seenLoop"] = FALSE]
          BY <3>4, <4>1 DEF DisarmFired, DoStore, DisarmScanLoopExit, Store
        <5> QED
          BY <1>f, <3>0, <4>1, <5>1 DEF Fires
      <4>2. CASE check = "disarm2"
        <5>1. flag' = [flag EXCEPT !["scanArmed"] = FALSE] /\ check' = "Cpu"
          BY <3>4, <4>2 DEF DisarmFired, DoStore, DisarmScanLoopExit, Store
        <5> QED
          BY <1>f, <3>0, <4>2, <5>1 DEF Fires
      <4> QED
        BY <3>4, <4>1, <4>2 DEF DisarmFired
    <3> QED
      BY <1>4, <3>1, <3>2, <3>3, <3>4 DEF CheckFreeze, CheckStep
  <2> QED
    BY <1>b, <2>1, <2>2 DEF Due, ShownArmed
<1>5. CASE FreezeFires
  <2> DEFINE q == OnFreezeFired(check)
  <2>1. q \in Seq(EmuOps) /\ Leads(q, Disarms(f), Hides(f)) /\ Has(q, Hides(f))
    BY <1>5, FiredTyped, FireHides DEF FreezeFires
  <2>2. UNCHANGED <<state, flag>> /\ todo' = [todo EXCEPT !["emu"] = q]
    BY <1>5 DEF FreezeFires
  <2> HIDE DEF q
  <2>3. todo'["emu"] = q /\ todo'["ui"] = todo["ui"]
    BY <1>0, <2>1, <2>2, EmuBegins
  <2> QED
    BY <2>1, <2>2, <2>3 DEF Due
<1>6. CASE MicroOp("emu")
  <2>d. emu # <<>> => /\ h \in EmuOps /\ Leads(Tail(emu), Disarms(f), Hides(f))
                      /\ Has(emu, Hides(f)) <=> h \in Hides(f) \/ Has(Tail(emu), Hides(f))
                      /\ h \in Disarms(f) => Has(Tail(emu), Hides(f))
    BY <1>0, HeadAndTail, Begun DEF Due
  <2>1. CASE StoreFlag("emu")
    <3>1. Done("emu") /\ UNCHANGED <<state, check>> /\ emu # <<>> /\ h.op = "store" /\ DoStore(h)
      BY <2>1 DEF StoreFlag, Next1
    <3>2. todo'["emu"] = Tail(emu) /\ todo'["ui"] = ui
      BY <1>0, <3>1, EmuDone
    <3>3. h \in DisarmOps /\ h \notin Hides(f)
      BY <2>d, <3>1, EmuHead, ShowNames
    <3>4. flag[f] /\ h \notin Disarms(f) => flag'[f]
      BY <3>1, <3>3, StoresFlag
    <3> QED
      BY <1>b, <1>e, <2>d, <3>1, <3>2, <3>3, <3>4 DEF Due, ShownArmed
  <2>2. CASE BeginNextStep("emu") \/ RefreshTraceFlags("emu") \/ Raise("emu")
    <3>1. Done("emu") /\ UNCHANGED <<state, flag, check>> /\ \E n \in {"beginNextStep", "applyTraceFlags", "debugStateChanged", "frozenView"} : Next1("emu", n)
      BY <2>2 DEF BeginNextStep, RefreshTraceFlags, Raise, fcVars
    <3>2. emu # <<>> /\ h \notin Hides(f)
      BY <3>1, ShowNames DEF Next1
    <3>3. todo'["emu"] = Tail(emu) /\ todo'["ui"] = ui
      BY <1>0, <3>1, <3>2, EmuDone
    <3> QED
      BY <2>d, <3>1, <3>2, <3>3 DEF Due, ShownArmed
  <2>3. CASE SetFrozenLocked("emu")
    <3> DEFINE g == state.generation + 1
    <3>0. "emu" \in Threads /\ "ui" \in Threads \ {"emu"}
      BY DEF Threads
    <3>1. /\ todo'["emu"] = Stamped(emu, g) /\ todo'["ui"] = ui /\ emu # <<>> /\ g \in Nat /\ h \in FreezeOps
          /\ state'.pcChangeArmed = (state.pcChangeArmed /\ ~h.frozen)
          /\ state'.scanLoopExitArmed = (state.scanLoopExitArmed /\ ~h.frozen)
      BY <1>0, <2>3, <3>0, Locked
    <3>2. flag' = flag /\ check' = check
      BY <2>3 DEF SetFrozenLocked, fcVars
    <3>3. ~ShownArmed(f)'
      <4>1. h.frozen
        BY <3>1 DEF FreezeOps
      <4> QED
        BY <3>1, <4>1 DEF ShownArmed
    <3>4. /\ Unstamped(EmuOps, Disarms(f), g) /\ Unstamped(EmuOps, Hides(f), g)
      BY DEF Unstamped, Stamp, Disarms, Hides, SetArmedOps, FreezeOps, SetFrozenOps, Store, PostStep, Op
    <3>5. \A o \in EmuOps : Stamp(o, g) \in EmuOps
      BY <3>1, StampTyped
    <3> HIDE DEF g
    <3>6. Leads(Stamped(emu, g), Disarms(f), Hides(f)) <=> Leads(Tail(emu), Disarms(f), Hides(f))
      BY <1>0, <3>1, <3>4, <3>5, StampedTail
    <3> QED
      BY <2>d, <3>1, <3>2, <3>3, <3>6 DEF Due
  <2> QED
    BY <1>0, <1>6, <2>1, <2>2, <2>3, EmuMicroOps
<1> QED
  BY <1>1, <1>2, <1>3, <1>4, <1>5, <1>6 DEF Emulation, EmulationThread

LEMMA ArmedInit == Init => ArmedDue
<1> SUFFICES ASSUME Init, NEW f \in Armings PROVE Due(f)
  BY DEF ArmedDue
<1>1. todo["ui"] = Start /\ todo["emu"] = <<>> /\ ~ShownArmed(f)
  BY DEF Init, Debug, ShownArmed
<1>2. Leads(<<>>, Disarms(f), Hides(f))
  BY DEF Leads
<1>3. flag[f] \in BOOLEAN
  BY InitTyped, FlagTyped
<1>4. Leads(Start, Disarms(f), Hides(f)) /\ Safe(Start, Shows(f), Arms(f), Disturbs(f), flag[f])
  BY <1>3, HonestProgram, HonestBegins
<1> QED
  BY <1>1, <1>2, <1>4 DEF Due

LEMMA ArmedStep == TypeOK /\ KeptAlive /\ InOrder /\ ArmedDue /\ [Next]_vars => ArmedDue'
<1>1. ASSUME TypeOK, KeptAlive, InOrder, ArmedDue, Next PROVE ArmedDue'
  <2>1. frontend' = frontend
    BY <1>1, UiLeaves, EmuMoves DEF Next, Call, InOrder
  <2> SUFFICES ASSUME frontend.cooperative, NEW f \in Armings PROVE Due(f)'
    BY <2>1 DEF ArmedDue
  <2>2. Due(f)
    BY <1>1 DEF ArmedDue
  <2>3. ASSUME NEW c \in frontend.calls, Call(c) PROVE Due(f)'
    <3>1. /\ c \in Operations /\ todo["ui"] = <<>> /\ todo'["ui"] = Program(c) /\ todo'["emu"] = todo["emu"]
          /\ UNCHANGED <<fcVars, state>>
      BY <1>1, <2>3, CallBegins
    <3>2. Leads(Program(c), Disarms(f), Hides(f)) /\ Safe(Program(c), Shows(f), Arms(f), Disturbs(f), flag[f])
      BY <1>1, <3>1, FlagTyped, HonestProgram, HonestBegins
    <3>3. ~Has(<<>>, Hides(f))
      BY DEF Has
    <3> QED
      BY <2>2, <3>1, <3>2, <3>3 DEF Due, ShownArmed, fcVars
  <2> QED
    BY <1>1, <2>2, <2>3, UiArmed, EmuArmed DEF Next, InOrder
<1>2. ASSUME ArmedDue, UNCHANGED vars PROVE ArmedDue'
  <2>1. UNCHANGED <<flag, check, state, todo, frontend>>
    BY <1>2 DEF vars, fcVars, emuVars, sessionVars, controllerVars
  <2> QED
    BY <1>2, <2>1 DEF ArmedDue, Due, ShownArmed
<1> QED
  BY <1>1, <1>2

(* Cooperative mode: whenever nothing is under way, a freeze the panels     *)
(* show as armed is armed in the FreezeController, for any operations and   *)
(* any number of them.                                                      *)
THEOREM ArmedIsArmed == Spec => []ArmedAsShown
<1>1. ArmedDue => ArmedAsShown
  <2> SUFFICES ASSUME ArmedDue, frontend.cooperative, Settled, check = "idle"
               PROVE  (state.pcChangeArmed => flag.pcArmed) /\ (state.scanLoopExitArmed => flag.scanArmed)
    BY DEF ArmedAsShown
  <2>1. ASSUME NEW f \in Armings PROVE ShownArmed(f) => flag[f]
    <3>1. ~Has(todo["ui"], Hides(f)) /\ ~Has(todo["emu"], Hides(f))
      BY DEF Settled, UiIdle, Has
    <3> QED
      BY <3>1 DEF ArmedDue, Due, Fires
  <2>2. "pcArmed" \in Armings /\ "scanArmed" \in Armings
    BY DEF Armings
  <2> QED
    BY <2>1, <2>2 DEF ShownArmed
<1> QED
  BY <1>1, ArmedInit, ArmedStep, OrderInit, OrderStep, AliveInit, AliveStep, MirrorStep, TypeCorrect, PTL DEF Spec

-----------------------------------------------------------------------------
(* A frozen machine at rest is the one shown.                                *)

(* Where FREEZE, RESUME and STEP are all that is called, what the UI thread *)
(* has still to do is the rest of one of their programs, or of an event's.  *)
View(n) == [op |-> "onFrozenView", gen |-> n]
Freezing ==
  LET a == Store("pcArmed", FALSE)
      b == Store("seenLoop", FALSE)
      c == Store("scanArmed", FALSE)
      s == SetFrozen(TRUE, "Calculator")
      t == Op("applyTraceFlags")
      f == Op("postFreeze")
      p == Op("pull")
  IN  {<<Op("stop"), a, b, c, s, t, f, p>>, <<a, b, c, s, t, f, p>>, <<b, c, s, t, f, p>>, <<c, s, t, f, p>>, <<s, t, f, p>>}
Resuming == {<<SetFrozen(FALSE, "none"), Op("applyTraceFlags"), Op("start"), Op("pull")>>}
Resumed == {<<Op("applyTraceFlags"), Op("start"), Op("pull")>>, <<Op("start"), Op("pull")>>, <<Op("postLoop"), Op("pull")>>,
            <<Op("start")>>, <<Op("postLoop")>>}
Posting(g) == {<<PostStep(k, g)>> : k \in StepKinds}
              \union {<<Op("applyTraceFlags"), PostStep("freeze", g), Op("pull")>>, <<PostStep("freeze", g), Op("pull")>>}
Resting == {<<>>, <<Op("pull")>>, <<Op("stepKeycode")>>, <<Op("stepInstruction")>>}
Viewing == {<<Op("pull"), View(n)>> : n \in Nat}
Viewed == {<<View(n)>> : n \in Nat}

(* A job is posted in the generation it is for, a resumed machine is not    *)
(* frozen, a view is looked at with the panels up to date.                  *)
InDate ==
  DebuggerOnly =>
    \/ todo["ui"] \in Resting \union Freezing \union Resuming \union Posting(state.generation) \union Viewing
    \/ todo["ui"] \in Resumed /\ ~state.frozen
    \/ todo["ui"] \in Viewed /\ mirror = state

(* The view of the present freeze is on its way: its job is to be posted,   *)
(* the last step job in the queue or being executed; or no job and no loop  *)
(* will move the machine any more, and the view is an event, in the UI      *)
(* thread's hand or on screen.                                              *)
Looking(g) == {<<Op("pull"), View(g)>>, <<View(g)>>}
JobsOf(g) == {j \in StepJobs : j.gen = g}
Standing == ~Has(jobs, StepJobs) /\ thread \notin {"batch", "job", "posted"}
InView(g) ==
  \/ Has(events, {[op |-> "frozenView", gen |-> g]})
  \/ todo["ui"] \in Looking(g)
  \/ shown = [generation |-> g, current |-> TRUE]
ViewDue ==
  DebuggerOnly /\ state.frozen =>
    \/ todo["ui"] \in Posting(state.generation)
    \/ After(jobs, JobsOf(state.generation), StepJobs)
    \/ ~Has(jobs, StepJobs) /\ Executing /\ job \in JobsOf(state.generation)
    \/ Standing /\ InView(state.generation)

-----------------------------------------------------------------------------
(* The programs, spelled out.                                               *)

(* p, then q, is r. *)
LEMMA Spelled ==
  ASSUME NEW S, NEW p \in Seq(S), NEW q \in Seq(S), NEW r \in Seq(S), Len(r) = Len(p) + Len(q),
         \A i \in 1..Len(p) : r[i] = p[i], \A i \in 1..Len(q) : r[i + Len(p)] = q[i]
  PROVE  p \o q = r
<1>1. p \o q \in Seq(S) /\ Len(p \o q) = Len(r) /\ Len(p) \in Nat /\ Len(q) \in Nat
      /\ \A i \in 1..Len(r) : (p \o q)[i] = IF i <= Len(p) THEN p[i] ELSE q[i - Len(p)]
  BY ConcatProperties
<1>2. ASSUME NEW i \in 1..Len(r) PROVE (p \o q)[i] = r[i]
  <2>1. CASE i <= Len(p)
    BY <1>1, <2>1
  <2>2. CASE ~(i <= Len(p))
    <3>1. i - Len(p) \in 1..Len(q) /\ (i - Len(p)) + Len(p) = i
      BY <1>1, <2>2
    <3> QED
      BY <1>1, <2>2, <3>1
  <2> QED
    BY <2>1, <2>2
<1> QED
  BY <1>1, <1>2, SeqEqual

(* p, then one more step, is r. *)
LEMMA SpelledOn ==
  ASSUME NEW S, NEW p \in Seq(S), NEW x \in S, NEW r \in Seq(S), Len(r) = Len(p) + 1,
         \A i \in 1..Len(p) : r[i] = p[i], r[Len(p) + 1] = x
  PROVE  p \o <<x>> = r
<1> DEFINE q == <<x>>
<1>1. q \in Seq(S) /\ Len(q) = 1 /\ q[1] = x
  OBVIOUS
<1> HIDE DEF q
<1>2. /\ Len(r) = Len(p) + Len(q) /\ (\A i \in 1..Len(p) : r[i] = p[i])
      /\ \A i \in 1..Len(q) : r[i + Len(p)] = q[i]
  <2>1. Len(p) \in Nat
    OBVIOUS
  <2>2. \A i \in 1..1 : i = 1 /\ i + Len(p) = Len(p) + 1
    BY <2>1
  <2> QED
    BY <1>1, <2>2
<1>3. p \o q = r
  BY <1>1, <1>2, Spelled
<1> QED
  BY <1>3 DEF q

(* The programs of FREEZE and RESUME, spelled out. *)
LEMMA FreezeSpelled == Program("freeze") \in Freezing /\ Program("resume") \in Resuming
<1> DEFINE a == Store("pcArmed", FALSE)
           b == Store("seenLoop", FALSE)
           c == Store("scanArmed", FALSE)
           s == SetFrozen(TRUE, "Calculator")
           t == Op("applyTraceFlags")
           f == Op("postFreeze")
           z == Op("stop")
           l == Op("pull")
           p1 == <<z>>
           p3 == <<a, b, c>>
           p4 == <<a, b, c, s>>
           p5 == <<a, b, c, s, t>>
           p6 == <<z, a, b, c, s, t>>
           p7 == <<z, a, b, c, s, t, f>>
           p8 == <<z, a, b, c, s, t, f, l>>
           u == SetFrozen(FALSE, "none")
           x == Op("start")
           r0 == <<>>
           r1 == <<u>>
           r2 == <<u, t>>
           r3 == <<u, t, x>>
           r4 == <<u, t, x, l>>
<1>0. /\ a \in UiOps /\ b \in UiOps /\ c \in UiOps /\ s \in UiOps /\ u \in UiOps
      /\ t \in UiOps /\ f \in UiOps /\ z \in UiOps /\ x \in UiOps /\ l \in UiOps
  BY UiAtoms DEF PlainNames, Owners
<1>1. /\ Program("freeze") = Freeze("Calculator") \o <<l>> /\ Freeze("Calculator") = p1 \o SetFrozenState(TRUE, "Calculator") \o <<f>>
      /\ SetFrozenState(TRUE, "Calculator") = p3 \o <<s>> \o <<t>>
  BY DEF Program, Freeze, Stop, SetFrozenState, DisarmBoth, Pull, ApplyTraceFlags
<1>2. /\ Program("resume") = Resume \o <<l>> /\ Resume = SetFrozenState(FALSE, "none") \o <<x>>
      /\ SetFrozenState(FALSE, "none") = r0 \o <<u>> \o <<t>>
  BY DEF Program, Resume, Start, SetFrozenState, Pull, ApplyTraceFlags
<1>3. p8 \in Freezing /\ r4 \in Resuming
  BY DEF Freezing, Resuming
<1> HIDE DEF a, b, c, s, u, t, f, z, x, l
<1>4. /\ p1 \in Seq(UiOps) /\ p3 \in Seq(UiOps) /\ p4 \in Seq(UiOps) /\ p5 \in Seq(UiOps) /\ p6 \in Seq(UiOps)
      /\ p7 \in Seq(UiOps) /\ p8 \in Seq(UiOps)
  BY <1>0
<1>5. /\ Len(p4) = Len(p3) + 1 /\ (\A i \in 1..Len(p3) : p4[i] = p3[i]) /\ p4[Len(p3) + 1] = s
      /\ Len(p5) = Len(p4) + 1 /\ (\A i \in 1..Len(p4) : p5[i] = p4[i]) /\ p5[Len(p4) + 1] = t
      /\ Len(p6) = Len(p1) + Len(p5) /\ (\A i \in 1..Len(p1) : p6[i] = p1[i]) /\ (\A i \in 1..Len(p5) : p6[i + Len(p1)] = p5[i])
      /\ Len(p7) = Len(p6) + 1 /\ (\A i \in 1..Len(p6) : p7[i] = p6[i]) /\ p7[Len(p6) + 1] = f
      /\ Len(p8) = Len(p7) + 1 /\ (\A i \in 1..Len(p7) : p8[i] = p7[i]) /\ p8[Len(p7) + 1] = l
  OBVIOUS
<1>6. /\ r0 \in Seq(UiOps) /\ r1 \in Seq(UiOps) /\ r2 \in Seq(UiOps) /\ r3 \in Seq(UiOps) /\ r4 \in Seq(UiOps)
  BY <1>0
<1>7. /\ Len(r1) = Len(r0) + 1 /\ (\A i \in 1..Len(r0) : r1[i] = r0[i]) /\ r1[Len(r0) + 1] = u
      /\ Len(r2) = Len(r1) + 1 /\ (\A i \in 1..Len(r1) : r2[i] = r1[i]) /\ r2[Len(r1) + 1] = t
      /\ Len(r3) = Len(r2) + 1 /\ (\A i \in 1..Len(r2) : r3[i] = r2[i]) /\ r3[Len(r2) + 1] = x
      /\ Len(r4) = Len(r3) + 1 /\ (\A i \in 1..Len(r3) : r4[i] = r3[i]) /\ r4[Len(r3) + 1] = l
  OBVIOUS
<1> HIDE DEF p1, p3, p4, p5, p6, p7, p8, r0, r1, r2, r3, r4
<1>8. Program("freeze") = p8
  <2>1. p3 \o <<s>> = p4
    BY <1>0, <1>4, <1>5, SpelledOn
  <2>2. p4 \o <<t>> = p5
    BY <1>0, <1>4, <1>5, SpelledOn
  <2>3. p1 \o p5 = p6
    BY <1>4, <1>5, Spelled
  <2>4. p6 \o <<f>> = p7
    BY <1>0, <1>4, <1>5, SpelledOn
  <2>5. p7 \o <<l>> = p8
    BY <1>0, <1>4, <1>5, SpelledOn
  <2> QED
    BY <1>1, <2>1, <2>2, <2>3, <2>4, <2>5, Zenon
<1>9. Program("resume") = r4
  <2>1. r0 \o <<u>> = r1
    BY <1>0, <1>6, <1>7, SpelledOn
  <2>2. r1 \o <<t>> = r2
    BY <1>0, <1>6, <1>7, SpelledOn
  <2>3. r2 \o <<x>> = r3
    BY <1>0, <1>6, <1>7, SpelledOn
  <2>4. r3 \o <<l>> = r4
    BY <1>0, <1>6, <1>7, SpelledOn
  <2> QED
    BY <1>2, <2>1, <2>2, <2>3, <2>4, Zenon
<1> QED
  BY <1>3, <1>8, <1>9

(* The critical section stamps the job that follows it. *)
LEMMA FreezeStamped ==
  ASSUME NEW n \in Nat
  PROVE  /\ \A p \in Freezing : Head(p).op = "setFrozen" => Head(p).frozen /\ Stamped(p, n) \in Posting(n)
         /\ \A p \in Resuming : Head(p).op = "setFrozen" /\ ~Head(p).frozen /\ Stamped(p, n) \in Resumed
<1> DEFINE t == Op("applyTraceFlags")
           f == Op("postFreeze")
           j == PostStep("freeze", n)
           x == Op("start")
           l == Op("pull")
<1>1. /\ Stamp(t, n) = t /\ Stamp(f, n) = j /\ Stamp(l, n) = l /\ Stamp(x, n) = x
      /\ t \in UiOps /\ f \in UiOps /\ j \in UiOps /\ x \in UiOps /\ l \in UiOps
  BY UiAtoms DEF Stamp, Op, PlainNames, StepKinds
<1>2. <<t, j, l>> \in Posting(n) /\ <<t, x, l>> \in Resumed
  BY DEF Posting, Resumed
<1> HIDE DEF t, f, j, x, l
<1>3. ASSUME NEW h \in UiOps, NEW y \in UiOps, NEW w \in UiOps, Stamp(y, n) = w
      PROVE  Stamped(<<h, t, y, l>>, n) = <<t, w, l>>
  <2> DEFINE p == <<h, t, y, l>>
             q == <<t, w, l>>
  <2>1. /\ p \in Seq(UiOps) /\ p # <<>> /\ q \in Seq(UiOps) /\ Tail(p) = <<t, y, l>> /\ Len(q) = 3
        /\ q[1] = t /\ q[2] = w /\ q[3] = l
    BY <1>1
  <2>2. Len(Tail(p)) = 3 /\ Tail(p)[1] = t /\ Tail(p)[2] = y /\ Tail(p)[3] = l
    BY <2>1
  <2> HIDE DEF p, q
  <2>3. \A o \in UiOps : Stamp(o, n) \in UiOps
    BY StampTyped
  <2>4. Stamped(p, n) \in Seq(UiOps)
    BY <2>1, <2>3, StampedSeq
  <2>5. /\ Len(Stamped(p, n)) = Len(Tail(p))
        /\ \A i \in 1..Len(Tail(p)) : Stamped(p, n)[i] = Stamp(Tail(p)[i], n)
    BY <2>1, <2>3, StampedLen
  <2>6. Len(Stamped(p, n)) = 3 /\ Stamped(p, n)[1] = t /\ Stamped(p, n)[2] = w /\ Stamped(p, n)[3] = l
    BY <1>1, <1>3, <2>2, <2>5
  <2>7. \A i \in 1..Len(q) : Stamped(p, n)[i] = q[i]
    BY <2>1, <2>6
  <2>8. Stamped(p, n) = q
    BY <2>1, <2>4, <2>6, <2>7, SeqEqual
  <2> QED
    BY <2>8 DEF p, q
<1>4. SetFrozen(TRUE, "Calculator") \in UiOps /\ SetFrozen(FALSE, "none") \in UiOps
  BY UiAtoms DEF Owners
<1>5. /\ Stamped(<<SetFrozen(TRUE, "Calculator"), t, f, l>>, n) \in Posting(n)
      /\ Stamped(<<SetFrozen(FALSE, "none"), t, x, l>>, n) \in Resumed
  BY <1>1, <1>2, <1>3, <1>4
<1>6. ASSUME NEW p \in Freezing, Head(p).op = "setFrozen"
      PROVE  Head(p).frozen /\ Stamped(p, n) \in Posting(n)
  <2>1. (\A y, v : Store(y, v).op = "store") /\ Op("stop").op = "stop"
    BY DEF Store, Op
  <2> DEFINE s == SetFrozen(TRUE, "Calculator")
             a == Store("pcArmed", FALSE)
             b == Store("seenLoop", FALSE)
             c == Store("scanArmed", FALSE)
             p8 == <<Op("stop"), a, b, c, s, t, f, l>>
             p7 == <<a, b, c, s, t, f, l>>
             p6 == <<b, c, s, t, f, l>>
             p5 == <<c, s, t, f, l>>
             p4 == <<s, t, f, l>>
  <2>3. p \in {p8, p7, p6, p5, p4}
    BY DEF Freezing, t, f, l
  <2>4. Head(p8) = Op("stop") /\ Head(p7) = a /\ Head(p6) = b /\ Head(p5) = c
    OBVIOUS
  <2> HIDE DEF p8, p7, p6, p5, p4
  <2>5. p = p4
    BY <1>6, <2>1, <2>3, <2>4
  <2>6. p = <<SetFrozen(TRUE, "Calculator"), t, f, l>>
    BY <2>5 DEF p4
  <2>7. Head(p) = SetFrozen(TRUE, "Calculator")
    BY <2>6
  <2> QED
    BY <1>5, <2>6, <2>7 DEF SetFrozen
<1>7. ASSUME NEW p \in Resuming
      PROVE  Head(p).op = "setFrozen" /\ ~Head(p).frozen /\ Stamped(p, n) \in Resumed
  <2>1. p = <<SetFrozen(FALSE, "none"), t, x, l>>
    BY DEF Resuming, t, x, l
  <2>2. Head(p) = SetFrozen(FALSE, "none")
    BY <2>1
  <2> QED
    BY <1>5, <2>1, <2>2 DEF SetFrozen
<1> QED
  BY <1>6, <1>7

(* The first step of each, and what it leaves. *)
LEMMA LineSteps ==
  ASSUME NEW g \in Nat
  PROVE  /\ \A p \in Freezing : /\ p # <<>>
                               /\ \/ Head(p).op \in {"stop", "store"} /\ Tail(p) \in Freezing
                                  \/ Head(p).op = "setFrozen"
         /\ \A p \in Resuming : p # <<>>
         /\ \A p \in Resumed : /\ p # <<>>
                              /\ \/ Head(p).op = "applyTraceFlags" /\ Tail(p) \in Resumed
                                 \/ Head(p).op = "start" /\ Tail(p) \in Resting /\ <<Op("postLoop")>> \o Tail(p) \in Resumed
                                 \/ Head(p).op = "postLoop" /\ Tail(p) \in Resting
         /\ \A p \in Posting(g) : /\ p # <<>>
                                 /\ \/ Head(p).op = "applyTraceFlags" /\ Tail(p) \in Posting(g)
                                    \/ Head(p).op = "post" /\ Head(p).job \in JobsOf(g) /\ Tail(p) \in Resting
         /\ \A p \in Resting : p # <<>> => Head(p).op \in {"pull", "stepKeycode", "stepInstruction"} /\ Tail(p) = <<>>
         /\ \A n : LET p == <<Op("pull"), View(n)>> IN p # <<>> /\ Head(p).op = "pull" /\ Tail(p) = <<View(n)>>
         /\ \A n : LET p == <<View(n)>> IN p # <<>> /\ Head(p).op = "onFrozenView" /\ Head(p).gen = n /\ Tail(p) = <<>>
<1>o. (\A n : Op(n).op = n) /\ (\A y, v : Store(y, v).op = "store") /\ (\A v, w : SetFrozen(v, w).op = "setFrozen")
      /\ (\A n : View(n).op = "onFrozenView" /\ View(n).gen = n)
      /\ (\A k, n : PostStep(k, n).op = "post" /\ PostStep(k, n).job = Job(k, n))
  BY DEF Op, Store, SetFrozen, View, PostStep
<1>1. ASSUME NEW p \in Freezing
      PROVE  p # <<>> /\ ((Head(p).op \in {"stop", "store"} /\ Tail(p) \in Freezing) \/ Head(p).op = "setFrozen")
  <2> DEFINE a == Store("pcArmed", FALSE)
             b == Store("seenLoop", FALSE)
             c == Store("scanArmed", FALSE)
             s == SetFrozen(TRUE, "Calculator")
             t == Op("applyTraceFlags")
             f == Op("postFreeze")
             z == Op("stop")
             l == Op("pull")
             p8 == <<z, a, b, c, s, t, f, l>>
             p7 == <<a, b, c, s, t, f, l>>
             p6 == <<b, c, s, t, f, l>>
             p5 == <<c, s, t, f, l>>
             p4 == <<s, t, f, l>>
  <2>1. p \in {p8, p7, p6, p5, p4} /\ p7 \in Freezing /\ p6 \in Freezing /\ p5 \in Freezing /\ p4 \in Freezing
    BY DEF Freezing
  <2>2. a.op = "store" /\ b.op = "store" /\ c.op = "store" /\ s.op = "setFrozen" /\ z.op = "stop"
    BY <1>o
  <2> HIDE DEF a, b, c, s, t, f, z, l
  <2>3. /\ Tail(p8) = p7 /\ Tail(p7) = p6 /\ Tail(p6) = p5 /\ Tail(p5) = p4
        /\ Head(p8) = z /\ Head(p7) = a /\ Head(p6) = b /\ Head(p5) = c /\ Head(p4) = s
        /\ p8 # <<>> /\ p7 # <<>> /\ p6 # <<>> /\ p5 # <<>> /\ p4 # <<>>
    OBVIOUS
  <2> HIDE DEF p8, p7, p6, p5, p4
  <2> QED
    BY <2>1, <2>2, <2>3
<1>2. ASSUME NEW p \in Resumed
      PROVE  /\ p # <<>>
             /\ \/ Head(p).op = "applyTraceFlags" /\ Tail(p) \in Resumed
                \/ Head(p).op = "start" /\ Tail(p) \in Resting /\ <<Op("postLoop")>> \o Tail(p) \in Resumed
                \/ Head(p).op = "postLoop" /\ Tail(p) \in Resting
  <2> DEFINE t == Op("applyTraceFlags")
             x == Op("start")
             y == Op("postLoop")
             l == Op("pull")
             p5 == <<t, x, l>>
             p4 == <<x, l>>
             p3 == <<y, l>>
             p2 == <<x>>
             p1 == <<y>>
             q1 == <<l>>
             q0 == <<>>
  <2>1. /\ p \in {p5, p4, p3, p2, p1} /\ p4 \in Resumed /\ p3 \in Resumed /\ p1 \in Resumed
        /\ q1 \in Resting /\ q0 \in Resting
    BY DEF Resumed, Resting
  <2>2. t.op = "applyTraceFlags" /\ x.op = "start" /\ y.op = "postLoop" /\ y \in UiOps /\ l \in UiOps
    BY <1>o, UiAtoms DEF PlainNames
  <2> HIDE DEF t, x, y, l
  <2>3. /\ Tail(p5) = p4 /\ Tail(p4) = q1 /\ Tail(p3) = q1 /\ Tail(p2) = q0 /\ Tail(p1) = q0
        /\ Head(p5) = t /\ Head(p4) = x /\ Head(p3) = y /\ Head(p2) = x /\ Head(p1) = y
        /\ p5 # <<>> /\ p4 # <<>> /\ p3 # <<>> /\ p2 # <<>> /\ p1 # <<>>
    OBVIOUS
  <2>4. /\ p1 \in Seq(UiOps) /\ q0 \in Seq(UiOps) /\ p3 \in Seq(UiOps) /\ Len(p3) = Len(p1) + 1
        /\ (\A i \in 1..Len(p1) : p3[i] = p1[i]) /\ p3[Len(p1) + 1] = l
    BY <2>2
  <2> HIDE DEF p5, p4, p3, p2, p1
  <2>5. p1 \o <<l>> = p3
    BY <2>2, <2>4, SpelledOn
  <2>6. p1 \o q0 = p1
    BY <2>4, ConcatEmptySeq
  <2>7. p1 \o q1 = p3
    BY <2>5
  <2> HIDE DEF q1, q0
  <2>8. /\ p # <<>>
        /\ \/ Head(p).op = "applyTraceFlags" /\ Tail(p) \in Resumed
           \/ Head(p).op = "start" /\ Tail(p) \in Resting /\ p1 \o Tail(p) \in Resumed
           \/ Head(p).op = "postLoop" /\ Tail(p) \in Resting
    BY <2>1, <2>2, <2>3, <2>6, <2>7
  <2> QED
    BY <2>8 DEF p1, y
<1>3. ASSUME NEW p \in Posting(g)
      PROVE  /\ p # <<>>
             /\ \/ Head(p).op = "applyTraceFlags" /\ Tail(p) \in Posting(g)
                \/ Head(p).op = "post" /\ Head(p).job \in JobsOf(g) /\ Tail(p) \in Resting
  <2>1. \A k \in StepKinds : Job(k, g) \in JobsOf(g) /\ "freeze" \in StepKinds
    BY DEF Job, JobsOf, StepJobs, Jobs, StepKinds
  <2>2. ASSUME NEW k \in StepKinds, p = <<PostStep(k, g)>>
        PROVE  p # <<>> /\ Head(p).op = "post" /\ Head(p).job \in JobsOf(g) /\ Tail(p) \in Resting
    <3> DEFINE j == PostStep(k, g)
    <3>1. Head(p) = j /\ p # <<>> /\ Tail(p) = <<>> /\ <<>> \in Resting
      BY <2>2 DEF Resting
    <3>2. j.op = "post" /\ j.job \in JobsOf(g)
      BY <1>o, <2>1
    <3> HIDE DEF j
    <3> QED
      BY <3>1, <3>2, Zenon
  <2> DEFINE j == PostStep("freeze", g)
             t == Op("applyTraceFlags")
             l == Op("pull")
             p3 == <<t, j, l>>
             p2 == <<j, l>>
             q1 == <<l>>
  <2>3. /\ p \in {p3, p2} \/ (\E k \in StepKinds : p = <<PostStep(k, g)>>)
        /\ p2 \in Posting(g) /\ q1 \in Resting
    BY DEF Posting, Resting
  <2>4. t.op = "applyTraceFlags" /\ j.op = "post" /\ j.job \in JobsOf(g)
    BY <1>o, <2>1 DEF StepKinds
  <2> HIDE DEF j, t, l
  <2>5. Head(p3) = t /\ Tail(p3) = p2 /\ p3 # <<>> /\ Head(p2) = j /\ Tail(p2) = q1 /\ p2 # <<>>
    OBVIOUS
  <2> HIDE DEF p3, p2, q1
  <2>6. CASE p \in {p3, p2}
    BY <2>3, <2>4, <2>5, <2>6
  <2> QED
    BY <2>2, <2>3, <2>6
<1>4. ASSUME NEW p \in Resting, p # <<>>
      PROVE  Head(p).op \in {"pull", "stepKeycode", "stepInstruction"} /\ Tail(p) = <<>>
  <2>1. PICK o \in {Op("pull"), Op("stepKeycode"), Op("stepInstruction")} : p = <<o>>
    BY <1>4 DEF Resting
  <2>2. Head(p) = o /\ Tail(p) = <<>>
    BY <2>1
  <2> QED
    BY <1>o, <2>2
<1>5. \A n : LET p == <<Op("pull"), View(n)>> IN p # <<>> /\ Head(p).op = "pull" /\ Tail(p) = <<View(n)>>
  BY <1>o
<1>6. \A n : LET p == <<View(n)>> IN p # <<>> /\ Head(p).op = "onFrozenView" /\ Head(p).gen = n /\ Tail(p) = <<>>
  BY <1>o
<1>7. \A p \in Resuming : p # <<>>
  BY DEF Resuming
<1> QED
  BY <1>1, <1>2, <1>3, <1>4, <1>5, <1>6, <1>7

-----------------------------------------------------------------------------
(* The steps of the two threads.                                            *)

(* The last B of a queue: as it is posted, and as it is taken. *)
LEMMA AfterQueue ==
  ASSUME NEW S, NEW p \in Seq(S), NEW B, NEW C
  PROVE  /\ ~After(<<>>, B, C)
         /\ \A e \in S : e \in B => After(Append(p, e), B, C)
         /\ p # <<>> /\ After(p, B, C) => After(Tail(p), B, C) \/ (Head(p) \in B /\ ~Has(Tail(p), C))
<1>1. ~After(<<>>, B, C)
  BY DEF After
<1>2. ASSUME NEW e \in S, e \in B PROVE After(Append(p, e), B, C)
  <2>1. Len(Append(p, e)) = Len(p) + 1 /\ Append(p, e)[Len(p) + 1] = e /\ Len(p) \in Nat
    BY AppendProperties
  <2>2. Len(p) + 1 \in 1..Len(Append(p, e)) /\ \A k \in (Len(p) + 1 + 1)..Len(Append(p, e)) : FALSE
    BY <2>1
  <2> QED
    BY <1>2, <2>1, <2>2 DEF After
<1>3. ASSUME p # <<>>, After(p, B, C) PROVE After(Tail(p), B, C) \/ (Head(p) \in B /\ ~Has(Tail(p), C))
  <2>1. /\ Len(Tail(p)) = Len(p) - 1 /\ Len(p) \in Nat \ {0} /\ Head(p) = p[1]
        /\ \A i \in 1..Len(Tail(p)) : Tail(p)[i] = p[i + 1]
    BY <1>3, HeadTailProperties, EmptySeq
  <2>2. PICK j \in 1..Len(p) : p[j] \in B /\ \A k \in (j + 1)..Len(p) : p[k] \notin C
    BY <1>3 DEF After
  <2>3. CASE j = 1
    <3>1. \A i \in 1..Len(Tail(p)) : i + 1 \in (j + 1)..Len(p)
      BY <2>1, <2>3
    <3>2. \A i \in 1..Len(Tail(p)) : Tail(p)[i] \notin C
      BY <2>1, <2>2, <3>1
    <3> QED
      BY <2>1, <2>2, <2>3, <3>2 DEF Has
  <2>4. CASE j # 1
    <3>1. j - 1 \in 1..Len(Tail(p)) /\ (j - 1) + 1 = j
      BY <2>1, <2>4
    <3>2. Tail(p)[j - 1] \in B
      BY <2>1, <2>2, <3>1
    <3>3. \A k \in ((j - 1) + 1)..Len(Tail(p)) : k \in 1..Len(Tail(p)) /\ k + 1 \in (j + 1)..Len(p)
      BY <2>1, <3>1
    <3>4. \A k \in ((j - 1) + 1)..Len(Tail(p)) : Tail(p)[k] \notin C
      BY <2>1, <2>2, <3>3
    <3> QED
      BY <3>1, <3>2, <3>4 DEF After
  <2> QED
    BY <2>3, <2>4
<1> QED
  BY <1>1, <1>2, <1>3

(* The step of each of the debugger's operations. *)
LEMMA DebuggerMoves ==
  ASSUME TodoOK, UiThread, todo["ui"] # <<>>
  PROVE  LET h == Head(todo["ui"])
             same == UNCHANGED <<thread, job, jobs, state, mirror, events, shown>>
         IN  /\ h.op \in {"stop", "store", "applyTraceFlags"} => Done("ui") /\ same
             /\ h.op = "setFrozen" => SetFrozenLocked("ui") /\ UNCHANGED <<thread, job, jobs, mirror, events, shown>>
             /\ h.op = "start" => same /\ (Replace("ui", <<>>) \/ Replace("ui", <<Op("postLoop")>>))
             /\ h.op \in {"postLoop", "pull"} => Done("ui") /\ state' = state
             /\ h.op = "pull" => mirror' = state /\ UNCHANGED <<thread, job, jobs, state, events, shown>>
             /\ h.op = "post" => Done("ui") /\ jobs' = Append(jobs, h.job) /\ state' = state
             /\ \A k \in {"stepKeycode", "stepInstruction"} :
                  h.op = k => same /\ Replace("ui", IF state.frozen THEN <<PostStep(k, state.generation)>> ELSE <<>>)
             /\ h.op = "onFrozenView" => OnFrozenView
<1> DEFINE h == Head(todo["ui"])
<1>1. \/ h.op = "store" /\ StoreFlag("ui") /\ mirror' = mirror
      \/ h.op = "setFrozen" /\ SetFrozenLocked("ui") /\ mirror' = mirror
      \/ h.op = "applyTraceFlags" /\ RefreshTraceFlags("ui") /\ mirror' = mirror
      \/ h.op = "stop" /\ StopLoop("ui") /\ mirror' = mirror
      \/ h.op = "start" /\ StartLoop("ui") /\ mirror' = mirror
      \/ h.op = "postLoop" /\ PostLoop("ui")
      \/ h.op = "post" /\ PostJob("ui")
      \/ h.op = "stepKeycode" /\ PostStepIfFrozen("ui", "stepKeycode") /\ mirror' = mirror
      \/ h.op = "stepInstruction" /\ PostStepIfFrozen("ui", "stepInstruction") /\ mirror' = mirror
      \/ h.op = "pull" /\ PullDebugState
      \/ h.op = "onFrozenView" /\ OnFrozenView
      \/ h.op \notin {"store", "setFrozen", "applyTraceFlags", "stop", "start", "postLoop", "post", "stepKeycode",
                      "stepInstruction", "pull", "onFrozenView"}
  <2>1. CASE SessionOp
    <3>1. MicroOp("ui") /\ mirror' = mirror
      BY <2>1 DEF SessionOp
    <3> QED
      BY <3>1 DEF MicroOp, StoreFlag, SetFrozenLocked, SetArmedLocked, RefreshTraceFlags, ReadPc, StopLoop, StartLoop,
         PostLoop, PostJob, PostSync, PostStepIfFrozen, BeginNextStep, Raise, Next1
  <2>2. CASE ControllerOp
    BY <2>2 DEF ControllerOp, PullDebugState, CleanReset, ReadFrozen, ReadArmed, Entered, StartUnlessShownFrozen, ReadRunning,
       StartIfSuspendedRunning, TakeEvent, OnFrozenView, BuildView, Next1
  <2> QED
    BY <2>1, <2>2 DEF UiThread
<1>2. ASSUME h.op \in {"stop", "store", "applyTraceFlags"}
      PROVE  Done("ui") /\ UNCHANGED <<thread, job, jobs, state, mirror, events, shown>>
  BY <1>1, <1>2 DEF StoreFlag, RefreshTraceFlags, StopLoop, emuVars
<1>3. ASSUME h.op = "setFrozen" PROVE SetFrozenLocked("ui") /\ UNCHANGED <<thread, job, jobs, mirror, events, shown>>
  BY <1>1, <1>3 DEF SetFrozenLocked, emuVars
<1>4. ASSUME h.op = "start"
      PROVE  /\ UNCHANGED <<thread, job, jobs, state, mirror, events, shown>>
             /\ Replace("ui", <<>>) \/ Replace("ui", <<Op("postLoop")>>)
  <2>1. StartLoop("ui") /\ mirror' = mirror
    BY <1>1, <1>4
  <2>2. Replace("ui", IF running THEN <<>> ELSE <<Op("postLoop")>>)
    BY <2>1 DEF StartLoop
  <2>3. Replace("ui", <<>>) \/ Replace("ui", <<Op("postLoop")>>)
    BY <2>2, Zenon
  <2> QED
    BY <2>1, <2>3 DEF StartLoop
<1>5. ASSUME h.op \in {"postLoop", "pull"} PROVE Done("ui") /\ state' = state
  BY <1>1, <1>5 DEF PostLoop, PullDebugState
<1>6. ASSUME h.op = "pull" PROVE mirror' = state /\ UNCHANGED <<thread, job, jobs, state, events, shown>>
  BY <1>1, <1>6 DEF PullDebugState, emuVars
<1>7. ASSUME h.op = "post" PROVE Done("ui") /\ jobs' = Append(jobs, h.job) /\ state' = state
  BY <1>1, <1>7 DEF PostJob
<1>8. ASSUME NEW k \in {"stepKeycode", "stepInstruction"}, h.op = k
      PROVE  /\ UNCHANGED <<thread, job, jobs, state, mirror, events, shown>>
             /\ Replace("ui", IF state.frozen THEN <<PostStep(k, state.generation)>> ELSE <<>>)
  <2>1. PostStepIfFrozen("ui", k) /\ mirror' = mirror
    BY <1>1, <1>8
  <2> QED
    BY <2>1 DEF PostStepIfFrozen, emuVars
<1>9. h.op = "onFrozenView" => OnFrozenView
  BY <1>1
<1> QED
  BY <1>2, <1>3, <1>4, <1>5, <1>6, <1>7, <1>8, <1>9

(* A view that is looked at. *)
LEMMA LookingOn ==
  ASSUME NEW g \in Nat
  PROVE  /\ \A p \in Looking(g) : p # <<>> /\ \/ Head(p).op = "pull" /\ Tail(p) # <<>> /\ Tail(p) \in Looking(g)
                                              \/ Head(p).op = "onFrozenView" /\ Head(p).gen = g
         /\ <<Op("pull"), View(g)>> \in Viewing /\ <<View(g)>> \in Viewed
<1>1. /\ <<Op("pull"), View(g)>> \in Viewing /\ <<View(g)>> \in Viewed
  BY DEF Viewing, Viewed
<1>2. ASSUME NEW p \in Looking(g)
      PROVE  p # <<>> /\ \/ Head(p).op = "pull" /\ Tail(p) # <<>> /\ Tail(p) \in Looking(g)
                         \/ Head(p).op = "onFrozenView" /\ Head(p).gen = g
  <2> DEFINE two == <<Op("pull"), View(g)>>
             one == <<View(g)>>
  <2>1. /\ two # <<>> /\ Head(two).op = "pull" /\ Tail(two) = one
        /\ one # <<>> /\ Head(one).op = "onFrozenView" /\ Head(one).gen = g
    BY LineSteps
  <2>2. p \in {two, one} /\ one \in Looking(g)
    BY DEF Looking
  <2> HIDE DEF two, one
  <2> QED
    BY <2>1, <2>2
<1> QED
  BY <1>1, <1>2

(* The UI thread's steps keep the view of the present freeze on its way. *)
LEMMA UiInView ==
  ASSUME TypeOK, DebuggerOnly, InDate, ViewDue, UiThread
  PROVE  InDate' /\ ViewDue'
<1> DEFINE ui == todo["ui"]
           un == todo'["ui"]
           r == Tail(todo["ui"])
           h == Head(todo["ui"])
           g == state.generation
           same == UNCHANGED <<thread, job, jobs, state, events, shown>>
<1>0. TodoOK /\ StateOK /\ RunnerOK /\ g \in Nat /\ state.frozen \in BOOLEAN /\ ui \in Seq(UiOps)
      /\ DebuggerOnly' /\ state \in DebugStates
  <2>1. frontend' = frontend
    BY UiLeaves
  <2> QED
    BY <2>1 DEF TypeOK, TodoOK, StateOK, DebugStates, DebuggerOnly
<1>d. state.frozen =>
        \/ ui \in Posting(g)
        \/ After(jobs, JobsOf(g), StepJobs)
        \/ ~Has(jobs, StepJobs) /\ Executing /\ job \in JobsOf(g)
        \/ Standing /\ InView(g)
  BY DEF ViewDue
<1>k. ASSUME same, ui \notin Posting(g), \A n \in Nat : ui \in Looking(n) => un \in Looking(n)
      PROVE  ViewDue'
  <2>1. CASE InView(g)
    <3>1. InView(g)'
      BY <1>0, <1>k, <2>1 DEF InView
    <3> QED
      BY <1>d, <1>k, <3>1 DEF ViewDue, Standing, Executing
  <2>2. CASE ~InView(g)
    BY <1>d, <1>k, <2>2 DEF ViewDue, Executing
  <2> QED
    BY <2>1, <2>2
<1>p. \A p \in Posting(g) : p # <<>> /\ Head(p).op \in {"applyTraceFlags", "post"}
  BY <1>0, LineSteps
<1>l. \A n \in Nat : \A p \in Looking(n) : p # <<>> /\ \/ Head(p).op = "pull" /\ Tail(p) # <<>> /\ Tail(p) \in Looking(n)
                                                       \/ Head(p).op = "onFrozenView" /\ Head(p).gen = n
  BY LookingOn
<1>t. ui # <<>> => r \in Seq(UiOps) /\ (Done("ui") => un = r)
      /\ \A q \in Seq(UiOps) : Replace("ui", q) => un = q \o r
  BY <1>0, UiDone, UiReplaced, HeadAndTail
<1>e. <<>> \in Seq(UiOps) /\ \A q \in Seq(UiOps) : <<>> \o q = q /\ q \o <<>> = q
  BY EmptySeq, ConcatEmptySeq
<1>m. ui # <<>> =>
        /\ h.op \in {"stop", "store", "applyTraceFlags"} => Done("ui") /\ same
        /\ h.op = "setFrozen" => SetFrozenLocked("ui") /\ UNCHANGED <<thread, job, jobs, mirror, events, shown>>
        /\ h.op = "start" => same /\ (Replace("ui", <<>>) \/ Replace("ui", <<Op("postLoop")>>))
        /\ h.op \in {"postLoop", "pull"} => Done("ui") /\ state' = state
        /\ h.op = "pull" => mirror' = state /\ same
        /\ h.op = "post" => Done("ui") /\ jobs' = Append(jobs, h.job) /\ state' = state
        /\ \A k \in {"stepKeycode", "stepInstruction"} :
             h.op = k => same /\ Replace("ui", IF state.frozen THEN <<PostStep(k, state.generation)>> ELSE <<>>)
        /\ h.op = "onFrozenView" => OnFrozenView
  BY <1>0, DebuggerMoves
<1>s. ASSUME NEW p \in Resting \union Freezing \union Resuming \union Posting(state'.generation) \union Viewing, un = p
      PROVE  InDate'
  BY <1>s DEF InDate
<1>v. ~state'.frozen => ViewDue'
  BY DEF ViewDue
<1>1. CASE ui = <<>>
  <2> DEFINE e == Head(events)
             v == IF e.op = "frozenView" THEN <<[op |-> "onFrozenView", gen |-> e.gen]>> ELSE <<>>
             q == Pull \o v
  <2>1. TakeEvent
    BY <1>1 DEF UiThread, SessionOp, ControllerOp, MicroOp, StoreFlag, SetFrozenLocked, SetArmedLocked, RefreshTraceFlags, ReadPc,
       StopLoop, StartLoop, PostLoop, PostJob, PostSync, PostStepIfFrozen, BeginNextStep, Raise, PullDebugState, CleanReset,
       ReadFrozen, ReadArmed, Entered, StartUnlessShownFrozen, ReadRunning, StartIfSuspendedRunning, OnFrozenView, BuildView, Next1
  <2>2. events # <<>> /\ events' = Tail(events) /\ todo' = [todo EXCEPT !["ui"] = q]
        /\ UNCHANGED <<thread, job, jobs, state, shown>>
    BY <2>1 DEF TakeEvent, emuVars, controllerVars
  <2>3. e \in EventOps /\ q \in Seq(UiOps)
    <3>1. e \in EventOps
      BY <1>0, <2>2, HeadAndTail DEF StateOK
    <3> QED
      BY <3>1, ReplacementsTyped
  <2>4. un = q
    <3> HIDE DEF q
    <3> QED
      BY <1>0, <2>2, <2>3, UiBegins
  <2>5. CASE e.op = "frozenView"
    <3>1. e.gen \in Nat /\ View(e.gen) \in UiOps /\ Op("pull") \in UiOps
      BY <2>3, <2>5, UiAtoms DEF EventOps, View, PlainNames
    <3>2. q = <<Op("pull")>> \o <<View(e.gen)>>
      BY <2>5 DEF Pull, View
    <3>3. q = <<Op("pull"), View(e.gen)>>
      BY <3>1, <3>2, Pair
    <3>4. q \in Viewing /\ q \in Looking(e.gen)
      BY <3>1, <3>3 DEF Viewing, Looking
    <3> HIDE DEF q, e
    <3>5. InDate'
      BY <1>s, <2>4, <3>4
    <3>6. ViewDue'
      <4> SUFFICES ASSUME state.frozen PROVE ViewDue'
        BY <2>2 DEF ViewDue
      <4>1. ui \notin Posting(g) /\ ui \notin Looking(g)
        BY <1>0, <1>1, <1>p, <1>l
      <4>2. CASE InView(g)
        <5>1. Has(events, {[op |-> "frozenView", gen |-> g]}) \/ shown = [generation |-> g, current |-> TRUE]
          BY <4>1, <4>2 DEF InView
        <5>2. Has(events, {[op |-> "frozenView", gen |-> g]}) =>
                Head(events) = [op |-> "frozenView", gen |-> g] \/ Has(Tail(events), {[op |-> "frozenView", gen |-> g]})
          BY <1>0, <2>2, Begun DEF StateOK
        <5>3. Head(events) = [op |-> "frozenView", gen |-> g] => un \in Looking(g)
          BY <2>4, <3>4 DEF e
        <5>4. InView(g)'
          BY <2>2, <5>1, <5>2, <5>3 DEF InView
        <5> QED
          BY <1>d, <2>2, <4>1, <5>4 DEF ViewDue, Standing, Executing
      <4>3. CASE ~InView(g)
        BY <1>d, <2>2, <4>1, <4>3 DEF ViewDue, Executing
      <4> QED
        BY <4>2, <4>3
    <3> QED
      BY <3>5, <3>6
  <2>6. CASE e.op # "frozenView"
    <3>1. q = Pull \o <<>> /\ Pull \in Seq(UiOps)
      BY <2>6, PartsTyped DEF Pull, PlainNames
    <3>2. q = <<Op("pull")>>
      BY <1>e, <3>1 DEF Pull
    <3>3. q \in Resting
      BY <3>2 DEF Resting
    <3> HIDE DEF q
    <3>4. InDate'
      BY <1>s, <2>4, <3>3
    <3>5. ViewDue'
      <4> SUFFICES ASSUME state.frozen PROVE ViewDue'
        BY <2>2 DEF ViewDue
      <4>1. ui \notin Posting(g) /\ ui \notin Looking(g)
        BY <1>0, <1>1, <1>p, <1>l
      <4>2. CASE InView(g)
        <5>1. Has(events, {[op |-> "frozenView", gen |-> g]}) \/ shown = [generation |-> g, current |-> TRUE]
          BY <4>1, <4>2 DEF InView
        <5>2. Has(events, {[op |-> "frozenView", gen |-> g]}) =>
                Head(events) = [op |-> "frozenView", gen |-> g] \/ Has(Tail(events), {[op |-> "frozenView", gen |-> g]})
          BY <1>0, <2>2, Begun DEF StateOK
        <5>3. Head(events) # [op |-> "frozenView", gen |-> g]
          BY <2>6
        <5>4. InView(g)'
          BY <2>2, <5>1, <5>2, <5>3 DEF InView
        <5> QED
          BY <1>d, <2>2, <4>1, <5>4 DEF ViewDue, Standing, Executing
      <4>3. CASE ~InView(g)
        BY <1>d, <2>2, <4>1, <4>3 DEF ViewDue, Executing
      <4> QED
        BY <4>2, <4>3
    <3> QED
      BY <3>4, <3>5
  <2> QED
    BY <2>5, <2>6
<1>2. CASE ui \in Resting /\ ui # <<>>
  <2>1. h.op \in {"pull", "stepKeycode", "stepInstruction"} /\ r = <<>>
    BY <1>0, <1>2, LineSteps
  <2>2. CASE h.op = "pull"
    <3>1. same /\ un = <<>>
      BY <1>2, <1>m, <1>t, <2>1, <2>2
    <3>2. <<>> \in Resting
      BY DEF Resting
    <3>3. ui \notin Posting(g) /\ \A n \in Nat : ui \notin Looking(n)
      BY <1>p, <1>l, <2>1, <2>2
    <3> QED
      BY <1>k, <1>s, <3>1, <3>2, <3>3
  <2>3. ASSUME NEW k \in {"stepKeycode", "stepInstruction"}, h.op = k PROVE InDate' /\ ViewDue'
    <3> DEFINE o == <<PostStep(k, g)>>
               q == IF state.frozen THEN o ELSE <<>>
    <3>1. same /\ Replace("ui", q)
      BY <1>2, <1>m, <2>3
    <3>2. o \in Posting(g) /\ o \in Seq(UiOps) /\ <<>> \in Resting
      <4>1. k \in StepKinds
        BY DEF StepKinds
      <4>2. PostStep(k, g) \in UiOps
        BY <1>0, <4>1, UiAtoms
      <4> QED
        BY <4>1, <4>2, OneOp DEF Posting, Resting
    <3> HIDE DEF o
    <3>3. q \in Seq(UiOps)
      BY <1>0, <1>e, <3>2
    <3>4. un = q
      <4> HIDE DEF q
      <4>1. un = q \o r
        BY <1>2, <1>t, <3>1, <3>3
      <4> QED
        BY <1>e, <2>1, <3>3, <4>1
    <3>5. CASE state.frozen
      <4>1. un \in Posting(g) /\ state' = state
        BY <3>1, <3>2, <3>4, <3>5
      <4>2. un \in Posting(state'.generation)
        BY <4>1
      <4> QED
        BY <1>s, <4>2 DEF ViewDue
    <3>6. CASE ~state.frozen
      <4>1. un = <<>> /\ state' = state
        BY <3>1, <3>4, <3>6
      <4> QED
        BY <1>s, <1>v, <3>2, <3>6, <4>1
    <3> QED
      BY <3>5, <3>6
  <2> QED
    BY <2>1, <2>2, <2>3
<1>3. CASE ui \in Freezing
  <2>1. ui # <<>> /\ ((h.op \in {"stop", "store"} /\ r \in Freezing) \/ h.op = "setFrozen")
    BY <1>0, <1>3, LineSteps
  <2>2. CASE h.op \in {"stop", "store"} /\ r \in Freezing
    <3>1. same /\ un = r
      BY <1>m, <1>t, <2>1, <2>2
    <3>3. ui \notin Posting(g) /\ \A n \in Nat : ui \notin Looking(n)
      BY <1>p, <1>l, <2>1, <2>2
    <3> QED
      BY <1>k, <1>s, <2>2, <3>1, <3>3
  <2>3. CASE h.op = "setFrozen"
    <3>1. SetFrozenLocked("ui") /\ "ui" \in Threads
      BY <1>m, <2>1, <2>3 DEF Threads
    <3>2. un = Stamped(ui, g + 1) /\ state'.generation = g + 1
      BY <1>0, <3>1, Locked
    <3>3. g + 1 \in Nat
      BY <1>0
    <3>4. Stamped(ui, g + 1) \in Posting(g + 1)
      BY <1>3, <2>3, <3>3, FreezeStamped
    <3>5. un \in Posting(state'.generation)
      BY <3>2, <3>4
    <3> QED
      BY <1>s, <3>5 DEF ViewDue
  <2> QED
    BY <2>1, <2>2, <2>3
<1>4. CASE ui \in Resuming
  <2>1. ui # <<>> /\ h.op = "setFrozen"
    BY <1>0, <1>4, LineSteps, FreezeStamped
  <2>2. SetFrozenLocked("ui") /\ "ui" \in Threads
    BY <1>m, <2>1 DEF Threads
  <2>3. un = Stamped(ui, g + 1) /\ state'.frozen = h.frozen
    BY <1>0, <2>2, Locked
  <2>4. g + 1 \in Nat
    BY <1>0
  <2>5. ~h.frozen /\ Stamped(ui, g + 1) \in Resumed
    BY <1>4, <2>4, FreezeStamped
  <2>6. un \in Resumed /\ ~state'.frozen
    BY <2>3, <2>5
  <2> QED
    BY <1>v, <2>6 DEF InDate
<1>5. CASE ui \in Resumed /\ ~state.frozen
  <2>1. /\ ui # <<>>
        /\ \/ h.op = "applyTraceFlags" /\ r \in Resumed
           \/ h.op = "start" /\ r \in Resting /\ <<Op("postLoop")>> \o r \in Resumed
           \/ h.op = "postLoop" /\ r \in Resting
    BY <1>0, <1>5, LineSteps
  <2>2. <<Op("postLoop")>> \in Seq(UiOps)
    BY PartsTyped DEF PlainNames
  <2>3. state' = state /\ (un \in Resumed \/ un \in Resting)
    <3>1. CASE h.op = "start"
      <4>1. un = <<>> \o r \/ un = <<Op("postLoop")>> \o r
        BY <1>e, <1>m, <1>t, <2>1, <2>2, <3>1
      <4>2. <<>> \o r = r
        BY <1>e, <1>t, <2>1
      <4> QED
        BY <1>m, <2>1, <3>1, <4>1, <4>2
    <3>2. CASE h.op \in {"applyTraceFlags", "postLoop"}
      BY <1>m, <1>t, <2>1, <3>2
    <3> QED
      BY <2>1, <3>1, <3>2
  <2>4. ~state'.frozen
    BY <1>5, <2>3
  <2> QED
    BY <1>s, <1>v, <2>3, <2>4 DEF InDate
<1>6. CASE ui \in Posting(g)
  <2>1. /\ ui # <<>>
        /\ \/ h.op = "applyTraceFlags" /\ r \in Posting(g)
           \/ h.op = "post" /\ h.job \in JobsOf(g) /\ r \in Resting
    BY <1>0, <1>6, LineSteps
  <2>2. CASE h.op = "applyTraceFlags" /\ r \in Posting(g)
    <3>1. un = r /\ state' = state
      BY <1>m, <1>t, <2>1, <2>2
    <3>2. un \in Posting(state'.generation)
      BY <2>2, <3>1
    <3> QED
      BY <1>s, <3>2 DEF ViewDue
  <2>3. CASE h.op = "post" /\ h.job \in JobsOf(g) /\ r \in Resting
    <3>1. un = r /\ state' = state /\ jobs' = Append(jobs, h.job)
      BY <1>m, <1>t, <2>1, <2>3
    <3>2. h.job \in Jobs /\ jobs \in Seq(Jobs)
      BY <1>0, <2>3 DEF JobsOf, StepJobs, RunnerOK
    <3>3. After(jobs', JobsOf(g), StepJobs)
      BY <2>3, <3>1, <3>2, AfterQueue
    <3>4. ViewDue'
      BY <3>1, <3>3 DEF ViewDue
    <3> QED
      BY <1>s, <2>3, <3>1, <3>4
  <2> QED
    BY <2>1, <2>2, <2>3
<1>7. CASE ui \in Viewing
  <2>1. PICK n \in Nat : ui = <<Op("pull"), View(n)>>
    BY <1>7 DEF Viewing
  <2>2. ui # <<>> /\ h.op = "pull" /\ r = <<View(n)>>
    BY <1>0, <2>1, LineSteps
  <2>3. same /\ mirror' = state' /\ un = r /\ un \in Viewed
    BY <1>m, <1>t, <2>2 DEF Viewed
  <2>4. InDate'
    BY <2>3 DEF InDate
  <2>5. ui \notin Posting(g) /\ \A m \in Nat : ui \in Looking(m) => un \in Looking(m)
    BY <1>l, <1>p, <2>2, <2>3
  <2> QED
    BY <1>k, <2>3, <2>4, <2>5
<1>8. CASE ui \in Viewed /\ mirror = state
  <2>1. PICK n \in Nat : ui = <<View(n)>>
    BY <1>8 DEF Viewed
  <2>2. ui # <<>> /\ h.op = "onFrozenView" /\ h.gen = n /\ r = <<>>
    BY <1>0, <2>1, LineSteps
  <2>3. OnFrozenView
    BY <1>m, <2>2
  <2>4. /\ un = <<>> /\ UNCHANGED <<thread, job, jobs, state, events>>
        /\ shown' = IF mirror.frozen /\ mirror.generation = n
                    THEN [generation |-> mirror.generation, current |-> TRUE] ELSE shown
    BY <1>t, <2>2, <2>3 DEF OnFrozenView, emuVars
  <2>5. <<>> \in Resting
    BY DEF Resting
  <2>6. InDate'
    BY <1>s, <2>4, <2>5
  <2>7. ViewDue'
    <3> SUFFICES ASSUME state.frozen PROVE ViewDue'
      BY <2>4 DEF ViewDue
    <3>1. ui \notin Posting(g) /\ (ui \in Looking(g) => n = g)
      BY <1>0, <1>l, <1>p, <2>2
    <3>2. CASE InView(g)
      <4>1. ui \in Looking(g) => shown' = [generation |-> g, current |-> TRUE]
        BY <1>8, <2>4, <3>1
      <4>2. shown = [generation |-> g, current |-> TRUE] => shown' = [generation |-> g, current |-> TRUE]
        BY <1>8, <2>4
      <4>3. InView(g)'
        BY <2>4, <3>2, <4>1, <4>2 DEF InView
      <4> QED
        BY <1>d, <2>4, <3>1, <4>3 DEF ViewDue, Standing, Executing
    <3>3. CASE ~InView(g)
      BY <1>d, <2>4, <3>1, <3>3 DEF ViewDue, Executing
    <3> QED
      BY <3>2, <3>3
  <2> QED
    BY <2>6, <2>7
<1>9. \/ ui \in Resting \/ ui \in Freezing \/ ui \in Resuming \/ ui \in Posting(g) \/ ui \in Viewing
      \/ (ui \in Resumed /\ ~state.frozen) \/ (ui \in Viewed /\ mirror = state)
  BY DEF InDate
<1> QED
  BY <1>1, <1>2, <1>3, <1>4, <1>5, <1>6, <1>7, <1>8, <1>9

(* So do the calls it begins, and ... *)
LEMMA CallInView ==
  ASSUME TypeOK, DebuggerOnly, InDate, ViewDue, NEW c \in frontend.calls, Call(c)
  PROVE  InDate' /\ ViewDue'
<1>0. /\ todo["ui"] = <<>> /\ todo'["ui"] = Program(c) /\ state.generation \in Nat
      /\ UNCHANGED <<frontend, thread, job, jobs, state, events, shown>>
  BY CallBegins DEF Call, emuVars, TypeOK, StateOK, DebugStates
<1>1. Program(c) \in Resting \union Freezing \union Resuming
  <2>1. c \in {"freeze", "resume", "stepKeycode", "stepInstruction"}
    BY DEF DebuggerOnly, DebuggerCalls
  <2>2. CASE c \in {"freeze", "resume"}
    BY <2>2, FreezeSpelled
  <2>3. CASE c \in {"stepKeycode", "stepInstruction"}
    BY <2>3 DEF Program, Resting
  <2> QED
    BY <2>1, <2>2, <2>3
<1>2. InDate'
  BY <1>0, <1>1 DEF InDate
<1>3. ~(todo["ui"] \in Posting(state.generation)) /\ ~(todo["ui"] \in Looking(state.generation))
  BY <1>0, LineSteps, LookingOn
<1>4. InView(state.generation) => InView(state.generation)'
  BY <1>0, <1>3 DEF InView
<1>5. ViewDue'
  BY <1>0, <1>3, <1>4 DEF ViewDue, Standing, Executing, DebuggerOnly
<1> QED
  BY <1>2, <1>5

(* ... the emulation thread's, which nothing is armed to freeze and whose   *)
(* loop has been stopped.                                                   *)
LEMMA EmuInView ==
  ASSUME TypeOK, EmuFired, NothingArmed, FrozenStops, DebuggerOnly, InDate, ViewDue, Emulation
  PROVE  InDate' /\ ViewDue'
<1> DEFINE g == state.generation
<1>0. /\ RunnerOK /\ StateOK /\ TodoOK /\ SyncOK /\ todo["emu"] = <<>> /\ thread # "fired" /\ check \notin Owners
      /\ todo["ui"] \in Seq(UiOps) /\ g \in Nat
  BY DEF TypeOK, NothingArmed, EmuFired, TodoOK, StateOK, DebugStates, Owners
<1>1. ~Awaiting
  <2>1. Op("await") \in UiOps /\ Op("await").op = "await" /\ Op("await") \notin DebuggerUiOps
    <3>1. Op("await") \in UiOps /\ Op("await").op = "await"
      BY UiAtoms DEF PlainNames, Op
    <3> QED
      BY <3>1, DebuggerNames
  <2>2. SUFFICES ASSUME Awaiting PROVE FALSE
    OBVIOUS
  <2>3. todo["ui"] # <<>> /\ Head(todo["ui"]) = Op("await")
    BY <1>0, <2>2, UiNext, UiHead DEF Awaiting, PlainNames
  <2>4. Has(todo["ui"], UiOps \ DebuggerUiOps)
    BY <1>0, <2>1, <2>3, Begun
  <2> QED
    BY <2>4 DEF NothingArmed
<1>2. ~Has(jobs, SyncJobs) /\ (Executing => job \in StepJobs)
  BY <1>0, <1>1 DEF SyncOK, RunnerOK, Executing
<1>3. ~FreezeFires /\ ~LeaveLoop /\ ~MicroOp("emu")
  <2>1. \A n : ~Next1("emu", n)
    BY <1>0 DEF Next1
  <2>2. ~MicroOp("emu")
    BY <1>0, <2>1, EmuMicroOps DEF StoreFlag, SetFrozenLocked, RefreshTraceFlags, BeginNextStep, Raise
  <2> QED
    BY <1>0, <2>2 DEF FreezeFires, LeaveLoop
<1>4. UNCHANGED <<frontend, state, todo, mirror>>
  <2>1. FinishJob => job.kind \in StepKinds
    BY <1>2 DEF FinishJob, Executing, StepJobs
  <2> QED
    BY <1>3, <2>1 DEF Emulation, EmulationThread, TakeJob, ExecuteJob, FinishJob, LoopTest, Instruction, CheckFreeze, BatchEnds,
       BatchDone, sessionVars, controllerVars
<1>5. InDate'
  BY <1>4 DEF InDate, DebuggerOnly
<1>6. ViewDue'
  <2> SUFFICES ASSUME state.frozen, todo["ui"] \notin Posting(g) PROVE ViewDue'
    BY <1>4 DEF ViewDue
  <2>1. \/ After(jobs, JobsOf(g), StepJobs)
        \/ ~Has(jobs, StepJobs) /\ Executing /\ job \in JobsOf(g)
        \/ Standing /\ InView(g)
    BY DEF ViewDue
  <2>2. ~running
    BY DEF FrozenStops, Overlapping, DebuggerOnly
  <2>k. ASSUME UNCHANGED <<jobs, events, shown>>, Executing' <=> Executing, job' = job, Standing => Standing' PROVE ViewDue'
    <3>1. InView(g) => InView(g)'
      BY <1>4, <2>k DEF InView
    <3> QED
      BY <1>4, <2>1, <2>k, <3>1 DEF ViewDue
  <2>3. CASE TakeJob
    <3>1. /\ jobs # <<>> /\ jobs \in Seq(Jobs) /\ jobs' = Tail(jobs) /\ thread = "wait" /\ UNCHANGED <<events, shown>>
          /\ \/ Head(jobs).kind = "loop" /\ thread' = "enter"
             \/ Head(jobs).kind # "loop" /\ thread' = "job" /\ job' = Head(jobs)
      BY <1>0, <2>3 DEF TakeJob, RunnerOK, sessionVars
    <3>2. CASE After(jobs, JobsOf(g), StepJobs)
      <4>1. After(Tail(jobs), JobsOf(g), StepJobs) \/ (Head(jobs) \in JobsOf(g) /\ ~Has(Tail(jobs), StepJobs))
        BY <3>1, <3>2, AfterQueue
      <4>2. Head(jobs) \in JobsOf(g) => Head(jobs).kind # "loop"
        BY DEF JobsOf, StepJobs, StepKinds
      <4> QED
        BY <1>4, <3>1, <4>1, <4>2 DEF ViewDue, Executing
    <3>3. CASE Standing /\ InView(g)
      <4>1. ~Has(jobs, StepJobs)
        BY <3>3 DEF Standing
      <4>2. Head(jobs) \in Jobs /\ Head(jobs) \notin StepJobs /\ Head(jobs) \notin SyncJobs /\ ~Has(Tail(jobs), StepJobs)
        BY <1>2, <3>1, <4>1, Begun, HeadAndTail
      <4>3. Head(jobs).kind = "loop"
        BY <4>2 DEF Jobs, StepJobs, SyncJobs
      <4>4. Standing' /\ InView(g)'
        BY <1>4, <3>1, <3>3, <4>2, <4>3 DEF Standing, InView
      <4> QED
        BY <1>4, <4>4 DEF ViewDue
    <3> QED
      BY <2>1, <3>1, <3>2, <3>3 DEF Executing
  <2>4. CASE ExecuteJob
    <3>1. thread = "job" /\ thread' = "posted" /\ UNCHANGED <<jobs, job, events>>
      BY <2>4 DEF ExecuteJob
    <3> QED
      BY <1>4, <2>1, <3>1 DEF ViewDue, Executing, Standing
  <2>5. CASE FinishJob
    <3>1. thread = "posted" /\ thread' = "wait" /\ jobs' = jobs /\ job.kind \in StepKinds
          /\ events' = Append(events, [op |-> "frozenView", gen |-> job.gen])
      BY <1>2, <2>5 DEF FinishJob, Executing, StepJobs
    <3>2. CASE After(jobs, JobsOf(g), StepJobs)
      BY <1>4, <3>1, <3>2 DEF ViewDue
    <3>3. CASE ~Has(jobs, StepJobs) /\ job \in JobsOf(g)
      <4>1. job.gen = g /\ [op |-> "frozenView", gen |-> g] \in EventOps
        BY <1>0, <3>3 DEF JobsOf, EventOps
      <4>2. Has(events', {[op |-> "frozenView", gen |-> g]})
        <5> DEFINE e == [op |-> "frozenView", gen |-> g]
        <5>1. events \in Seq(EventOps) /\ e \in EventOps /\ events' = Append(events, e)
          BY <1>0, <3>1, <4>1 DEF StateOK
        <5> HIDE DEF e
        <5>2. Has(Append(events, e), {e})
          BY <5>1, Queued
        <5> QED
          BY <5>1, <5>2 DEF e
      <4>3. InView(g)' /\ Standing'
        BY <1>4, <3>1, <3>3, <4>2 DEF InView, Standing
      <4> QED
        BY <1>4, <4>3 DEF ViewDue
    <3> QED
      BY <2>1, <3>1, <3>2, <3>3 DEF Standing
  <2>6. CASE LoopTest
    <3>1. thread \in {"enter", "top"} /\ thread' = "wait" /\ UNCHANGED <<jobs, job, events, shown>>
      BY <2>2, <2>6 DEF LoopTest, sessionVars
    <3> QED
      BY <2>k, <3>1 DEF Executing, Standing
  <2>7. CASE Instruction
    <3>1. thread = "batch" /\ thread' = "batch" /\ UNCHANGED <<jobs, job, events>>
      BY <2>7 DEF Instruction
    <3> QED
      BY <1>4, <2>1, <3>1 DEF ViewDue, Executing, Standing
  <2>8. CASE CheckFreeze
    <3>1. UNCHANGED <<thread, jobs, job, events, shown>>
      BY <2>8 DEF CheckFreeze, emuVars, sessionVars
    <3> QED
      BY <2>k, <3>1 DEF Executing, Standing
  <2>9. CASE BatchEnds
    <3>1. thread = "batch" /\ thread' = "pause" /\ UNCHANGED <<jobs, job, events, shown>>
      BY <2>9 DEF BatchEnds, sessionVars
    <3> QED
      BY <2>k, <3>1 DEF Executing, Standing
  <2>10. CASE BatchDone
    <3>1. thread = "pause" /\ thread' = "top" /\ UNCHANGED <<jobs, job, events, shown>>
      BY <2>10 DEF BatchDone, sessionVars
    <3> QED
      BY <2>k, <3>1 DEF Executing, Standing
  <2> QED
    BY <1>3, <2>3, <2>4, <2>5, <2>6, <2>7, <2>8, <2>9, <2>10 DEF Emulation, EmulationThread
<1> QED
  BY <1>5, <1>6

LEMMA ViewInit == Init => InDate /\ ViewDue
<1> SUFFICES ASSUME Init PROVE InDate /\ ViewDue
  OBVIOUS
<1>1. todo["ui"] = <<Op("start")>> /\ ~state.frozen
  BY DEF Init, Start, Debug
<1>2. <<Op("start")>> \in Resumed
  BY DEF Resumed
<1> QED
  BY <1>1, <1>2 DEF InDate, ViewDue

LEMMA ViewStep == TypeOK /\ InOrder /\ InDate /\ ViewDue /\ [Next]_vars => InDate' /\ ViewDue'
<1>1. ASSUME TypeOK, InOrder, InDate, ViewDue, Next PROVE InDate' /\ ViewDue'
  <2>1. frontend' = frontend
    BY <1>1, UiLeaves, EmuMoves, CallBegins DEF Next, InOrder
  <2> SUFFICES ASSUME DebuggerOnly PROVE InDate' /\ ViewDue'
    BY <2>1 DEF InDate, ViewDue, DebuggerOnly
  <2> QED
    BY <1>1, UiInView, CallInView, EmuInView DEF Next, InOrder
<1>2. ASSUME InDate, ViewDue, UNCHANGED vars PROVE InDate' /\ ViewDue'
  <2>1. UNCHANGED <<frontend, thread, job, jobs, state, mirror, todo, events, shown>>
    BY <1>2 DEF vars, emuVars, sessionVars, controllerVars
  <2>2. InDate'
    BY <1>2, <2>1 DEF InDate, DebuggerOnly
  <2>3. InView(state.generation)' <=> InView(state.generation)
    BY <2>1 DEF InView
  <2>4. ViewDue'
    BY <1>2, <2>1, <2>3 DEF ViewDue, DebuggerOnly, Standing, Executing
  <2> QED
    BY <2>2, <2>4
<1> QED
  BY <1>1, <1>2

LEMMA DueIsShown == TypeOK /\ ViewDue => ViewCurrent
<1> SUFFICES ASSUME TypeOK, ViewDue, DebuggerOnly, AtRest, state.frozen
             PROVE  shown = [generation |-> state.generation, current |-> TRUE]
  BY DEF ViewCurrent, DebuggerOnly
<1>1. todo["ui"] = <<>> /\ events = <<>> /\ jobs = <<>> /\ thread = "wait" /\ state.generation \in Nat
  BY DEF AtRest, Settled, UiIdle, TypeOK, StateOK, DebugStates
<1>2. todo["ui"] \notin Posting(state.generation) /\ todo["ui"] \notin Looking(state.generation)
  BY <1>1, LineSteps, LookingOn
<1>3. \A B, C : ~After(<<>>, B, C)
  BY DEF After
<1>4. ~Has(events, {[op |-> "frozenView", gen |-> state.generation]})
  BY <1>1 DEF Has
<1>5. InView(state.generation)
  BY <1>1, <1>2, <1>3 DEF ViewDue, Executing
<1> QED
  BY <1>2, <1>4, <1>5 DEF InView

(* The frozen view on screen, once everything has come to rest, is the one  *)
(* of the present freeze and the machine has not moved since it was built.  *)
THEOREM FrozenIsShown == Spec => []ViewCurrent
<1> QED
  BY DueIsShown, ViewInit, ViewStep, OrderInit, OrderStep, AliveInit, AliveStep, MirrorStep, TypeCorrect, PTL DEF Spec
=============================================================================
