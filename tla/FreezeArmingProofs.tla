-------------------------- MODULE FreezeArmingProofs --------------------------
(***************************************************************************)
(* Mutual exclusion of the two armed freezes, for every set of program     *)
(* counters: ArmExclusive is not inductive, because a thread may be        *)
(* between the stores of a call.  OneArming adds what is true there: only  *)
(* the last store of a UI call arms a freeze, and until that store is made *)
(* the other freeze is disarmed or its disarming store is still to come.   *)
(***************************************************************************)
EXTENDS FreezeArming, TLAPS

(* What one atomic store does to the flags. *)
LEMMA StoreFlag ==
  ASSUME FreezeTypeOK, NEW s \in Stores, DoStore(s)
  PROVE  /\ flag' \in [pcArmed : BOOLEAN, scanArmed : BOOLEAN, seenLoop : BOOLEAN, armPC : PC \union {NoPC}]
         /\ flag'[s.field] = s.value
         /\ \A f \in Fields : f # s.field => flag'[f] = flag[f]
<1>1. CASE s.field = "armPC"     BY <1>1 DEF Stores, DoStore, FreezeTypeOK, Fields
<1>2. CASE s.field = "pcArmed"   BY <1>2 DEF Stores, DoStore, FreezeTypeOK, Fields
<1>3. CASE s.field = "scanArmed" BY <1>3 DEF Stores, DoStore, FreezeTypeOK, Fields
<1>4. CASE s.field = "seenLoop"  BY <1>4 DEF Stores, DoStore, FreezeTypeOK, Fields
<1> QED
  BY <1>1, <1>2, <1>3, <1>4 DEF Stores, Fields

(* A store that arms nothing leaves both freezes disarmed where they were.  *)
LEMMA QuietStore ==
  ASSUME FreezeTypeOK, NEW s \in Stores, DoStore(s),
         ~(s.field \in {"pcArmed", "scanArmed"} /\ s.value = TRUE)
  PROVE  \A f \in {"pcArmed", "scanArmed"} : ~flag[f] => ~flag'[f]
  BY StoreFlag DEF Stores, Fields

(* Tuples of up to four stores are sequences of stores.                     *)
LEMMA Tuples ==
  ASSUME NEW a \in Stores, NEW b \in Stores, NEW c \in Stores, NEW d \in Stores
  PROVE  /\ <<a>> \in Seq(Stores) /\ <<a, b>> \in Seq(Stores)
         /\ <<a, b, c>> \in Seq(Stores) /\ <<a, b, c, d>> \in Seq(Stores)
  OBVIOUS

(* The methods of the controller are sequences of stores.                   *)
LEMMA Methods ==
  ASSUME NEW p \in PC
  PROVE  /\ DisarmScanLoopExit \in Seq(Stores)
         /\ DisarmPcChange \in Seq(Stores)
         /\ DisarmBoth \in Seq(Stores)
         /\ ArmPcChange \in Seq(Stores)
         /\ ArmScanLoopExit(p) \in Seq(Stores)
<1>1. /\ Store("pcArmed", FALSE) \in Stores /\ Store("pcArmed", TRUE) \in Stores
      /\ Store("scanArmed", FALSE) \in Stores /\ Store("scanArmed", TRUE) \in Stores
      /\ Store("seenLoop", FALSE) \in Stores /\ Store("armPC", p) \in Stores
  BY DEF Stores, Store, Fields
<1>2. DisarmScanLoopExit \in Seq(Stores) BY <1>1, Tuples DEF DisarmScanLoopExit
<1>3. DisarmPcChange \in Seq(Stores)     BY <1>1, Tuples DEF DisarmPcChange
<1>4. DisarmBoth \in Seq(Stores)         BY <1>1, Tuples DEF DisarmBoth
<1>5. ArmPcChange \in Seq(Stores)        BY <1>1, Tuples DEF ArmPcChange
<1>6. ArmScanLoopExit(p) \in Seq(Stores) BY <1>1, Tuples DEF ArmScanLoopExit
<1> QED
  BY <1>2, <1>3, <1>4, <1>5, <1>6

-----------------------------------------------------------------------------
(* Every reachable state of the controller is well typed.                   *)
THEOREM TypeCorrect == Spec => []TypeOK
<1>1. Init => TypeOK
  <2> SUFFICES ASSUME Init PROVE TypeOK
    OBVIOUS
  <2>1. FreezeTypeOK
    BY PcAssumption DEF PcAssumption, Init, FreezeInit, FreezeTypeOK, CheckStates
  <2>2. <<>> \in Seq(Stores)
    OBVIOUS
  <2> QED
    BY <2>1, <2>2 DEF Init, TypeOK
<1>2. TypeOK /\ [Next]_vars => TypeOK'
  <2> SUFFICES ASSUME TypeOK, [Next]_vars PROVE TypeOK'
    OBVIOUS
  <2>1. CASE Arm
    BY <2>1, Methods DEF Arm, Call, TypeOK, FreezeTypeOK, fcVars, Threads
  <2>2. CASE Disarm
    <3>1. PICK p \in PC : TRUE
      BY PcAssumption DEF PcAssumption
    <3> QED
      BY <2>2, <3>1, Methods DEF Disarm, Call, TypeOK, FreezeTypeOK, fcVars, Threads
  <2>3. ASSUME NEW t \in Threads, MakeStore(t) PROVE TypeOK'
    <3>1. Head(todo[t]) \in Stores /\ Tail(todo[t]) \in Seq(Stores)
      BY <2>3 DEF MakeStore, TypeOK
    <3> QED
      BY <2>3, <3>1, StoreFlag DEF MakeStore, TypeOK, FreezeTypeOK
  <2>4. CASE Execute
    BY <2>4 DEF Execute, Step, TypeOK, FreezeTypeOK, CheckStates
  <2>5. CASE Check
    <3>1. FreezeTypeOK'
      BY <2>5 DEF Check, CheckStep, TestPcArmed, ClearPcArmed, TestScanArmed, MarkSeen, TestLeftLoop,
         DisarmFired, DoStore, Store, DisarmScanLoopExit, TypeOK, FreezeTypeOK, CheckStates
    <3> QED
      BY <2>5, <3>1 DEF Check, TypeOK
  <2>6. CASE Fired
    <3>1. PICK p \in PC : TRUE
      BY PcAssumption DEF PcAssumption
    <3> QED
      BY <2>6, <3>1, Methods DEF Fired, Call, TypeOK, FreezeTypeOK, CheckStates, Threads
  <2>7. CASE UNCHANGED vars
    BY <2>7 DEF vars, fcVars, TypeOK, FreezeTypeOK
  <2> QED
    BY <2>1, <2>2, <2>3, <2>4, <2>5, <2>6, <2>7 DEF Next, Threads
<1> QED
  BY <1>1, <1>2, PTL DEF Spec

(* A sequence of stores that arms nothing.                                  *)
Quiet(prog) == \A i \in 1..Len(prog) : ~(prog[i].field \in {"pcArmed", "scanArmed"} /\ prog[i].value = TRUE)

LEMMA DisarmsAreQuiet == Quiet(DisarmScanLoopExit) /\ Quiet(DisarmPcChange) /\ Quiet(DisarmBoth)
  BY DEF Quiet, DisarmScanLoopExit, DisarmPcChange, DisarmBoth, Store

(* OneArming and ArmExclusive survive any step of the emulation thread: its *)
(* stores arm nothing, and disarming keeps both.                            *)
LEMMA QuietSteps ==
  ASSUME TypeOK, OneArming, ArmExclusive, TypeOK',
         todo'["ui"] = todo["ui"],
         \A f \in {"pcArmed", "scanArmed"} : ~flag[f] => ~flag'[f],
         Quiet(todo'["emu"])
  PROVE  OneArming' /\ ArmExclusive'
<1>1. ArmExclusive'
  BY DEF ArmExclusive
<1>2. ASSUME NEW i \in 1..Len(todo["ui"]), Arms("ui", i), DisarmedFirst(i)
      PROVE  DisarmedFirst(i)'
  BY <1>2 DEF DisarmedFirst, Other, Arms
<1> QED
  BY <1>1, <1>2 DEF OneArming, Arms, Quiet

(* The two armed freezes are mutually exclusive at every instant.           *)
THEOREM ArmingIsExclusive == Spec => []ArmExclusive
<1>1. Init => IInv
  <2> SUFFICES ASSUME Init PROVE IInv
    OBVIOUS
  <2>1. Init => TypeOK
    BY PcAssumption DEF PcAssumption, Init, FreezeInit, TypeOK, FreezeTypeOK, CheckStates
  <2>2. todo["ui"] = <<>> /\ todo["emu"] = <<>> /\ ~flag.pcArmed
    BY DEF Init, FreezeInit, Threads
  <2> QED
    BY <2>1, <2>2 DEF IInv, ArmExclusive, OneArming
<1>2. TypeOK' /\ IInv /\ [Next]_vars => IInv'
  <2> SUFFICES ASSUME TypeOK', TypeOK, ArmExclusive, OneArming, [Next]_vars
               PROVE  ArmExclusive' /\ OneArming'
    BY DEF IInv
  <2>0. Quiet(todo["emu"])
    BY DEF OneArming, Arms, Quiet
  <2>1. CASE Arm
    <3>1. UNCHANGED flag /\ todo'["emu"] = todo["emu"]
      BY <2>1 DEF Arm, Call, fcVars, TypeOK, Threads
    <3>2. CASE todo'["ui"] = ArmPcChange
      <4>1. /\ Len(todo'["ui"]) = 3
            /\ todo'["ui"][1] = Store("seenLoop", FALSE)
            /\ todo'["ui"][2] = Store("scanArmed", FALSE)
            /\ todo'["ui"][3] = Store("pcArmed", TRUE)
        BY <3>2 DEF ArmPcChange
      <4>2. todo'["ui"][3].field = "pcArmed"
        BY <4>1 DEF Store
      <4>3. DisarmedFirst(3)'
        <5>1. 2 \in 1..(3 - 1)
          OBVIOUS
        <5> QED
          BY <4>1, <4>2, <5>1 DEF DisarmedFirst, Other
      <4>4. ~Arms("ui", 1)' /\ ~Arms("ui", 2)'
        BY <4>1 DEF Arms, Store
      <4>5. \A i \in 1..Len(todo'["ui"]) : i = 1 \/ i = 2 \/ i = 3
        BY <4>1
      <4> QED
        BY <2>0, <3>1, <4>1, <4>3, <4>4, <4>5 DEF OneArming, Arms, Quiet, ArmExclusive
    <3>3. CASE todo'["ui"] = ArmScanLoopExit(pc)
      <4>1. /\ Len(todo'["ui"]) = 4
            /\ todo'["ui"][1] = Store("pcArmed", FALSE)
            /\ todo'["ui"][2] = Store("seenLoop", FALSE)
            /\ todo'["ui"][3] = Store("armPC", pc)
            /\ todo'["ui"][4] = Store("scanArmed", TRUE)
        BY <3>3 DEF ArmScanLoopExit
      <4>2. todo'["ui"][4].field = "scanArmed"
        BY <4>1 DEF Store
      <4>3. DisarmedFirst(4)'
        <5>1. 1 \in 1..(4 - 1)
          OBVIOUS
        <5> QED
          BY <4>1, <4>2, <5>1 DEF DisarmedFirst, Other
      <4>4. ~Arms("ui", 1)' /\ ~Arms("ui", 2)' /\ ~Arms("ui", 3)'
        BY <4>1 DEF Arms, Store
      <4>5. \A i \in 1..Len(todo'["ui"]) : i = 1 \/ i = 2 \/ i = 3 \/ i = 4
        BY <4>1
      <4> QED
        BY <2>0, <3>1, <4>1, <4>3, <4>4, <4>5 DEF OneArming, Arms, Quiet, ArmExclusive
    <3> QED
      BY <2>1, <3>2, <3>3 DEF Arm, Call, TypeOK, Threads
  <2>2. CASE Disarm
    <3>1. UNCHANGED flag /\ todo'["emu"] = todo["emu"] /\ Quiet(todo'["ui"])
      BY <2>2, DisarmsAreQuiet DEF Disarm, Call, fcVars, TypeOK, Threads
    <3> QED
      BY <2>0, <3>1 DEF OneArming, Arms, Quiet, ArmExclusive
  <2>3. CASE MakeStore("ui")
    <3> DEFINE prog == todo["ui"]
               s == Head(prog)
    <3>1. /\ prog \in Seq(Stores) /\ prog # <<>> /\ s = prog[1] /\ s \in Stores
          /\ Len(prog) \in Nat /\ Len(prog) > 0 /\ DoStore(s)
          /\ todo'["ui"] = Tail(prog) /\ todo'["emu"] = todo["emu"]
          /\ Len(Tail(prog)) = Len(prog) - 1
          /\ \A i \in 1..(Len(prog) - 1) : Tail(prog)[i] = prog[i + 1]
      BY <2>3 DEF MakeStore, TypeOK, Threads
    <3>2. CASE Len(prog) = 1
      <4>1. Len(todo'["ui"]) = 0
        BY <3>1, <3>2
      <4>2. OneArming'
        BY <2>0, <3>1, <4>1 DEF OneArming, Arms, Quiet
      <4>3. ArmExclusive'
        <5>1. CASE Arms("ui", 1)
          <6>1. ~flag[Other(s.field)]
            <7>1. DisarmedFirst(1)
              BY <3>2, <5>1 DEF OneArming
            <7>2. 1..(1 - 1) = {}
              OBVIOUS
            <7> QED
              BY <3>1, <7>1, <7>2 DEF DisarmedFirst
          <6>2. Other(s.field) # s.field /\ Other(s.field) \in Fields /\ flag'[Other(s.field)] = flag[Other(s.field)]
            BY <3>1, <5>1, StoreFlag DEF Other, Arms, Fields, TypeOK
          <6> QED
            BY <3>1, <5>1, <6>1, <6>2 DEF Other, Arms, ArmExclusive
        <5>2. CASE ~Arms("ui", 1)
          BY <3>1, <5>2, QuietStore DEF Arms, ArmExclusive, TypeOK
        <5> QED
          BY <5>1, <5>2
      <4> QED
        BY <4>2, <4>3
    <3>3. CASE Len(prog) > 1
      <4>1. ~Arms("ui", 1)
        BY <3>1, <3>3 DEF OneArming
      <4>2. \A f \in {"pcArmed", "scanArmed"} : ~flag[f] => ~flag'[f]
        BY <3>1, <4>1, QuietStore DEF Arms, TypeOK
      <4>3. ArmExclusive'
        BY <4>2 DEF ArmExclusive
      <4>4. ASSUME NEW i \in 1..Len(todo'["ui"]), Arms("ui", i)'
            PROVE  i = Len(todo'["ui"]) /\ DisarmedFirst(i)'
        <5> DEFINE o == Other(prog[i + 1].field)
        <5>1. i + 1 \in 1..Len(prog) /\ todo'["ui"][i] = prog[i + 1] /\ i \in 1..(Len(prog) - 1)
          BY <3>1, <4>4
        <5>2. Arms("ui", i + 1) /\ i + 1 = Len(prog) /\ DisarmedFirst(i + 1)
          BY <4>4, <5>1 DEF Arms, OneArming
        <5>3. o \in {"pcArmed", "scanArmed"}
          BY <5>2 DEF Arms, Other
        <5>4. i = Len(todo'["ui"])
          BY <3>1, <5>1, <5>2
        <5>5. ASSUME ~flag[o] PROVE DisarmedFirst(i)'
          <6>1. ~flag'[o]
            BY <4>2, <5>3, <5>5
          <6> QED
            BY <5>1, <6>1 DEF DisarmedFirst
        <5>6. ASSUME prog[1] = Store(o, FALSE) PROVE DisarmedFirst(i)'
          <6>1. s.field = o /\ s.value = FALSE
            BY <3>1, <5>6 DEF Store
          <6>2. flag'[o] = FALSE
            BY <3>1, <6>1, StoreFlag DEF TypeOK
          <6> QED
            BY <5>1, <6>2 DEF DisarmedFirst
        <5>7. ASSUME NEW k \in 2..i, prog[k] = Store(o, FALSE)
              PROVE  DisarmedFirst(i)'
          <6>1. k - 1 \in 1..(i - 1) /\ k - 1 \in 1..(Len(prog) - 1) /\ (k - 1) + 1 = k
            BY <3>1, <5>1
          <6>2. todo'["ui"][k - 1] = Store(o, FALSE)
            BY <3>1, <5>7, <6>1
          <6> QED
            BY <5>1, <6>1, <6>2 DEF DisarmedFirst
        <5>8. ~flag[o] \/ \E k \in 1..((i + 1) - 1) : prog[k] = Store(o, FALSE)
          BY <5>2 DEF DisarmedFirst
        <5>9. \A k \in 1..((i + 1) - 1) : k = 1 \/ k \in 2..i
          BY <5>1
        <5>10. DisarmedFirst(i)'
          BY <5>5, <5>6, <5>7, <5>8, <5>9
        <5> QED
          BY <5>4, <5>10
      <4>5. OneArming'
        BY <2>0, <3>1, <4>4 DEF OneArming, Arms, Quiet
      <4> QED
        BY <4>3, <4>5
    <3>4. Len(prog) = 1 \/ Len(prog) > 1
      <4>1. \A n \in Nat : n > 0 => n = 1 \/ n > 1
        OBVIOUS
      <4> QED
        BY <3>1, <4>1
    <3> QED
      BY <3>2, <3>3, <3>4
  <2>4. CASE MakeStore("emu")
    <3> DEFINE prog == todo["emu"]
    <3>1. /\ prog \in Seq(Stores) /\ prog # <<>> /\ Head(prog) = prog[1] /\ Head(prog) \in Stores
          /\ Len(prog) \in Nat /\ Len(prog) > 0 /\ DoStore(Head(prog))
          /\ todo'["emu"] = Tail(prog) /\ todo'["ui"] = todo["ui"]
          /\ Len(Tail(prog)) = Len(prog) - 1
          /\ \A i \in 1..(Len(prog) - 1) : Tail(prog)[i] = prog[i + 1]
      BY <2>4 DEF MakeStore, TypeOK, Threads
    <3>2. Quiet(Tail(prog)) /\ ~(prog[1].field \in {"pcArmed", "scanArmed"} /\ prog[1].value = TRUE)
      BY <2>0, <3>1 DEF Quiet
    <3>3. \A f \in {"pcArmed", "scanArmed"} : ~flag[f] => ~flag'[f]
      BY <3>1, <3>2, QuietStore DEF TypeOK
    <3> QED
      BY <3>1, <3>2, <3>3, QuietSteps
  <2>5. CASE Execute
    BY <2>5, <2>0, QuietSteps DEF Execute, Step
  <2>6. CASE Check
    <3>1. \A f \in {"pcArmed", "scanArmed"} : ~flag[f] => ~flag'[f]
      BY <2>6 DEF Check, CheckStep, TestPcArmed, ClearPcArmed, TestScanArmed, MarkSeen, TestLeftLoop,
         DisarmFired, DoStore, Store, DisarmScanLoopExit, TypeOK, FreezeTypeOK
    <3> QED
      BY <2>6, <2>0, <3>1, QuietSteps DEF Check
  <2>7. CASE Fired
    <3>1. Quiet(todo'["emu"]) /\ todo'["ui"] = todo["ui"]
      BY <2>7, DisarmsAreQuiet DEF Fired, Call, TypeOK, Threads
    <3> QED
      BY <2>7, <3>1, QuietSteps DEF Fired
  <2>8. CASE UNCHANGED vars
    BY <2>8, <2>0, QuietSteps DEF vars
  <2> QED
    BY <2>1, <2>2, <2>3, <2>4, <2>5, <2>6, <2>7, <2>8 DEF Next
<1>3. IInv => ArmExclusive
  BY DEF IInv
<1> QED
  BY <1>1, <1>2, <1>3, TypeCorrect, PTL DEF Spec
=============================================================================
