-------------------------- MODULE FreezeController --------------------------
(***************************************************************************)
(* src/Shared/FreezeController.cpp: the debugger's two armed freezes, four *)
(* atomics that the UI thread arms and disarms store by store while the    *)
(* emulation thread tests them after every instruction, load by load.      *)
(* There is no lock: every store and every decision is a step of its own.  *)
(*                                                                         *)
(* This module is the controller's state and its methods; FreezeArming     *)
(* runs the methods against each other, SessionController uses them.       *)
(***************************************************************************)
EXTENDS Sequences

CONSTANTS
  PC,        \* program counter values
  ScanLoop,  \* ModelInfo::scanLoop
  Dispatch,  \* the step dispatch: step() reports kStepBoundary when it stops here
  Zero,      \* PC 0x0000
  NoPC       \* 0xFFFF: m_armPC before anything was armed

ASSUME PcAssumption ==
  ScanLoop \subseteq PC /\ Dispatch \in PC /\ Zero \in PC /\ NoPC \notin PC

VARIABLES
  flag,      \* the atomics m_pcArmed, m_scanArmed, m_seenLoop and m_armPC
  check,     \* where the emulation thread is in checkStep()
  pc,        \* the machine's PC
  arg        \* the PC checkStep was called with

fcVars == <<flag, check, pc, arg>>

(* "idle": not in checkStep; "Calculator", "Cpu": checkStep returned that   *)
(* owner, the freeze fires; the others are the places between its loads and *)
(* stores.                                                                  *)
CheckStates == {"idle", "pc", "clearPc", "scan", "seen", "leave", "disarm1", "disarm2",
                "Calculator", "Cpu"}

FreezeTypeOK ==
  /\ flag \in [pcArmed : BOOLEAN, scanArmed : BOOLEAN, seenLoop : BOOLEAN, armPC : PC \union {NoPC}]
  /\ check \in CheckStates
  /\ pc \in PC
  /\ arg \in PC

FreezeInit ==
  /\ flag = [pcArmed |-> FALSE, scanArmed |-> FALSE, seenLoop |-> FALSE, armPC |-> NoPC]
  /\ check = "idle"
  /\ pc = Zero
  /\ arg = Zero

-----------------------------------------------------------------------------
(* Arming and disarming: the stores each method makes, in its order. *)

Store(f, v) == [op |-> "store", field |-> f, value |-> v]

DisarmScanLoopExit == <<Store("seenLoop", FALSE), Store("scanArmed", FALSE)>>

DisarmPcChange == <<Store("pcArmed", FALSE)>>

ArmScanLoopExit(currentPC) ==
  <<Store("pcArmed", FALSE), Store("seenLoop", FALSE),
    Store("armPC", currentPC), Store("scanArmed", TRUE)>>

(* Mutant of ArmPcChange: arms before it disarms. *)
ArmPcChangeFirst == <<Store("pcArmed", TRUE), Store("seenLoop", FALSE), Store("scanArmed", FALSE)>>

(* disarmScanLoopExit(), then the store. *)
ArmPcChange == <<Store("seenLoop", FALSE), Store("scanArmed", FALSE), Store("pcArmed", TRUE)>>

(* Freezing calls both disarm methods. *)
DisarmBoth == <<Store("pcArmed", FALSE), Store("seenLoop", FALSE), Store("scanArmed", FALSE)>>

(* One atomic store. *)
DoStore(s) == flag' = [flag EXCEPT ![s.field] = s.value]

-----------------------------------------------------------------------------
(* checkStep(pc, stepBoundary), called after every instruction *)

(* The machine executes an instruction and checkStep is called. *)
Step(p) ==
  /\ check = "idle"
  /\ pc' = p
  /\ arg' = p
  /\ check' = "pc"
  /\ UNCHANGED flag

(* if (stepBoundary && m_pcArmed) *)
TestPcArmed ==
  /\ check = "pc"
  /\ check' = IF arg = Dispatch /\ flag.pcArmed THEN "clearPc" ELSE "scan"
  /\ UNCHANGED <<flag, pc, arg>>

(* m_pcArmed = false; return FreezeOwner::Calculator *)
ClearPcArmed ==
  /\ check = "clearPc"
  /\ DoStore(Store("pcArmed", FALSE))
  /\ check' = "Calculator"
  /\ UNCHANGED <<pc, arg>>

(* if (!m_scanArmed) return; if (m_scanLoop.contains(pc)) ... *)
TestScanArmed ==
  /\ check = "scan"
  /\ check' = IF ~flag.scanArmed THEN "idle"
              ELSE IF arg \in ScanLoop THEN "seen" ELSE "leave"
  /\ UNCHANGED <<flag, pc, arg>>

(* m_seenLoop = true; return *)
MarkSeen ==
  /\ check = "seen"
  /\ DoStore(Store("seenLoop", TRUE))
  /\ check' = "idle"
  /\ UNCHANGED <<pc, arg>>

(* if (m_seenLoop || (pc == 0x0000 && m_armPC != 0x0000)) *)
TestLeftLoop ==
  /\ check = "leave"
  /\ check' = IF flag.seenLoop \/ (arg = Zero /\ flag.armPC # Zero) THEN "disarm1" ELSE "idle"
  /\ UNCHANGED <<flag, pc, arg>>

(* disarmScanLoopExit(); return FreezeOwner::Cpu *)
DisarmFired ==
  \/ /\ check = "disarm1"
     /\ DoStore(DisarmScanLoopExit[1])
     /\ check' = "disarm2"
     /\ UNCHANGED <<pc, arg>>
  \/ /\ check = "disarm2"
     /\ DoStore(DisarmScanLoopExit[2])
     /\ check' = "Cpu"
     /\ UNCHANGED <<pc, arg>>

CheckStep ==
  \/ TestPcArmed \/ ClearPcArmed
  \/ TestScanArmed \/ MarkSeen \/ TestLeftLoop \/ DisarmFired

-----------------------------------------------------------------------------
(* "The two are mutually exclusive: arming one disarms the other": at no    *)
(* instant, between any two stores, could both freezes fire.                *)
ArmExclusive == ~(flag.pcArmed /\ flag.scanArmed)
=============================================================================
