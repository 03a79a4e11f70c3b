---------------------------- MODULE FreezeArming ----------------------------
(***************************************************************************)
(* FreezeController under its two users: the UI thread, which arms and     *)
(* disarms at any time, and the emulation thread, which executes           *)
(* instructions, checks after each one, and disarms both freezes when one  *)
(* fires (EmulatorSession::setFrozenState).                                *)
(***************************************************************************)
EXTENDS FreezeController, Naturals

VARIABLE todo   \* todo["ui"], todo["emu"]: the stores each thread has still to make

vars == <<flag, check, pc, arg, todo>>

Threads == {"ui", "emu"}
Fields == {"pcArmed", "scanArmed", "seenLoop", "armPC"}
Stores == [op : {"store"}, field : Fields \ {"armPC"}, value : BOOLEAN]
            \union [op : {"store"}, field : {"armPC"}, value : PC]

TypeOK ==
  /\ FreezeTypeOK
  /\ todo \in [Threads -> Seq(Stores)]

Init ==
  /\ FreezeInit
  /\ todo = [t \in Threads |-> <<>>]

(* A thread calls a method of the controller. *)
Call(t, method) ==
  /\ todo[t] = <<>>
  /\ todo' = [todo EXCEPT ![t] = method]

Arm ==
  /\ \/ Call("ui", ArmScanLoopExit(pc))
     \/ Call("ui", ArmPcChange)
  /\ UNCHANGED fcVars

Disarm ==
  /\ \/ Call("ui", DisarmScanLoopExit)
     \/ Call("ui", DisarmPcChange)
     \/ Call("ui", DisarmBoth)
  /\ UNCHANGED fcVars

MakeStore(t) ==
  /\ todo[t] # <<>>
  /\ DoStore(Head(todo[t]))
  /\ todo' = [todo EXCEPT ![t] = Tail(@)]
  /\ UNCHANGED <<check, pc, arg>>

Execute ==
  /\ todo["emu"] = <<>>
  /\ \E p \in PC : Step(p)
  /\ UNCHANGED todo

Check == CheckStep /\ UNCHANGED todo

(* A freeze has fired: setFrozenState disarms both; the loop runs again later. *)
Fired ==
  /\ check \in {"Calculator", "Cpu"}
  /\ Call("emu", DisarmBoth)
  /\ check' = "idle"
  /\ UNCHANGED <<flag, pc, arg>>

Next == Arm \/ Disarm \/ MakeStore("ui") \/ MakeStore("emu") \/ Execute \/ Check \/ Fired

Spec == Init /\ [][Next]_vars

-----------------------------------------------------------------------------
(* Only the UI thread arms, and a store that arms one freeze is preceded,   *)
(* in the same call, by one that disarms the other: what makes ArmExclusive *)
(* inductive.                                                               *)
Arms(t, i) == todo[t][i].field \in {"pcArmed", "scanArmed"} /\ todo[t][i].value = TRUE
Other(f) == IF f = "pcArmed" THEN "scanArmed" ELSE "pcArmed"

DisarmedFirst(i) ==
  \/ ~flag[Other(todo["ui"][i].field)]
  \/ \E k \in 1..(i - 1) : todo["ui"][k] = Store(Other(todo["ui"][i].field), FALSE)

OneArming ==
  /\ \A i \in 1..Len(todo["emu"]) : ~Arms("emu", i)
  /\ \A i \in 1..Len(todo["ui"]) : Arms("ui", i) => i = Len(todo["ui"]) /\ DisarmedFirst(i)

IInv == TypeOK /\ ArmExclusive /\ OneArming
=============================================================================
