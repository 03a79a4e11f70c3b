-------------------------- MODULE SessionController --------------------------
(***************************************************************************)
(* src/Shared/SessionController.cpp over EmulatorSession: the UI thread's  *)
(* operations on the run loop and the debugger, the events that hop to it  *)
(* from the emulation thread, and the copy of the debug state the panels   *)
(* are drawn from.                                                         *)
(*                                                                         *)
(* An operation is a program of micro-operations; the UI thread begins one *)
(* (a button, a script's control, a reload, a reset) only when the last    *)
(* one has returned, and takes events in between.                          *)
(***************************************************************************)
EXTENDS EmulatorSession

CONSTANTS
  Frontends  \* records [cooperative, calls, maxCalls]: Threading::Cooperative or
             \* Threads, the operations used, and a bound on how many are begun

(* The operations a frontend may call. *)
DebuggerCalls == {"freeze", "resume", "stepKeycode", "stepInstruction"}
Operations == DebuggerCalls \union {"armPcChange", "armScanLoopExit", "disarm", "resetMachine", "cleanReset",
                "applyState", "applyReload", "runAsm", "failedSwitch", "suspend", "resumeAfterSuspend"}

ASSUME ControllerAssumption ==
  \A f \in Frontends : f.cooperative \in BOOLEAN /\ f.calls \subseteq Operations /\ f.maxCalls \in Nat

VARIABLES
  frontend,          \* who uses the controller; never changes
  mirror,            \* m_debugState
  suspendedRunning,  \* m_suspendedRunning
  suspended,         \* between suspend() and resumeAfterSuspend()
  asmFailed,         \* m_asmStatus is "ASM entry failed" and nothing was started since
  calls              \* operations begun so far

controllerVars == <<frontend, mirror, suspendedRunning, suspended, asmFailed, calls>>
vars == <<fcVars, emuVars, sessionVars, controllerVars>>

(* startMachine has built a session and is about to start its loop. *)
Init ==
  /\ frontend \in Frontends
  /\ FreezeInit
  /\ running = FALSE
  /\ jobs = <<>>
  /\ thread = "wait"
  /\ job = NoJob
  /\ left = 0
  /\ state = Debug(FALSE, "none", FALSE, FALSE, 0)
  /\ tracing = FALSE
  /\ events = <<>>
  /\ todo = [ui |-> Start, emu |-> <<>>]
  /\ shown = [generation |-> 0, current |-> FALSE]
  /\ mirror = state
  /\ suspendedRunning = FALSE
  /\ suspended = FALSE
  /\ asmFailed = FALSE
  /\ calls = 0

-----------------------------------------------------------------------------
(* The operations.  pullDebugState ends those that call it. *)

Pull == <<Op("pull")>>

(* Mutant of SoftResetStopped: sync() without stopping the loop. *)
SoftResetRunning == <<SyncOn("softReset")>> \o Start

(* softResetStopped *)
SoftResetStopped == Stop \o <<SyncOn("softReset")>> \o Start

Program(c) ==
  CASE c = "freeze"          -> Freeze("Calculator") \o Pull
    [] c = "resume"          -> Resume \o Pull
    [] c = "armPcChange"     -> ArmPc \o Pull
    [] c = "armScanLoopExit" -> ArmScanLoop \o Pull
    [] c = "disarm"          -> DisarmPc \o Pull \o DisarmScanLoop \o Pull
    [] c = "stepKeycode"     -> <<Op("stepKeycode")>>
    [] c = "stepInstruction" -> <<Op("stepInstruction")>>
    [] c = "resetMachine"    -> Resume \o Pull \o SoftResetStopped
    [] c = "cleanReset"      -> Resume \o Pull \o <<Op("cleanReset")>>
    [] c = "applyState"      -> Stop \o ClearFreeze \o <<SyncOn("applyState")>> \o Start \o Pull
    [] c = "applyReload"     -> <<Op("readFrozen")>>
    [] c = "runAsm"          -> <<Op("readArmed")>>
    [] c = "failedSwitch"    -> Stop \o <<SyncOn("nothing")>> \o <<Op("startUnlessShownFrozen")>>
    [] c = "suspend"         -> <<Op("readRunning")>> \o Stop
    [] c = "resumeAfterSuspend" -> <<Op("startIfSuspendedRunning")>>

(* Mutant of RunAsm: the panels are not told that the freezes are gone. *)
RunAsmUnshown(freezeOnStart) ==
  Stop \o DisarmPc \o DisarmScanLoop \o ClearFreeze \o <<SyncOn("runAsmOverlay")>>
    \o <<[op |-> "entered", freezeOnStart |-> freezeOnStart]>>

(* runAsm after it read whether FREEZE ON START was armed. *)
RunAsm(freezeOnStart) ==
  Stop \o DisarmPc \o DisarmScanLoop \o ClearFreeze \o <<SyncOn("runAsmOverlay")>>
    \o <<[op |-> "entered", freezeOnStart |-> freezeOnStart]>> \o Pull

(* The most jobs one operation queues: reset's two loops and its sync. *)
JobsPerCall == 3

(* freeze() has a guard in both its callers: the button and the script's    *)
(* "Freeze:" need an unfrozen machine (as shown).                           *)
Permitted(c) ==
  /\ c = "freeze" => ~mirror.frozen
  /\ suspended <=> c = "resumeAfterSuspend"

(* A cooperative frontend drains its events after every call and pumps      *)
(* whole batches: its calls and the loop never interleave.                  *)
BetweenPumps == frontend.cooperative => events = <<>> /\ thread \in {"wait", "enter", "top"}

Call(c) ==
  /\ todo["ui"] = <<>>
  /\ BetweenPumps
  /\ Permitted(c)
  /\ calls < frontend.maxCalls
  /\ state.generation < MaxGen
  /\ Len(jobs) + JobsPerCall <= MaxJobs
  /\ calls' = calls + 1
  /\ todo' = [todo EXCEPT !["ui"] = Program(c)]
  /\ UNCHANGED <<fcVars, emuVars, state, tracing, events, shown, frontend, mirror, suspendedRunning, suspended, asmFailed>>

-----------------------------------------------------------------------------
(* The controller's own micro-operations *)

PullDebugState ==
  /\ Next1("ui", "pull")
  /\ mirror' = state
  /\ Done("ui")
  /\ UNCHANGED <<fcVars, emuVars, state, tracing, events, shown, frontend, suspendedRunning, suspended, asmFailed, calls>>

(* cleanResetMachine: cleanReset(machine), with the loop running; between   *)
(* two instructions, as the machine locks itself for each.                  *)
CleanReset ==
  /\ Next1("ui", "cleanReset")
  /\ pc' = Zero
  /\ Moved
  /\ Done("ui")
  /\ UNCHANGED <<flag, check, arg, emuVars, state, tracing, events, controllerVars>>

(* applyReloadStage: the frozen state is read before the loop is stopped. *)
ReadFrozen ==
  /\ Next1("ui", "readFrozen")
  /\ Replace("ui", Stop \o <<SyncOn("applyReload")>> \o (IF state.frozen THEN <<>> ELSE Start))
  /\ UNCHANGED <<fcVars, emuVars, state, tracing, events, shown, controllerVars>>

ReadArmed ==
  /\ Next1("ui", "readArmed")
  /\ Replace("ui", RunAsm(state.scanLoopExitArmed))
  /\ UNCHANGED <<fcVars, emuVars, state, tracing, events, shown, controllerVars>>

(* runAsm after the overlay ran: entered or not.  The view is built on the  *)
(* spot when the machine freezes in place.                                  *)
Entered ==
  /\ Next1("ui", "entered")
  /\ \/ /\ Replace("ui", IF Head(todo["ui"]).freezeOnStart
                         THEN FreezeInPlace("Cpu") \o <<Op("buildView")>> ELSE Start)
        /\ UNCHANGED asmFailed
     \/ /\ Done("ui")
        /\ asmFailed' = TRUE
  /\ UNCHANGED <<fcVars, emuVars, state, tracing, events, shown, frontend, mirror, suspendedRunning, suspended, calls>>

(* startMachine, the ROM could not be read: keep the calculator we had. *)
StartUnlessShownFrozen ==
  /\ Next1("ui", "startUnlessShownFrozen")
  /\ Replace("ui", IF mirror.frozen THEN <<>> ELSE Start)
  /\ UNCHANGED <<fcVars, emuVars, state, tracing, events, shown, controllerVars>>

ReadRunning ==
  /\ Next1("ui", "readRunning")
  /\ suspendedRunning' = running
  /\ suspended' = TRUE
  /\ Done("ui")
  /\ UNCHANGED <<fcVars, emuVars, state, tracing, events, shown, frontend, mirror, asmFailed, calls>>

StartIfSuspendedRunning ==
  /\ Next1("ui", "startIfSuspendedRunning")
  /\ Replace("ui", IF suspendedRunning THEN Start ELSE <<>>)
  /\ suspendedRunning' = FALSE
  /\ suspended' = FALSE
  /\ UNCHANGED <<fcVars, emuVars, state, tracing, events, shown, frontend, mirror, asmFailed, calls>>

-----------------------------------------------------------------------------
(* Events, in the order they were raised *)

TakeEvent ==
  /\ todo["ui"] = <<>>
  /\ ~suspended
  /\ events # <<>>
  /\ events' = Tail(events)
  /\ todo' = [todo EXCEPT !["ui"] =
                Pull \o IF Head(events).op = "frozenView"
                        THEN <<[op |-> "onFrozenView", gen |-> Head(events).gen]>> ELSE <<>>]
  /\ UNCHANGED <<fcVars, emuVars, state, tracing, shown, controllerVars>>

(* onFrozenView: stale views are dropped. *)
OnFrozenView ==
  /\ Next1("ui", "onFrozenView")
  /\ shown' = IF mirror.frozen /\ mirror.generation = Head(todo["ui"]).gen
              THEN [generation |-> mirror.generation, current |-> TRUE] ELSE shown
  /\ Done("ui")
  /\ UNCHANGED <<fcVars, emuVars, state, tracing, events, controllerVars>>

(* runAsm builds its view from the machine it has just frozen. *)
BuildView ==
  /\ Next1("ui", "buildView")
  /\ shown' = [generation |-> state.generation, current |-> TRUE]
  /\ Done("ui")
  /\ UNCHANGED <<fcVars, emuVars, state, tracing, events, controllerVars>>

ControllerOp ==
  \/ PullDebugState \/ CleanReset \/ ReadFrozen \/ ReadArmed \/ Entered
  \/ StartUnlessShownFrozen \/ ReadRunning \/ StartIfSuspendedRunning
  \/ TakeEvent \/ OnFrozenView \/ BuildView

SessionOp ==
  /\ MicroOp("ui")
  /\ asmFailed' = (asmFailed /\ ~Next1("ui", "start"))
  /\ UNCHANGED <<frontend, mirror, suspendedRunning, suspended, calls>>

UiThread == SessionOp \/ ControllerOp

Emulation == (frontend.cooperative => UiAway) /\ EmulationThread /\ UNCHANGED controllerVars

Next == (\E c \in frontend.calls : Call(c)) \/ UiThread \/ Emulation

(* Both threads are scheduled; nobody has to press a button. *)
Fairness == WF_vars(UiThread) /\ WF_vars(Emulation)

Spec == Init /\ [][Next]_vars /\ Fairness
-----------------------------------------------------------------------------
(* Properties *)

(* Nothing is under way: no call, no event, no job, no loop. *)
UiIdle == todo["ui"] = <<>>
Settled == UiIdle /\ events = <<>> /\ todo["emu"] = <<>>
AtRest == Settled /\ jobs = <<>> /\ thread = "wait"

(* The calculator is never left dead: whatever operations race with an      *)
(* armed freeze, a machine that does not run is frozen (RESUME revives it), *)
(* suspended, or stopped by a failed ASM entry the user was told of.        *)
NeverStranded ==
  Settled /\ ~running => state.frozen \/ suspended \/ asmFailed

(* Once the events have been taken the panels show the session's own debug  *)
(* state: no fire, arm, freeze or resume is left unreported.                *)
MirrorCurrent == Settled => mirror = state

(* The trace flags always end up as their consumers want them, although     *)
(* both threads recompute them from state changed by the other.             *)
TraceFlagsCurrent == Settled => tracing = TraceWanted(state)

(* DebugAPI.md: "`frozen` | Emulation is halted".  On two threads it holds  *)
(* while FREEZE, RESUME and STEP are the only operations: a reload that      *)
(* overlaps a firing freeze undoes it (the run frozen_and_running).          *)
Overlapping == ~frontend.cooperative /\ ~(frontend.calls \subseteq DebuggerCalls)
FrozenIsHalted == UiIdle /\ state.frozen => ~running
HaltedWhileFrozen == ~Overlapping => FrozenIsHalted

(* DebugAPI.md: "`pcChangeArmed` | CALCULATOR FREEZE ON START: freeze at    *)
(* the next step boundary" (and its CPU counterpart): a freeze shown as     *)
(* armed is armed in the FreezeController.  On two threads a freeze may      *)
(* fire between the two stores.                                              *)
ArmedAsShown ==
  frontend.cooperative /\ Settled /\ check = "idle" =>
    /\ state.pcChangeArmed => flag.pcArmed
    /\ state.scanLoopExitArmed => flag.scanArmed

(* A frozen machine at rest is the one on screen: it has not moved since    *)
(* its view was built.                                                      *)
ViewCurrent ==
  frontend.calls \subseteq DebuggerCalls /\ AtRest /\ state.frozen
  => shown = [generation |-> state.generation, current |-> TRUE]

(* Every operation returns: sync() always finds the loop leaving, however   *)
(* many stale loop jobs are queued in front of its job.                     *)
CallsReturn == todo["ui"] # <<>> ~> todo["ui"] = <<>>

(* Every freeze that stays is eventually shown. *)
FreezeShown ==
  \A g \in 1..(2 * MaxGen) :
    (state.frozen /\ state.generation = g)
      ~> (shown.generation = g \/ state.generation # g \/ suspended)

(* The run loop and queue of this module are EmulationRunner's, with the    *)
(* bodies of sync()'s jobs and the instructions of a batch left out.        *)
RunnerJob(j) == IF j = NoJob THEN "none" ELSE IF j.kind \in StepKinds \union {"loop"} THEN j.kind ELSE "sync"
RunnerJobs(q) == [i \in 1..Len(q) |-> RunnerJob(q[i])]
RunnerThread == IF thread = "posted" THEN "job"
                ELSE IF thread = "batch" /\ check \in Owners THEN "stopping" ELSE thread
RunnerClient == IF Next1("ui", "postLoop") THEN "starting"
                ELSE IF Next1("ui", "await") THEN "waiting" ELSE "idle"

Runner == INSTANCE EmulationRunner WITH
  Work    <- StepKinds,
  SyncJob <- "sync",
  jobs    <- RunnerJobs(jobs),
  quit    <- FALSE,
  thread  <- RunnerThread,
  job     <- RunnerJob(job),
  client  <- RunnerClient

ImplementsRunner == Runner!Spec
=============================================================================
