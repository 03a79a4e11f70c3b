--------------------------- MODULE EmulatorSession ---------------------------
(***************************************************************************)
(* src/Shared/EmulatorSession.cpp with its run loop and freeze controller: *)
(* the debugger's freeze state and everything that changes it.             *)
(*                                                                         *)
(* Two threads execute straight-line programs of micro-operations          *)
(* (todo["ui"], todo["emu"]): one micro-operation is one atomic store, one *)
(* critical section of m_stateMutex, one queue operation or one posted     *)
(* event, so every interleaving of the code's shared accesses is explored. *)
(* The run loop executes instructions one at a time with checkStep between *)
(* them.  SessionController says which programs the UI thread runs.        *)
(*                                                                         *)
(* SessionController says which of the two threading modes is chosen.      *)
(***************************************************************************)
EXTENDS FreezeController, Naturals

CONSTANTS
  BatchLength,  \* instructions in a batch
  MaxJobs,      \* bound: no UI operation begins while the queue may outgrow this
  MaxGen        \* bound: no UI operation begins once the generation reaches this

ASSUME SessionAssumption ==
  /\ BatchLength \in Nat \ {0}
  /\ MaxJobs \in Nat \ {0}
  /\ MaxGen \in Nat

VARIABLES
  running,   \* EmulationRunner::m_running
  jobs,      \* EmulationRunner::m_jobs
  thread,    \* where the emulation thread is (as in EmulationRunner)
  job,       \* the job it executes, or NoJob
  left,      \* instructions left in the batch
  state,     \* m_state (m_frozen is state.frozen: both are written together)
  tracing,   \* the core's trace flags are on
  events,    \* listener calls that have not reached the UI thread yet
  todo,      \* what each thread has still to do in its current call
  shown      \* the frozen view on screen: its generation, and whether the
             \* machine still stands where it was built

emuVars == <<running, jobs, thread, job, left>>
sessionVars == <<state, tracing, events, todo, shown>>

Owners == {"Cpu", "Calculator"}
Threads == {"ui", "emu"}

Job(kind, gen) == [kind |-> kind, gen |-> gen]
NoJob == Job("none", 0)
StepKinds == {"freeze", "stepKeycode", "stepInstruction"}

Debug(frozen, owner, pcArmed, scanArmed, generation) ==
  [frozen |-> frozen, owner |-> owner, pcChangeArmed |-> pcArmed,
   scanLoopExitArmed |-> scanArmed, generation |-> generation]

-----------------------------------------------------------------------------
(* Programs of micro-operations *)

Op(o) == [op |-> o]
SetFrozen(frozen, owner) == [op |-> "setFrozen", frozen |-> frozen, owner |-> owner]
SetArmed(pcArmed, scanArmed) == [op |-> "setArmed", pcArmed |-> pcArmed, scanArmed |-> scanArmed]
PostStep(kind, gen) == [op |-> "post", job |-> Job(kind, gen)]
SyncOn(body) == [op |-> "sync", job |-> Job(body, 0)]

ApplyTraceFlags == <<Op("applyTraceFlags")>>

(* Mutant of SetFrozenState: the trace flags are computed from the old state. *)
SetFrozenAfterFlags(frozen, owner) ==
  (IF frozen THEN DisarmBoth ELSE <<>>)
    \o ApplyTraceFlags \o <<SetFrozen(frozen, owner)>>

(* setFrozenState(frozen, owner) *)
SetFrozenState(frozen, owner) ==
  (IF frozen THEN DisarmBoth ELSE <<>>)
    \o <<SetFrozen(frozen, owner)>> \o ApplyTraceFlags

(* onFreezeFired(owner), on the emulation thread *)
OnFreezeFired(owner) ==
  SetFrozenState(TRUE, owner)
    \o (IF owner = "Calculator" THEN <<Op("beginNextStep")>> ELSE <<>>)
    \o <<Op("debugStateChanged"), Op("frozenViewReady")>>

Start == <<Op("start")>>
Stop == <<Op("stop")>>

(* Mutant of Freeze: the loop is not stopped. *)
FreezeWithoutStop(owner) == SetFrozenState(TRUE, owner) \o <<Op("postFreeze")>>

(* freeze(owner); "postFreeze" posts the job with the new generation. *)
Freeze(owner) == Stop \o SetFrozenState(TRUE, owner) \o <<Op("postFreeze")>>
FreezeInPlace(owner) == SetFrozenState(TRUE, owner)
(* Mutant of Resume: starts before it unfreezes. *)
ResumeStartsFirst == Start \o SetFrozenState(FALSE, "none")

Resume == SetFrozenState(FALSE, "none") \o Start
ClearFreeze == SetFrozenState(FALSE, "none")

(* armScanLoopExit() reads the machine's PC first. *)
ArmScanLoop == <<Op("readPc")>>
ArmPc == ArmPcChange \o <<SetArmed("TRUE", "FALSE")>> \o ApplyTraceFlags
DisarmScanLoop == DisarmScanLoopExit \o <<SetArmed("keep", "FALSE")>> \o ApplyTraceFlags
DisarmPc == DisarmPcChange \o <<SetArmed("FALSE", "keep")>> \o ApplyTraceFlags

-----------------------------------------------------------------------------
(* Micro-operations.  t is the thread that makes it. *)

Next1(t, o) == todo[t] # <<>> /\ Head(todo[t]).op = o
Done(t) == todo' = [todo EXCEPT ![t] = Tail(@)]
Replace(t, prog) == todo' = [todo EXCEPT ![t] = prog \o Tail(@)]

StoreFlag(t) ==
  /\ Next1(t, "store")
  /\ DoStore(Head(todo[t]))
  /\ Done(t)
  /\ UNCHANGED <<check, pc, arg, emuVars, state, tracing, events, shown>>

(* Mutant of SetFrozenLocked: the generation is read before it is raised. *)
SetFrozenOldGeneration(t) ==
  /\ Next1(t, "setFrozen")
  /\ LET s == Head(todo[t]) IN
       state' = Debug(s.frozen, s.owner,
                      state.pcChangeArmed /\ ~s.frozen, state.scanLoopExitArmed /\ ~s.frozen,
                      state.generation + 1)
  /\ LET stamp(o) == IF o.op = "postFreeze" THEN PostStep("freeze", state.generation)
                     ELSE IF o.op = "frozenViewReady" THEN [op |-> "frozenView", gen |-> state.generation]
                     ELSE o
     IN  todo' = [todo EXCEPT ![t] = [i \in 1..(Len(@) - 1) |-> stamp(@[i + 1])]]
  /\ UNCHANGED <<fcVars, emuVars, tracing, events, shown>>

(* Mutant of SetFrozenLocked: the state still shows a freeze as armed. *)
SetFrozenKeepsArmed(t) ==
  /\ Next1(t, "setFrozen")
  /\ LET s == Head(todo[t]) IN
       state' = [state EXCEPT !.frozen = s.frozen, !.owner = s.owner, !.generation = @ + 1]
  /\ LET stamp(o) == IF o.op = "postFreeze" THEN PostStep("freeze", state.generation + 1)
                     ELSE IF o.op = "frozenViewReady" THEN [op |-> "frozenView", gen |-> state.generation + 1]
                     ELSE o
     IN  todo' = [todo EXCEPT ![t] = [i \in 1..(Len(@) - 1) |-> stamp(@[i + 1])]]
  /\ UNCHANGED <<fcVars, emuVars, tracing, events, shown>>

(* The critical section of setFrozenState. *)
SetFrozenLocked(t) ==
  /\ Next1(t, "setFrozen")
  /\ LET s == Head(todo[t]) IN
       state' = Debug(s.frozen, s.owner,
                      state.pcChangeArmed /\ ~s.frozen, state.scanLoopExitArmed /\ ~s.frozen,
                      state.generation + 1)
  /\ LET stamp(o) == IF o.op = "postFreeze" THEN PostStep("freeze", state.generation + 1)
                     ELSE IF o.op = "frozenViewReady" THEN [op |-> "frozenView", gen |-> state.generation + 1]
                     ELSE o
     IN  todo' = [todo EXCEPT ![t] = [i \in 1..(Len(@) - 1) |-> stamp(@[i + 1])]]
  /\ UNCHANGED <<fcVars, emuVars, tracing, events, shown>>

(* The critical sections of the arm and disarm methods. *)
SetArmedLocked(t) ==
  /\ Next1(t, "setArmed")
  /\ LET value(v, old) == IF v = "keep" THEN old ELSE v = "TRUE"
         s == Head(todo[t])
     IN  state' = [state EXCEPT !.pcChangeArmed = value(s.pcArmed, @),
                                !.scanLoopExitArmed = value(s.scanArmed, @)]
  /\ Done(t)
  /\ UNCHANGED <<fcVars, emuVars, tracing, events, shown>>

(* traceFlagsFor: the consumers this model has are a freeze, shown or armed. *)
TraceWanted(s) == s.frozen \/ s.pcChangeArmed \/ s.scanLoopExitArmed

RefreshTraceFlags(t) ==
  /\ Next1(t, "applyTraceFlags")
  /\ tracing' = TraceWanted(state)
  /\ Done(t)
  /\ UNCHANGED <<fcVars, emuVars, state, events, shown>>

ReadPc(t) ==
  /\ Next1(t, "readPc")
  /\ Replace(t, ArmScanLoopExit(pc) \o <<SetArmed("FALSE", "TRUE")>> \o ApplyTraceFlags)
  /\ UNCHANGED <<fcVars, emuVars, state, tracing, events, shown>>

StopLoop(t) ==
  /\ Next1(t, "stop")
  /\ running' = FALSE
  /\ Done(t)
  /\ UNCHANGED <<fcVars, jobs, thread, job, left, state, tracing, events, shown>>

(* Mutant of StartLoop: queues a second loop behind a running one. *)
StartLoopAlways(t) ==
  /\ Next1(t, "start")
  /\ running' = TRUE
  /\ Replace(t, <<Op("postLoop")>>)
  /\ UNCHANGED <<fcVars, jobs, thread, job, left, state, tracing, events, shown>>

(* EmulationRunner::start: the exchange, then the push. *)
StartLoop(t) ==
  /\ Next1(t, "start")
  /\ running' = TRUE
  /\ Replace(t, IF running THEN <<>> ELSE <<Op("postLoop")>>)
  /\ UNCHANGED <<fcVars, jobs, thread, job, left, state, tracing, events, shown>>

PostLoop(t) ==
  /\ Next1(t, "postLoop")
  /\ jobs' = Append(jobs, Job("loop", 0))
  /\ Done(t)
  /\ UNCHANGED <<fcVars, running, thread, job, left, state, tracing, events, shown>>

PostJob(t) ==
  /\ Next1(t, "post")
  /\ jobs' = Append(jobs, Head(todo[t]).job)
  /\ Done(t)
  /\ UNCHANGED <<fcVars, running, thread, job, left, state, tracing, events, shown>>

(* sync(): post the job and wait; FinishJob takes "await" away. *)
PostSync(t) ==
  /\ Next1(t, "sync")
  /\ jobs' = Append(jobs, Head(todo[t]).job)
  /\ Replace(t, <<Op("await")>>)
  /\ UNCHANGED <<fcVars, running, thread, job, left, state, tracing, events, shown>>

(* stepKeycode(), stepInstruction(): nothing unless frozen. *)
PostStepIfFrozen(t, kind) ==
  /\ Next1(t, kind)
  /\ Replace(t, IF state.frozen THEN <<PostStep(kind, state.generation)>> ELSE <<>>)
  /\ UNCHANGED <<fcVars, emuVars, state, tracing, events, shown>>

(* beginNextStep changes the machine: the view on screen is not of it any more. *)
Moved == shown' = [shown EXCEPT !.current = FALSE]

BeginNextStep(t) ==
  /\ Next1(t, "beginNextStep")
  /\ Moved
  /\ Done(t)
  /\ UNCHANGED <<fcVars, emuVars, state, tracing, events>>

Raise(t) ==
  /\ \/ /\ Next1(t, "debugStateChanged")
        /\ events' = Append(events, Op("debugStateChanged"))
     \/ /\ Next1(t, "frozenView")
        /\ events' = Append(events, Head(todo[t]))
  /\ Done(t)
  /\ UNCHANGED <<fcVars, emuVars, state, tracing, shown>>

MicroOp(t) ==
  \/ StoreFlag(t) \/ SetFrozenLocked(t) \/ SetArmedLocked(t) \/ RefreshTraceFlags(t)
  \/ ReadPc(t) \/ StopLoop(t) \/ StartLoop(t) \/ PostLoop(t) \/ PostJob(t) \/ PostSync(t)
  \/ PostStepIfFrozen(t, "stepKeycode") \/ PostStepIfFrozen(t, "stepInstruction")
  \/ BeginNextStep(t) \/ Raise(t)

-----------------------------------------------------------------------------
(* The emulation thread: EmulationRunner's, with batches of instructions. *)

(* The UI thread is between calls, or blocked in sync(). *)
UiAway == todo["ui"] = <<>> \/ Next1("ui", "await")

TakeJob ==
  /\ thread = "wait"
  /\ jobs # <<>>
  /\ jobs' = Tail(jobs)
  /\ \/ Head(jobs).kind = "loop" /\ thread' = "enter" /\ job' = NoJob
     \/ Head(jobs).kind # "loop" /\ thread' = "job" /\ job' = Head(jobs)
  /\ UNCHANGED <<fcVars, running, left, sessionVars>>

(* The machine part of a job: stepUntilNextKeycode and beginNextStep, the   *)
(* instruction steps, or what sync()'s caller does to the stopped machine.  *)
ExecuteJob ==
  /\ thread = "job"
  /\ pc' \in PC
  /\ Moved
  /\ thread' = "posted"
  /\ UNCHANGED <<flag, check, arg, running, jobs, job, left, state, tracing, events, todo>>

(* Mutant of FinishJob: a CPU step raises no event. *)
FinishJobUnseen ==
  /\ thread = "posted"
  /\ CASE job.kind = "stepInstruction" -> UNCHANGED <<events, todo>>
       [] job.kind \in {"freeze", "stepKeycode"} ->
            events' = Append(events, [op |-> "frozenView", gen |-> job.gen]) /\ UNCHANGED todo
       [] OTHER -> Done("ui") /\ UNCHANGED events
  /\ thread' = "wait"
  /\ job' = NoJob
  /\ UNCHANGED <<fcVars, running, jobs, left, state, tracing, shown>>

(* A step job ends in frozenViewReady with its own generation; sync()'s job *)
(* wakes the caller.                                                        *)
FinishJob ==
  /\ thread = "posted"
  /\ IF job.kind \in StepKinds
     THEN /\ events' = Append(events, [op |-> "frozenView", gen |-> job.gen])
          /\ UNCHANGED todo
     ELSE /\ Done("ui")
          /\ UNCHANGED events
  /\ thread' = "wait"
  /\ job' = NoJob
  /\ UNCHANGED <<fcVars, running, jobs, left, state, tracing, shown>>

(* while (m_running) *)
LoopTest ==
  /\ thread \in {"enter", "top"}
  /\ thread' = IF running THEN "batch" ELSE "wait"
  /\ left' = IF running THEN BatchLength ELSE 0
  /\ UNCHANGED <<fcVars, running, jobs, job, sessionVars>>

(* runBatch: one instruction, then checkStep. *)
Instruction ==
  /\ thread = "batch"
  /\ left > 0
  /\ \E p \in PC : Step(p)
  /\ left' = left - 1
  /\ Moved
  /\ UNCHANGED <<running, jobs, thread, job, state, tracing, events, todo>>

CheckFreeze ==
  /\ thread = "batch"
  /\ CheckStep
  /\ UNCHANGED <<emuVars, sessionVars>>

BatchEnds ==
  /\ thread = "batch"
  /\ left = 0
  /\ check = "idle"
  /\ thread' = "pause"
  /\ UNCHANGED <<fcVars, running, jobs, job, left, sessionVars>>

(* runOneBatch: the freeze stops the loop, then the callback applies it. *)
FreezeFires ==
  /\ thread = "batch"
  /\ check \in Owners
  /\ running' = FALSE
  /\ thread' = "fired"
  /\ todo' = [todo EXCEPT !["emu"] = OnFreezeFired(check)]
  /\ check' = "idle"
  /\ left' = 0
  /\ UNCHANGED <<flag, pc, arg, jobs, job, state, tracing, events, shown>>

LeaveLoop ==
  /\ thread = "fired"
  /\ todo["emu"] = <<>>
  /\ thread' = "wait"
  /\ UNCHANGED <<fcVars, running, jobs, job, left, sessionVars>>

BatchDone ==
  /\ thread = "pause"
  /\ thread' = "top"
  /\ UNCHANGED <<fcVars, running, jobs, job, left, sessionVars>>

EmulationThread ==
  \/ TakeJob \/ ExecuteJob \/ FinishJob
  \/ LoopTest \/ Instruction \/ CheckFreeze \/ BatchEnds
  \/ FreezeFires \/ LeaveLoop \/ BatchDone
  \/ MicroOp("emu")
=============================================================================
