--------------------------- MODULE EmulationRunner ---------------------------
(***************************************************************************)
(* src/Shared/EmulationRunner.cpp, Threading::Threads: a thread that takes *)
(* jobs from a queue, one of which is the run loop itself.  start() stores *)
(* m_running and then queues a runLoop job; stop() only clears m_running,  *)
(* which the loop reads once per batch.  Between the two stores of start(),*)
(* and between the loop's decision to stop and its return, the other       *)
(* thread may do anything: stale runLoop jobs pile up in the queue, an old *)
(* loop picks up a start() meant for a new one.                            *)
(*                                                                         *)
(* One client thread calls the runner (the frontend's UI thread: nothing   *)
(* else in the code calls start, stop, post or sync).  A batch is one step *)
(* here; EmulatorSession refines it to instructions.                       *)
(***************************************************************************)
EXTENDS JobQueue

CONSTANTS
  Work,       \* what the client posts with post()
  SyncJob,    \* the job sync() posts and waits for
  MaxJobs     \* bound: the client posts nothing while this many jobs are queued

ASSUME RunnerAssumption ==
  /\ MaxJobs \in Nat
  /\ SyncJob \notin Work
  /\ {"loop", "free", "wrapup", "none"} \cap (Work \union {SyncJob}) = {}

Jobs == Work \union {SyncJob}

VARIABLES
  running,  \* m_running
  jobs,     \* m_jobs; "loop" is the job that calls runLoop()
  quit,     \* m_quit
  thread,   \* where the emulation thread is
  job,      \* the job it is executing, or "none"
  client    \* where the client thread is

vars == <<running, jobs, quit, thread, job, client>>

(* "wait"     in threadMain, waiting for a job or for quit                 *)
(* "enter"    in runLoop, about to test m_running for the first time       *)
(* "batch"    in runOneBatch                                               *)
(* "stopping" runBatch returned Breakpoint or Freeze; m_running not stored *)
(* "fired"    m_running stored; the freezeFired callback runs              *)
(* "pause"    sleeping out the batch, then batchDone                       *)
(* "top"      about to test m_running again                                *)
(* "job"      executing a posted job                                       *)
(* "exited"   threadMain has returned                                      *)
ThreadStates == {"wait", "enter", "batch", "stopping", "fired", "pause", "top", "job", "exited"}

(* "starting" between m_running.exchange(true) and the push of the loop    *)
(* job; "waiting" in sync(); "destroying" m_running cleared by the         *)
(* destructor; "joining" m_quit set; "gone" destroyed.                     *)
ClientStates == {"idle", "starting", "waiting", "destroying", "joining", "gone"}

TypeOK ==
  /\ running \in BOOLEAN
  /\ jobs \in Seq(Jobs \union {"loop"})
  /\ Len(jobs) <= MaxJobs
  /\ quit \in BOOLEAN
  /\ thread \in ThreadStates
  /\ job \in Jobs \union {"none"}
  /\ client \in ClientStates
  /\ (thread = "job") <=> (job # "none")
  /\ client = "starting" => Len(jobs) < MaxJobs

Init ==
  /\ running = FALSE
  /\ jobs = <<>>
  /\ quit = FALSE
  /\ thread = "wait"
  /\ job = "none"
  /\ client = "idle"

-----------------------------------------------------------------------------
(* The client *)

HasRoom == Len(jobs) < MaxJobs

(* Mutant of Start: no loop job while the old loop has not returned yet. *)
StartReusesLoop ==
  /\ client = "idle"
  /\ HasRoom
  /\ running' = TRUE
  /\ client' = IF running \/ thread # "wait" THEN "idle" ELSE "starting"
  /\ UNCHANGED <<jobs, quit, thread, job>>

(* start(): if (m_running.exchange(true)) return; *)
Start ==
  /\ client = "idle"
  /\ HasRoom
  /\ running' = TRUE
  /\ client' = IF running THEN "idle" ELSE "starting"
  /\ UNCHANGED <<jobs, quit, thread, job>>

(* start(): post([this] { runLoop(); }) *)
PostLoop ==
  /\ client = "starting"
  /\ jobs' = Append(jobs, "loop")
  /\ client' = "idle"
  /\ UNCHANGED <<running, quit, thread, job>>

Stop ==
  /\ client = "idle"
  /\ running' = FALSE
  /\ UNCHANGED <<jobs, quit, thread, job, client>>

Post(w) ==
  /\ client = "idle"
  /\ HasRoom
  /\ jobs' = Append(jobs, w)
  /\ UNCHANGED <<running, quit, thread, job, client>>

Sync ==
  /\ client = "idle"
  /\ HasRoom
  /\ jobs' = Append(jobs, SyncJob)
  /\ client' = "waiting"
  /\ UNCHANGED <<running, quit, thread, job>>

(* ~EmulationRunner: m_running = false; m_quit = true; join. *)
Destroy ==
  /\ client = "idle"
  /\ running' = FALSE
  /\ client' = "destroying"
  /\ UNCHANGED <<jobs, quit, thread, job>>

SetQuit ==
  /\ client = "destroying"
  /\ quit' = TRUE
  /\ client' = "joining"
  /\ UNCHANGED <<running, jobs, thread, job>>

Join ==
  /\ client = "joining"
  /\ thread = "exited"
  /\ client' = "gone"
  /\ UNCHANGED <<running, jobs, quit, thread, job>>

Client ==
  \/ Start \/ PostLoop \/ Stop \/ Sync
  \/ \E w \in Work : Post(w)
  \/ Destroy \/ SetQuit \/ Join

-----------------------------------------------------------------------------
(* The emulation thread *)

(* Mutant of Quit: the thread empties the queue before it ends. *)
QuitWhenEmpty ==
  /\ thread = "wait"
  /\ quit
  /\ jobs = <<>>
  /\ thread' = "exited"
  /\ UNCHANGED <<running, jobs, quit, job, client>>

Quit ==
  /\ thread = "wait"
  /\ quit
  /\ thread' = "exited"
  /\ UNCHANGED <<running, jobs, quit, job, client>>

TakeLoop ==
  /\ thread = "wait"
  /\ ~quit
  /\ jobs # <<>>
  /\ Head(jobs) = "loop"
  /\ jobs' = Tail(jobs)
  /\ thread' = "enter"
  /\ UNCHANGED <<running, quit, job, client>>

(* Mutant of TakeJob: the promise is set when the job is taken. *)
TakeJobWakesCaller ==
  /\ thread = "wait"
  /\ ~quit
  /\ jobs # <<>>
  /\ Head(jobs) # "loop"
  /\ jobs' = Tail(jobs)
  /\ thread' = "job"
  /\ job' = Head(jobs)
  /\ client' = IF Head(jobs) = SyncJob THEN "idle" ELSE client
  /\ UNCHANGED <<running, quit>>

TakeJob ==
  /\ thread = "wait"
  /\ ~quit
  /\ jobs # <<>>
  /\ Head(jobs) # "loop"
  /\ jobs' = Tail(jobs)
  /\ thread' = "job"
  /\ job' = Head(jobs)
  /\ UNCHANGED <<running, quit, client>>

(* Mutant of FinishJob: the finished job is not dropped. *)
FinishJobKeepsIt ==
  /\ thread = "job"
  /\ thread' = "wait"
  /\ client' = IF job = SyncJob THEN "idle" ELSE client
  /\ UNCHANGED <<running, jobs, quit, job>>

(* The job ends; sync()'s also sets the promise its caller waits for. *)
FinishJob ==
  /\ thread = "job"
  /\ thread' = "wait"
  /\ job' = "none"
  /\ client' = IF job = SyncJob THEN "idle" ELSE client
  /\ UNCHANGED <<running, jobs, quit>>

(* while (m_running) *)
LoopTest ==
  /\ thread \in {"enter", "top"}
  /\ thread' = IF running THEN "batch" ELSE "wait"
  /\ UNCHANGED <<running, jobs, quit, job, client>>

(* runBatch used up its cycles. *)
BatchEnds ==
  /\ thread = "batch"
  /\ thread' = "pause"
  /\ UNCHANGED <<running, jobs, quit, job, client>>

(* runBatch returned early: an armed freeze or a breakpoint. *)
BatchStops ==
  /\ thread = "batch"
  /\ thread' = "stopping"
  /\ UNCHANGED <<running, jobs, quit, job, client>>

(* Mutant of StoreStopped: the loop returns without clearing m_running. *)
StoppedNotStored ==
  /\ thread = "stopping"
  /\ thread' = "fired"
  /\ UNCHANGED <<running, jobs, quit, job, client>>

StoreStopped ==
  /\ thread = "stopping"
  /\ running' = FALSE
  /\ thread' = "fired"
  /\ UNCHANGED <<jobs, quit, job, client>>

(* The callback returns and runLoop with it, without batchDone. *)
LeaveLoop ==
  /\ thread = "fired"
  /\ thread' = "wait"
  /\ UNCHANGED <<running, jobs, quit, job, client>>

(* sleep_until, batchDone *)
BatchDone ==
  /\ thread = "pause"
  /\ thread' = "top"
  /\ UNCHANGED <<running, jobs, quit, job, client>>

Thread ==
  \/ Quit \/ TakeLoop \/ TakeJob \/ FinishJob
  \/ LoopTest \/ BatchEnds \/ BatchStops \/ StoreStopped \/ LeaveLoop \/ BatchDone

Next == Client \/ Thread

(* The operating system runs the thread; the client finishes a call it has  *)
(* begun.  Nothing forces the client to make a call, and BatchStops is not  *)
(* more likely than BatchEnds.                                              *)
Fairness ==
  /\ WF_vars(Thread)
  /\ WF_vars(PostLoop)
  /\ WF_vars(SetQuit)
  /\ WF_vars(Join)

Spec == Init /\ [][Next]_vars /\ Fairness

-----------------------------------------------------------------------------
(* Properties *)

(* A call to run() is in the queue, or the thread is in one that will still *)
(* test m_running.                                                          *)
LoopAhead == thread \in {"enter", "batch", "stopping", "pause", "top"}
LoopQueued == \E i \in 1..Len(jobs) : jobs[i] = "loop"

(* m_running is never true without a run loop that will honour it: whatever *)
(* stop() and start() calls race with a loop that is about to return, the   *)
(* machine does not end up "running" with nobody running it (isRunning()    *)
(* and start()'s early return both trust the flag).                         *)
RunningHasLoop ==
  running /\ client # "starting" => LoopAhead \/ LoopQueued

(* The job of sync() points at locals of its caller (the promise and the    *)
(* caller's lambda), so it may exist, queued or executing, only while that  *)
(* caller is blocked in sync(), and only once.                              *)
SyncQueued == \E i \in 1..Len(jobs) : jobs[i] = SyncJob
SyncCallerWaits ==
  /\ job = SyncJob \/ SyncQueued => client = "waiting"
  /\ job = SyncJob => ~SyncQueued
  /\ \A i, k \in 1..Len(jobs) : jobs[i] = SyncJob /\ jobs[k] = SyncJob => i = k

(* The destructor returns: the thread leaves its loop, sees m_quit and ends,*)
(* with jobs still queued or not.                                           *)
DestructorReturns == (client = "destroying") ~> (client = "gone")

(* The promise of SerialExecutor.  A runLoop job that finds m_running false *)
(* does nothing, so queued loops are not part of the promise.               *)
Executor == INSTANCE SerialExecutor WITH
  Job     <- Jobs,
  wanted  <- running,
  pending <- Posted(jobs),
  owner   <- CASE thread = "job" -> job
               [] thread = "fired" -> "wrapup"
               [] thread \in {"batch", "stopping", "pause", "top"} -> "loop"
               [] OTHER -> "free",
  closed  <- quit

(* The thread, its queue and the run loop together are one serial executor. *)
ImplementsExecutor == Executor!Spec
=============================================================================
