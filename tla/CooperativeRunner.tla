-------------------------- MODULE CooperativeRunner --------------------------
(***************************************************************************)
(* src/Shared/EmulationRunner.cpp, Threading::Cooperative (the Web         *)
(* frontend and the tests): no thread, the frontend's own thread calls     *)
(* pump() at 60 Hz, which runs the queued jobs, then the batches that are  *)
(* due, then the jobs that a stopped loop has let through, "in the same    *)
(* order the thread would".  An empty job in the queue stands for the run  *)
(* loop: jobs behind it wait until it has stopped.                         *)
(*                                                                         *)
(* Nothing runs concurrently; the steps below are the pieces of pump() and *)
(* sync() between which the loop, a job or a callback begins or ends.      *)
(***************************************************************************)
EXTENDS JobQueue

CONSTANTS
  Work,     \* what the frontend posts with post()
  SyncJob,  \* the job of sync()
  MaxJobs   \* bound: nothing is posted while this many jobs are queued

ASSUME CooperativeAssumption ==
  /\ MaxJobs \in Nat
  /\ SyncJob \notin Work
  /\ {"loop", "free", "wrapup", "none"} \cap (Work \union {SyncJob}) = {}

Jobs == Work \union {SyncJob}

VARIABLES
  running,  \* m_running
  jobs,     \* m_jobs; "loop" is the empty job that marks the run loop
  where,    \* where the calling thread is
  after,    \* what follows drainJobs(): the batches of pump(), its return, sync()'s job
  job,      \* the job being executed, or "none"
  looping   \* the loop marked by the head of the queue has begun (for Executor only)

vars == <<running, jobs, where, after, job, looping>>

(* "away": not in the runner; "loop": pump() computes loopActive; "gone":   *)
(* destroyed.                                                               *)
Places == {"away", "drain", "loop", "batch", "afterBatch", "fired", "job", "gone"}

TypeOK ==
  /\ running \in BOOLEAN
  /\ jobs \in Seq(Jobs \union {"loop"})
  /\ Len(jobs) <= MaxJobs
  /\ where \in Places
  /\ after \in {"batches", "return", "sync"}
  /\ job \in Jobs \union {"none"}
  /\ looping \in BOOLEAN
  /\ (where = "job") <=> (job # "none")

Init ==
  /\ running = FALSE
  /\ jobs = <<>>
  /\ where = "away"
  /\ after = "return"
  /\ job = "none"
  /\ looping = FALSE

HasRoom == Len(jobs) < MaxJobs
LoopNext == jobs # <<>> /\ Head(jobs) = "loop"

-----------------------------------------------------------------------------
(* The frontend's calls *)

(* start(): exchange, then post(nullptr); nothing comes between them here. *)
Start ==
  /\ where = "away"
  /\ HasRoom
  /\ running' = TRUE
  /\ jobs' = IF running THEN jobs ELSE Append(jobs, "loop")
  /\ UNCHANGED <<where, after, job, looping>>

Stop ==
  /\ where = "away"
  /\ running' = FALSE
  /\ UNCHANGED <<jobs, where, after, job, looping>>

Post(w) ==
  /\ where = "away"
  /\ HasRoom
  /\ jobs' = Append(jobs, w)
  /\ UNCHANGED <<running, where, after, job, looping>>

(* Mutant of Sync: its job overtakes the queue. *)
SyncAtOnce ==
  /\ where = "away"
  /\ ~running
  /\ where' = "job"
  /\ job' = SyncJob
  /\ after' = "return"
  /\ UNCHANGED <<running, jobs, looping>>

(* sync(): every caller has called stop() first. *)
Sync ==
  /\ where = "away"
  /\ ~running
  /\ where' = "drain"
  /\ after' = "sync"
  /\ UNCHANGED <<running, jobs, job, looping>>

Pump ==
  /\ where = "away"
  /\ where' = "drain"
  /\ after' = "batches"
  /\ UNCHANGED <<running, jobs, job, looping>>

Destroy ==
  /\ where = "away"
  /\ running' = FALSE
  /\ where' = "gone"
  /\ looping' = FALSE
  /\ UNCHANGED <<jobs, after, job>>

-----------------------------------------------------------------------------
(* drainJobs() *)

DrainJob ==
  /\ where = "drain"
  /\ jobs # <<>>
  /\ Head(jobs) # "loop"
  /\ jobs' = Tail(jobs)
  /\ job' = Head(jobs)
  /\ where' = "job"
  /\ UNCHANGED <<running, after, looping>>

(* Mutant of DrainStoppedLoop: the loop's mark is popped while it should run. *)
DrainAnyLoop ==
  /\ where = "drain"
  /\ LoopNext
  /\ jobs' = Tail(jobs)
  /\ looping' = FALSE
  /\ UNCHANGED <<running, where, after, job>>

(* if (!m_jobs.front()) { if (m_running) break; m_jobs.pop_front(); } *)
DrainStoppedLoop ==
  /\ where = "drain"
  /\ LoopNext
  /\ ~running
  /\ jobs' = Tail(jobs)
  /\ looping' = FALSE
  /\ UNCHANGED <<running, where, after, job>>

Drained ==
  /\ where = "drain"
  /\ jobs = <<>> \/ (LoopNext /\ running)
  /\ where' = CASE after = "batches" -> "loop"
                [] after = "return"  -> "away"
                [] after = "sync"    -> "job"
  /\ job' = IF after = "sync" THEN SyncJob ELSE "none"
  /\ after' = IF after = "sync" THEN "return" ELSE after
  /\ UNCHANGED <<running, jobs, looping>>

(* Mutant of FinishJob: the finished job is not dropped. *)
FinishJobKeepsIt ==
  /\ where = "job"
  /\ where' = IF job = SyncJob THEN "away" ELSE "drain"
  /\ UNCHANGED <<running, jobs, after, job, looping>>

FinishJob ==
  /\ where = "job"
  /\ where' = IF job = SyncJob THEN "away" ELSE "drain"
  /\ job' = "none"
  /\ UNCHANGED <<running, jobs, after, looping>>

-----------------------------------------------------------------------------
(* pump(), between its two calls of drainJobs() *)

LoopActive ==
  /\ where = "loop"
  /\ running /\ LoopNext
  /\ looping' = TRUE
  /\ where' = "batch"
  /\ UNCHANGED <<running, jobs, after, job>>

LoopInactive ==
  /\ where = "loop"
  /\ ~(running /\ LoopNext)
  /\ where' = "drain"
  /\ after' = "return"
  /\ UNCHANGED <<running, jobs, job, looping>>

(* A batch is due and ends by itself. *)
BatchEnds ==
  /\ where = "batch"
  /\ running
  /\ where' = "afterBatch"
  /\ UNCHANGED <<running, jobs, after, job, looping>>

(* batchDone, afterBatch *)
AfterBatch ==
  /\ where = "afterBatch"
  /\ where' = "batch"
  /\ UNCHANGED <<running, jobs, after, job, looping>>

(* An armed freeze or a breakpoint: m_running = false, then the callback. *)
BatchStops ==
  /\ where = "batch"
  /\ running
  /\ running' = FALSE
  /\ looping' = FALSE
  /\ where' = "fired"
  /\ UNCHANGED <<jobs, after, job>>

(* No batch is due, the full-speed slice is used up, or the loop stopped. *)
BatchesDone ==
  /\ where \in {"batch", "fired"}
  /\ where' = "drain"
  /\ after' = "return"
  /\ UNCHANGED <<running, jobs, job, looping>>

Inside ==
  \/ DrainJob \/ DrainStoppedLoop \/ Drained \/ FinishJob
  \/ LoopActive \/ LoopInactive \/ BatchEnds \/ AfterBatch \/ BatchStops \/ BatchesDone

Next ==
  \/ Start \/ Stop \/ Sync \/ Pump \/ Destroy
  \/ \E w \in Work : Post(w)
  \/ Inside

(* The frontend keeps pumping; a pump does not run batches forever (its     *)
(* deadline passes `now`, or the slice ends).                               *)
Fairness ==
  /\ WF_vars(Pump)
  /\ WF_vars(Inside)
  /\ SF_vars(BatchesDone)

Spec == Init /\ [][Next]_vars /\ Fairness

-----------------------------------------------------------------------------
(* Properties *)

(* A running machine is never pumped in vain: once the jobs in front of it  *)
(* are done, a loop that should run is at the head of the queue, whatever   *)
(* stop()s, start()s and posts preceded.                                    *)
RunningIsPumped == where = "loop" /\ running => LoopNext

(* "in the same order the thread would": the same promise as the thread's.  *)
Executor == INSTANCE SerialExecutor WITH
  Job     <- Jobs,
  wanted  <- running,
  pending <- Posted(jobs) \o (IF after = "sync" THEN <<SyncJob>> ELSE <<>>),
  owner   <- CASE where = "job"   -> job
               [] where = "fired" -> "wrapup"
               [] OTHER           -> IF looping THEN "loop" ELSE "free",
  closed  <- where = "gone"

ImplementsExecutor == Executor!Spec
=============================================================================
