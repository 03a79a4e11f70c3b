------------------------ MODULE EmulationRunnerProofs ------------------------
(***************************************************************************)
(* Theorems about EmulationRunner, for every set of jobs and every bound   *)
(* on the queue.  RunningHasLoop is not inductive by itself: a sync() job  *)
(* that finished while its caller was between the two stores of start()    *)
(* would end that exception too early.  SyncCallerWaits, proved first,     *)
(* excludes it.                                                            *)
(***************************************************************************)
EXTENDS EmulationRunner, JobQueueProofs

(* Every reachable state of the runner is well typed: the client posts at   *)
(* most MaxJobs jobs, and the thread holds a job exactly while it is        *)
(* executing one.                                                           *)
THEOREM TypeCorrect == Spec => []TypeOK
<1> USE RunnerAssumption DEF RunnerAssumption, Jobs
<1>1. Init => TypeOK
  <2> SUFFICES ASSUME Init PROVE TypeOK
    OBVIOUS
  <2>1. jobs \in Seq(Jobs \union {"loop"}) /\ Len(jobs) = 0
    BY DEF Init
  <2>2. running \in BOOLEAN /\ quit \in BOOLEAN
    BY DEF Init
  <2>3. thread = "wait" /\ job = "none" /\ client = "idle"
    BY DEF Init
  <2> QED
    BY <2>1, <2>2, <2>3 DEF TypeOK, ThreadStates, ClientStates
<1>2. TypeOK /\ [Next]_vars => TypeOK'
  <2> SUFFICES ASSUME TypeOK, [Next]_vars PROVE TypeOK'
    OBVIOUS
  <2> USE DEF TypeOK, ThreadStates, ClientStates
  <2>1. CASE Start           BY <2>1 DEF Start, HasRoom
  <2>2. CASE PostLoop        BY <2>2 DEF PostLoop
  <2>3. CASE Stop            BY <2>3 DEF Stop
  <2>4. CASE Sync            BY <2>4 DEF Sync, HasRoom
  <2>5. ASSUME NEW w \in Work, Post(w) PROVE TypeOK'
                             BY <2>5 DEF Post, HasRoom
  <2>6. CASE Destroy         BY <2>6 DEF Destroy
  <2>7. CASE SetQuit         BY <2>7 DEF SetQuit
  <2>8. CASE Join            BY <2>8 DEF Join
  <2>9. CASE Quit            BY <2>9 DEF Quit
  <2>10. CASE TakeLoop       BY <2>10 DEF TakeLoop
  <2>11. CASE TakeJob        BY <2>11 DEF TakeJob
  <2>12. CASE FinishJob      BY <2>12 DEF FinishJob
  <2>13. CASE LoopTest       BY <2>13 DEF LoopTest
  <2>14. CASE BatchEnds      BY <2>14 DEF BatchEnds
  <2>15. CASE BatchStops     BY <2>15 DEF BatchStops
  <2>16. CASE StoreStopped   BY <2>16 DEF StoreStopped
  <2>17. CASE LeaveLoop      BY <2>17 DEF LeaveLoop
  <2>18. CASE BatchDone      BY <2>18 DEF BatchDone
  <2>19. CASE UNCHANGED vars BY <2>19 DEF vars
  <2> QED
    BY <2>1, <2>2, <2>3, <2>4, <2>5, <2>6, <2>7, <2>8, <2>9, <2>10, <2>11, <2>12,
       <2>13, <2>14, <2>15, <2>16, <2>17, <2>18, <2>19
       DEF Next, Client, Thread
<1> QED
  BY <1>1, <1>2, PTL DEF Spec
-----------------------------------------------------------------------------
(* Pushing a job changes which jobs are queued by that job only.            *)
LEMMA AppendQueued ==
  ASSUME NEW S, NEW q \in Seq(S), NEW x \in S, NEW y
  PROVE  /\ Append(q, x) \in Seq(S)
         /\ Len(Append(q, x)) = Len(q) + 1
         /\ \A i \in 1..Len(Append(q, x)) :
              Append(q, x)[i] = y => \/ i \in 1..Len(q) /\ q[i] = y
                                     \/ i = Len(q) + 1 /\ x = y
<1>1. Append(q, x) \in Seq(S) /\ Len(Append(q, x)) = Len(q) + 1
  OBVIOUS
<1>2. \A i \in 1..Len(q) : Append(q, x)[i] = q[i]
  OBVIOUS
<1>3. Append(q, x)[Len(q) + 1] = x
  OBVIOUS
<1>4. 1..Len(Append(q, x)) = 1..Len(q) \union {Len(q) + 1}
  BY <1>1
<1> QED
  BY <1>1, <1>2, <1>3, <1>4

(* Taking the head leaves every other job queued, one place further on.     *)
LEMMA TailQueued ==
  ASSUME NEW S, NEW q \in Seq(S), q # <<>>
  PROVE  /\ Tail(q) \in Seq(S)
         /\ Len(Tail(q)) = Len(q) - 1
         /\ Head(q) = q[1]
         /\ \A i \in 1..Len(Tail(q)) : i + 1 \in 1..Len(q) /\ Tail(q)[i] = q[i + 1]
  OBVIOUS

(* sync()'s job exists only while its caller is blocked, and only once: the *)
(* references it captured never dangle.                                     *)
THEOREM SyncCallerSafe == Spec => []SyncCallerWaits
<1> USE RunnerAssumption DEF RunnerAssumption, Jobs
<1>1. Init => SyncCallerWaits
  <2> SUFFICES ASSUME Init PROVE SyncCallerWaits
    OBVIOUS
  <2>1. Len(jobs) = 0 /\ job = "none"
    BY DEF Init
  <2> QED
    BY <2>1 DEF SyncCallerWaits, SyncQueued
<1>2. TypeOK /\ SyncCallerWaits /\ [Next]_vars => SyncCallerWaits'
  <2> SUFFICES ASSUME TypeOK, SyncCallerWaits, [Next]_vars PROVE SyncCallerWaits'
    OBVIOUS
  <2> USE DEF TypeOK, SyncCallerWaits, SyncQueued
  <2>1. CASE Start           BY <2>1 DEF Start
  <2>2. CASE PostLoop        BY <2>2, AppendQueued DEF PostLoop
  <2>3. CASE Stop            BY <2>3 DEF Stop
  <2>4. CASE Sync
    <3>1. ~SyncQueued /\ job # SyncJob
      BY <2>4 DEF Sync
    <3> QED
      BY <2>4, <3>1, AppendQueued DEF Sync
  <2>5. ASSUME NEW w \in Work, Post(w) PROVE SyncCallerWaits'
    BY <2>5, AppendQueued DEF Post
  <2>6. CASE Destroy         BY <2>6 DEF Destroy
  <2>7. CASE SetQuit         BY <2>7 DEF SetQuit
  <2>8. CASE Join            BY <2>8 DEF Join
  <2>9. CASE Quit            BY <2>9 DEF Quit
  <2>10. CASE TakeLoop       BY <2>10, TailQueued DEF TakeLoop
  <2>11. CASE TakeJob        BY <2>11, TailQueued DEF TakeJob
  <2>12. CASE FinishJob      BY <2>12 DEF FinishJob
  <2>13. CASE LoopTest       BY <2>13 DEF LoopTest
  <2>14. CASE BatchEnds      BY <2>14 DEF BatchEnds
  <2>15. CASE BatchStops     BY <2>15 DEF BatchStops
  <2>16. CASE StoreStopped   BY <2>16 DEF StoreStopped
  <2>17. CASE LeaveLoop      BY <2>17 DEF LeaveLoop
  <2>18. CASE BatchDone      BY <2>18 DEF BatchDone
  <2>19. CASE UNCHANGED vars BY <2>19 DEF vars
  <2> QED
    BY <2>1, <2>2, <2>3, <2>4, <2>5, <2>6, <2>7, <2>8, <2>9, <2>10, <2>11, <2>12,
       <2>13, <2>14, <2>15, <2>16, <2>17, <2>18, <2>19
       DEF Next, Client, Thread
<1> QED
  BY <1>1, <1>2, TypeCorrect, PTL DEF Spec

-----------------------------------------------------------------------------
(* m_running is never true without a run loop that will honour it, however  *)
(* start() and stop() race with a loop that is about to return.             *)
THEOREM RunningLoopExists == Spec => []RunningHasLoop
<1> USE RunnerAssumption DEF RunnerAssumption, Jobs
<1>1. Init => RunningHasLoop
  BY DEF Init, RunningHasLoop
<1>2. TypeOK /\ SyncCallerWaits /\ RunningHasLoop /\ [Next]_vars => RunningHasLoop'
  <2> SUFFICES ASSUME TypeOK, SyncCallerWaits, RunningHasLoop, [Next]_vars PROVE RunningHasLoop'
    OBVIOUS
  <2> USE DEF TypeOK, RunningHasLoop, LoopAhead, LoopQueued
  <2>1. CASE Start           BY <2>1 DEF Start
  <2>2. CASE PostLoop
    <3>1. jobs'[Len(jobs')] = "loop" /\ Len(jobs') \in 1..Len(jobs')
      BY <2>2 DEF PostLoop
    <3> QED
      BY <3>1
  <2>3. CASE Stop            BY <2>3 DEF Stop
  <2>4. CASE Sync            BY <2>4 DEF Sync
  <2>5. ASSUME NEW w \in Work, Post(w) PROVE RunningHasLoop'
    BY <2>5 DEF Post
  <2>6. CASE Destroy         BY <2>6 DEF Destroy
  <2>7. CASE SetQuit         BY <2>7 DEF SetQuit
  <2>8. CASE Join            BY <2>8 DEF Join
  <2>9. CASE Quit            BY <2>9 DEF Quit
  <2>10. CASE TakeLoop       BY <2>10 DEF TakeLoop
  <2>11. CASE TakeJob
    (* A queued loop is not the head, so it is still queued in the tail. *)
    <3>1. ASSUME NEW i \in 1..Len(jobs), jobs[i] = "loop"
          PROVE  i - 1 \in 1..Len(jobs') /\ jobs'[i - 1] = "loop"
      BY <2>11, <3>1 DEF TakeJob
    <3>2. LoopQueued => LoopQueued'
      BY <3>1
    <3> QED
      BY <2>11, <3>2 DEF TakeJob
  <2>12. CASE FinishJob      BY <2>12 DEF FinishJob, SyncCallerWaits
  <2>13. CASE LoopTest       BY <2>13 DEF LoopTest
  <2>14. CASE BatchEnds      BY <2>14 DEF BatchEnds
  <2>15. CASE BatchStops     BY <2>15 DEF BatchStops
  <2>16. CASE StoreStopped   BY <2>16 DEF StoreStopped
  <2>17. CASE LeaveLoop      BY <2>17 DEF LeaveLoop
  <2>18. CASE BatchDone      BY <2>18 DEF BatchDone
  <2>19. CASE UNCHANGED vars BY <2>19 DEF vars
  <2> QED
    BY <2>1, <2>2, <2>3, <2>4, <2>5, <2>6, <2>7, <2>8, <2>9, <2>10, <2>11, <2>12,
       <2>13, <2>14, <2>15, <2>16, <2>17, <2>18, <2>19
       DEF Next, Client, Thread
<1> QED
  BY <1>1, <1>2, TypeCorrect, SyncCallerSafe, PTL DEF Spec

-----------------------------------------------------------------------------
(* What the refinement needs besides: the thread leaves only when it is told *)
(* to, and whoever destroys the runner has stopped the loop first.           *)
DestroyerStops ==
  /\ quit => client \in {"joining", "gone"}
  /\ client \in {"destroying", "joining", "gone"} => ~running
  /\ thread = "exited" => quit

LEMMA DestroyerStopsFirst == Spec => []DestroyerStops
<1>1. Init => DestroyerStops
  BY DEF Init, DestroyerStops
<1>2. SyncCallerWaits /\ DestroyerStops /\ [Next]_vars => DestroyerStops'
  BY DEF SyncCallerWaits, DestroyerStops, Next, Client, Thread, vars, Start, PostLoop, Stop, Sync, Post,
         Destroy, SetQuit, Join, Quit, TakeLoop, TakeJob, FinishJob, LoopTest, BatchEnds, BatchStops,
         StoreStopped, LeaveLoop, BatchDone
<1> QED
  BY <1>1, <1>2, SyncCallerSafe, PTL DEF Spec

(* The thread, its queue and the run loop are one serial executor: every     *)
(* step of theirs is one of SerialExecutor's, or none.                       *)
THEOREM RunnerIsSerialExecutor == Spec => Executor!Init /\ [][Executor!Next]_(Executor!vars)
<1> USE RunnerAssumption DEF RunnerAssumption, Jobs
<1>1. Init => Executor!Init
  BY PostedEmpty DEF Init, Executor!Init
<1>2. /\ TypeOK /\ SyncCallerWaits /\ DestroyerStops
      /\ [Next]_vars
      => [Executor!Next]_(Executor!vars)
  <2> SUFFICES ASSUME TypeOK, SyncCallerWaits, DestroyerStops, [Next]_vars
               PROVE  [Executor!Next]_(Executor!vars)
    OBVIOUS
  <2> USE DEF Executor!vars
  <2>1. CASE Start
    <3>1. Executor!Want
      BY <2>1 DEF Start, Executor!Want, DestroyerStops
    <3> QED
      BY <3>1 DEF Executor!Next
  <2>2. CASE PostLoop
    <3>1. Posted(jobs') = Posted(jobs)
      BY <2>2, PostedAppend DEF PostLoop, TypeOK
    <3> QED
      BY <2>2, <3>1 DEF PostLoop
  <2>3. CASE Stop
    <3>1. Executor!Unwant
      BY <2>3 DEF Stop, Executor!Unwant
    <3> QED
      BY <3>1 DEF Executor!Next
  <2>4. ASSUME NEW j \in Jobs, jobs' = Append(jobs, j), client = "idle", UNCHANGED <<running, quit, thread, job>>
        PROVE  Executor!Next
    <3>1. Posted(jobs') = Append(Posted(jobs), j)
      BY <2>4, PostedAppend DEF TypeOK
    <3>2. Executor!Submit(j)
      BY <2>4, <3>1 DEF Executor!Submit, DestroyerStops
    <3> QED
      BY <3>2 DEF Executor!Next
  <2>5. CASE Sync
    BY <2>4, <2>5 DEF Sync
  <2>6. ASSUME NEW w \in Work, Post(w) PROVE Executor!Next
    BY <2>4, <2>6 DEF Post
  <2>7. CASE Destroy
    <3>1. Executor!Unwant
      BY <2>7 DEF Destroy, Executor!Unwant
    <3> QED
      BY <3>1 DEF Executor!Next
  <2>8. CASE SetQuit
    <3>1. Executor!Close
      BY <2>8 DEF SetQuit, Executor!Close, DestroyerStops
    <3> QED
      BY <3>1 DEF Executor!Next
  <2>9. CASE Join BY <2>9 DEF Join
  <2>10. CASE Quit BY <2>10 DEF Quit
  <2>11. CASE TakeLoop
    <3>1. Posted(jobs') = Posted(jobs)
      BY <2>11, PostedTail DEF TakeLoop, TypeOK
    <3> QED
      BY <2>11, <3>1 DEF TakeLoop
  <2>12. CASE TakeJob
    <3>1. Posted(jobs) # <<>> /\ Head(Posted(jobs)) = Head(jobs) /\ Tail(Posted(jobs)) = Posted(jobs')
      BY <2>12, PostedTail DEF TakeJob, TypeOK
    <3>2. Executor!BeginJob
      BY <2>12, <3>1 DEF TakeJob, Executor!BeginJob
    <3> QED
      BY <3>2 DEF Executor!Next
  <2>13. CASE FinishJob
    <3>1. Executor!EndJob
      BY <2>13 DEF FinishJob, Executor!EndJob, TypeOK
    <3> QED
      BY <3>1 DEF Executor!Next
  <2>14. CASE LoopTest
    <3>1. CASE thread = "enter" /\ running
      <4>1. Executor!BeginLoop
        BY <2>14, <3>1 DEF LoopTest, Executor!BeginLoop
      <4> QED
        BY <4>1 DEF Executor!Next
    <3>2. CASE thread = "top" /\ ~running
      <4>1. Executor!EndLoop
        BY <2>14, <3>2 DEF LoopTest, Executor!EndLoop
      <4> QED
        BY <4>1 DEF Executor!Next
    <3>3. CASE (thread = "enter" /\ ~running) \/ (thread = "top" /\ running)
      BY <2>14, <3>3 DEF LoopTest
    <3> QED
      BY <2>14, <3>1, <3>2, <3>3 DEF LoopTest
  <2>15. CASE BatchEnds \/ BatchStops \/ BatchDone
    BY <2>15 DEF BatchEnds, BatchStops, BatchDone
  <2>16. CASE StoreStopped
    <3>1. Executor!Interrupt
      BY <2>16 DEF StoreStopped, Executor!Interrupt
    <3> QED
      BY <3>1 DEF Executor!Next
  <2>17. CASE LeaveLoop
    <3>1. Executor!EndWrapup
      BY <2>17 DEF LeaveLoop, Executor!EndWrapup
    <3> QED
      BY <3>1 DEF Executor!Next
  <2>18. CASE UNCHANGED vars BY <2>18 DEF vars
  <2> QED
    BY <2>1, <2>2, <2>3, <2>5, <2>6, <2>7, <2>8, <2>9, <2>10, <2>11, <2>12,
       <2>13, <2>14, <2>15, <2>16, <2>17, <2>18
       DEF Next, Client, Thread
<1> QED
  BY <1>1, <1>2, TypeCorrect, SyncCallerSafe, DestroyerStopsFirst, PTL DEF Spec
=============================================================================
