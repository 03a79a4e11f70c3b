----------------------- MODULE CooperativeRunnerProofs -----------------------
(***************************************************************************)
(* RunningIsPumped for every set of jobs and every queue bound.  What      *)
(* makes it inductive: a running machine always has its loop's mark in the *)
(* queue, and pump() looks for it only when the jobs in front are done.    *)
(***************************************************************************)
EXTENDS CooperativeRunner, JobQueueProofs

LoopQueued == \E i \in 1..Len(jobs) : jobs[i] = "loop"

Inv ==
  /\ TypeOK
  /\ running => LoopQueued
  /\ where = "loop" => jobs = <<>> \/ LoopNext

(* What an appended job leaves in the queue.                                *)
LEMMA AppendQueue ==
  ASSUME NEW S, NEW q \in Seq(S), NEW e \in S
  PROVE  /\ Append(q, e) \in Seq(S)
         /\ Len(Append(q, e)) = Len(q) + 1
         /\ Append(q, e)[Len(q) + 1] = e
         /\ \A i \in 1..Len(q) : Append(q, e)[i] = q[i]
  OBVIOUS

(* Taking a job from the front takes nothing else away.                     *)
LEMMA TailQueue ==
  ASSUME NEW S, NEW q \in Seq(S), q # <<>>
  PROVE  /\ Tail(q) \in Seq(S)
         /\ Len(Tail(q)) = Len(q) - 1
         /\ Head(q) = q[1] /\ Head(q) \in S
         /\ \A i \in 1..Len(q) : i = 1 \/ (i - 1 \in 1..Len(Tail(q)) /\ Tail(q)[i - 1] = q[i])
  OBVIOUS

(* The initial state is well typed.                                         *)
LEMMA InitTyped == Init => TypeOK
<1> SUFFICES ASSUME Init PROVE TypeOK
  OBVIOUS
<1>1. jobs \in Seq(Jobs \union {"loop"}) /\ Len(jobs) = 0
  BY DEF Init
<1>2. running \in BOOLEAN /\ looping \in BOOLEAN
  BY DEF Init
<1>3. job = "none" /\ where = "away" /\ after = "return"
  BY DEF Init
<1> QED
  BY <1>1, <1>2, <1>3, CooperativeAssumption DEF CooperativeAssumption, TypeOK, Places

(* Every reachable state of the cooperative runner is well typed.           *)
THEOREM TypeCorrect == Spec => []TypeOK
<1>1. Init => TypeOK
  BY InitTyped
<1>2. TypeOK /\ [Next]_vars => TypeOK'
  <2> SUFFICES ASSUME TypeOK, [Next]_vars PROVE TypeOK'
    OBVIOUS
  <2> USE DEF TypeOK
  <2> "none" \notin Jobs
    BY CooperativeAssumption DEF CooperativeAssumption, Jobs
  <2>1. CASE Start
    BY <2>1, AppendQueue, CooperativeAssumption DEF Start, HasRoom, CooperativeAssumption
  <2>2. CASE Stop BY <2>2 DEF Stop
  <2>3. CASE Sync BY <2>3 DEF Sync, Places
  <2>4. CASE Pump BY <2>4 DEF Pump, Places
  <2>5. CASE Destroy BY <2>5 DEF Destroy, Places
  <2>6. ASSUME NEW w \in Work, Post(w) PROVE TypeOK'
    BY <2>6, AppendQueue, CooperativeAssumption DEF Post, HasRoom, CooperativeAssumption, Jobs
  <2>7. CASE DrainJob
    BY <2>7, TailQueue, CooperativeAssumption DEF DrainJob, Places, CooperativeAssumption
  <2>8. CASE DrainStoppedLoop
    <3>1. jobs' \in Seq(Jobs \union {"loop"}) /\ Len(jobs') <= MaxJobs
      BY <2>8, TailQueue, CooperativeAssumption DEF DrainStoppedLoop, LoopNext, CooperativeAssumption
    <3> QED
      BY <2>8, <3>1 DEF DrainStoppedLoop
  <2>9. CASE Drained BY <2>9 DEF Drained, Places, Jobs
  <2>10. CASE FinishJob BY <2>10 DEF FinishJob, Places
  <2>11. CASE LoopActive \/ LoopInactive BY <2>11 DEF LoopActive, LoopInactive, Places
  <2>12. CASE BatchEnds \/ AfterBatch \/ BatchStops \/ BatchesDone
    BY <2>12 DEF BatchEnds, AfterBatch, BatchStops, BatchesDone, Places
  <2>13. CASE UNCHANGED vars BY <2>13 DEF vars
  <2> QED
    BY <2>1, <2>2, <2>3, <2>4, <2>5, <2>6, <2>7, <2>8, <2>9, <2>10, <2>11, <2>12, <2>13 DEF Next, Inside
<1> QED
  BY <1>1, <1>2, PTL DEF Spec

(* pump() never finds a running machine without its loop at the head of the *)
(* queue.                                                                   *)
THEOREM RunningLoopIsPumped == Spec => []RunningIsPumped
<1>1. Init => Inv
  BY InitTyped DEF Init, Inv
<1>2. TypeOK' /\ Inv /\ [Next]_vars => Inv'
  <2> SUFFICES ASSUME TypeOK', Inv, [Next]_vars
               PROVE  (running => LoopQueued)' /\ (where = "loop" => jobs = <<>> \/ LoopNext)'
    BY DEF Inv
  <2> TypeOK
    BY DEF Inv
  <2>1. ASSUME jobs' = jobs, running' => running
        PROVE  (running => LoopQueued)'
    BY <2>1 DEF Inv, LoopQueued
  <2>2. ASSUME NEW j \in Jobs \union {"loop"}, jobs' = Append(jobs, j), running' => running \/ j = "loop"
        PROVE  (running => LoopQueued)'
    <3>1. jobs \in Seq(Jobs \union {"loop"}) /\ Len(jobs) \in Nat
      BY DEF TypeOK
    <3> QED
      BY <2>2, <3>1, AppendQueue DEF Inv, LoopQueued
  <2>3. CASE Start
    BY <2>1, <2>2, <2>3 DEF Start, Inv
  <2>4. CASE Stop BY <2>4 DEF Stop, Inv
  <2>5. CASE Sync BY <2>1, <2>5 DEF Sync, Inv
  <2>6. CASE Pump BY <2>1, <2>6 DEF Pump, Inv
  <2>7. CASE Destroy BY <2>7 DEF Destroy, Inv
  <2>8. ASSUME NEW w \in Work, Post(w) PROVE (running => LoopQueued)' /\ where' # "loop"
    BY <2>2, <2>8 DEF Post, Jobs
  <2>9. CASE DrainJob
    <3>1. jobs \in Seq(Jobs \union {"loop"}) /\ jobs # <<>> /\ Head(jobs) # "loop" /\ jobs' = Tail(jobs)
          /\ running' = running /\ where' = "job"
      BY <2>9 DEF DrainJob, TypeOK
    <3>2. LoopQueued => LoopQueued'
      <4> SUFFICES ASSUME NEW i \in 1..Len(jobs), jobs[i] = "loop" PROVE LoopQueued'
        BY DEF LoopQueued
      <4>1. i # 1
        BY <3>1, TailQueue
      <4>2. i - 1 \in 1..Len(jobs') /\ jobs'[i - 1] = "loop"
        BY <3>1, <4>1, TailQueue
      <4> QED
        BY <4>2 DEF LoopQueued
    <3> QED
      BY <3>1, <3>2 DEF Inv
  <2>10. CASE DrainStoppedLoop BY <2>10 DEF DrainStoppedLoop, Inv
  <2>11. CASE Drained
    <3>1. jobs' = jobs /\ running' = running /\ (jobs = <<>> \/ LoopNext)
      BY <2>11 DEF Drained
    <3> QED
      BY <2>1, <3>1 DEF LoopNext
  <2>12. CASE FinishJob BY <2>1, <2>12 DEF FinishJob, Inv
  <2>13. CASE LoopActive \/ LoopInactive BY <2>1, <2>13 DEF LoopActive, LoopInactive, Inv
  <2>14. CASE BatchEnds \/ AfterBatch \/ BatchesDone
    BY <2>1, <2>14 DEF BatchEnds, AfterBatch, BatchesDone, Inv
  <2>15. CASE BatchStops BY <2>15 DEF BatchStops, Inv
  <2>16. CASE UNCHANGED vars BY <2>1, <2>16 DEF vars, Inv, LoopNext
  <2> QED
    BY <2>3, <2>4, <2>5, <2>6, <2>7, <2>8, <2>9, <2>10, <2>11, <2>12, <2>13, <2>14, <2>15, <2>16 DEF Next, Inside
<1>3. Inv => RunningIsPumped
  <2> SUFFICES ASSUME Inv, where = "loop", running PROVE LoopNext
    BY DEF RunningIsPumped
  <2>1. jobs # <<>>
    BY DEF Inv, LoopQueued
  <2> QED
    BY <2>1 DEF Inv
<1> QED
  BY <1>1, <1>2, <1>3, TypeCorrect, PTL DEF Spec

(* Taking the first job of a queue that sync()'s job follows.               *)
LEMMA TakeFirst ==
  ASSUME NEW S, NEW q \in Seq(S), q # <<>>, NEW u \in Seq(S)
  PROVE  /\ q \o u # <<>>
         /\ Head(q \o u) = Head(q)
         /\ Tail(q \o u) = Tail(q) \o u
<1>1. /\ q \o u \in Seq(S) /\ Len(q \o u) = Len(q) + Len(u)
      /\ \A i \in 1..(Len(q) + Len(u)) : (q \o u)[i] = IF i <= Len(q) THEN q[i] ELSE u[i - Len(q)]
  BY ConcatProperties
<1>2. Tail(q) \in Seq(S) /\ Len(Tail(q)) = Len(q) - 1 /\ \A i \in 1..Len(Tail(q)) : Tail(q)[i] = q[i + 1]
  OBVIOUS
<1>3. /\ Tail(q) \o u \in Seq(S) /\ Len(Tail(q) \o u) = Len(Tail(q)) + Len(u)
      /\ \A i \in 1..(Len(Tail(q)) + Len(u)) :
           (Tail(q) \o u)[i] = IF i <= Len(Tail(q)) THEN Tail(q)[i] ELSE u[i - Len(Tail(q))]
  BY <1>2, ConcatProperties
<1>4. q \o u # <<>> /\ Head(q \o u) = Head(q)
  BY <1>1
<1>5. /\ Tail(q \o u) \in Seq(S) /\ Len(Tail(q \o u)) = Len(q \o u) - 1
      /\ \A i \in 1..Len(Tail(q \o u)) : Tail(q \o u)[i] = (q \o u)[i + 1]
  BY <1>1, <1>4
<1>6. Tail(q \o u) = Tail(q) \o u
  <2>1. Len(Tail(q \o u)) = Len(Tail(q) \o u)
    BY <1>1, <1>2, <1>3, <1>5
  <2>2. ASSUME NEW i \in 1..Len(Tail(q \o u)) PROVE Tail(q \o u)[i] = (Tail(q) \o u)[i]
    BY <1>1, <1>2, <1>3, <1>5, <2>1
  <2> QED
    BY <1>3, <1>5, <2>1, <2>2, SeqEqual
<1> QED
  BY <1>4, <1>6

(* sync()'s job alone. *)
LEMMA OneSync ==
  ASSUME NEW x
  PROVE  /\ <<>> \o <<x>> # <<>>
         /\ Head(<<>> \o <<x>>) = x
         /\ Tail(<<>> \o <<x>>) = <<>> \o <<>>
  OBVIOUS

-----------------------------------------------------------------------------
(* What the refinement needs besides: only posted work is queued, the loop   *)
(* has begun only if its mark is at the head, and sync() is called for a     *)
(* machine that is stopped.                                                  *)
QueueInv ==
  /\ jobs \in Seq(Work \union {"loop"})
  /\ looping => LoopNext
  /\ where \in {"job", "fired", "gone"} => ~looping
  /\ where \in {"batch", "afterBatch"} => looping
  /\ after = "sync" => ~running /\ (where = "drain" \/ (where = "job" /\ job \in Work))
  /\ where = "gone" => ~running

LEMMA QueueInvHolds == Spec => []QueueInv
<1> USE CooperativeAssumption DEF CooperativeAssumption
<1>1. Init => QueueInv
  <2> SUFFICES ASSUME Init PROVE QueueInv
    OBVIOUS
  <2>1. jobs \in Seq(Work \union {"loop"})
    BY DEF Init
  <2> QED
    BY <2>1 DEF Init, QueueInv
<1>2. TypeOK /\ QueueInv /\ [Next]_vars => QueueInv'
  <2> SUFFICES ASSUME TypeOK, QueueInv, [Next]_vars PROVE QueueInv'
    OBVIOUS
  <2> USE DEF QueueInv, LoopNext
  <2>1. ASSUME NEW j \in Work \union {"loop"}, jobs' = Append(jobs, j)
        PROVE  jobs' \in Seq(Work \union {"loop"}) /\ (LoopNext => LoopNext')
    BY <2>1
  <2>2. CASE Start
    BY <2>1, <2>2 DEF Start
  <2>3. CASE Stop BY <2>3 DEF Stop
  <2>4. CASE Sync BY <2>4 DEF Sync
  <2>5. CASE Pump BY <2>5 DEF Pump
  <2>6. CASE Destroy BY <2>6 DEF Destroy
  <2>7. ASSUME NEW w \in Work, Post(w) PROVE QueueInv'
    BY <2>1, <2>7 DEF Post
  <2>8. CASE DrainJob
    <3>1. jobs' \in Seq(Work \union {"loop"}) /\ Head(jobs) \in Work
      BY <2>8, TailQueue DEF DrainJob
    <3>2. ~looping
      BY <2>8 DEF DrainJob
    <3> QED
      BY <2>8, <3>1, <3>2 DEF DrainJob
  <2>9. CASE DrainStoppedLoop
    <3>1. jobs' \in Seq(Work \union {"loop"})
      BY <2>9, TailQueue DEF DrainStoppedLoop
    <3> QED
      BY <2>9, <3>1 DEF DrainStoppedLoop
  <2>10. CASE Drained
    <3>1. after' # "sync" /\ jobs' = jobs /\ running' = running /\ looping' = looping
      BY <2>10 DEF Drained
    <3>2. where' = "job" /\ after = "sync" => ~looping
      BY <2>10 DEF Drained
    <3>3. where' \in {"loop", "away", "job"} /\ (where' = "job" => after = "sync")
      BY <2>10 DEF Drained, TypeOK
    <3> QED
      BY <3>1, <3>2, <3>3
  <2>11. CASE FinishJob BY <2>11 DEF FinishJob, TypeOK
  <2>12. CASE LoopActive \/ LoopInactive BY <2>12 DEF LoopActive, LoopInactive
  <2>13. CASE BatchEnds \/ AfterBatch \/ BatchStops \/ BatchesDone
    BY <2>13 DEF BatchEnds, AfterBatch, BatchStops, BatchesDone
  <2>14. CASE UNCHANGED vars BY <2>14 DEF vars
  <2> QED
    BY <2>2, <2>3, <2>4, <2>5, <2>6, <2>7, <2>8, <2>9, <2>10, <2>11, <2>12, <2>13, <2>14 DEF Next, Inside
<1> QED
  BY <1>1, <1>2, TypeCorrect, PTL DEF Spec

(* pump(), sync() and the queue are one serial executor, with the caller's   *)
(* thread for the executor's: posted jobs run once each and in order, and    *)
(* the loop runs between them and only while it is wanted.                   *)
THEOREM PumpIsSerialExecutor == Spec => Executor!Init /\ [][Executor!Next]_(Executor!vars)
<1> USE CooperativeAssumption DEF CooperativeAssumption, Jobs
<1>1. Init => Executor!Init
  <2> SUFFICES ASSUME Init PROVE Executor!Init
    OBVIOUS
  <2>1. Posted(jobs) = <<>> /\ <<>> \o <<>> = <<>>
    BY PostedEmpty DEF Init
  <2> QED
    BY <2>1 DEF Init, Executor!Init
<1>2. /\ TypeOK /\ QueueInv /\ QueueInv'
      /\ [Next]_vars
      => [Executor!Next]_(Executor!vars)
  <2> SUFFICES ASSUME TypeOK, QueueInv, QueueInv', [Next]_vars
               PROVE  [Executor!Next]_(Executor!vars)
    OBVIOUS
  <2> DEFINE syncing == IF after = "sync" THEN <<SyncJob>> ELSE <<>>
  <2>0. /\ Posted(jobs) \in Seq(Work) /\ Posted(jobs') \in Seq(Work)
        /\ Posted(jobs) \o <<>> = Posted(jobs) /\ Posted(jobs') \o <<>> = Posted(jobs')
    <3>1. /\ Posted(jobs) \in Seq((Work \union {"loop"}) \ {"loop"})
          /\ Posted(jobs') \in Seq((Work \union {"loop"}) \ {"loop"})
      BY PostedType DEF QueueInv
    <3>2. (Work \union {"loop"}) \ {"loop"} = Work
      OBVIOUS
    <3> QED
      BY <3>1, <3>2, ConcatEmptySeq
  <2> USE DEF Executor!vars
  <2>1. CASE Start
    <3>1. Posted(jobs') = Posted(jobs)
      BY <2>1, PostedAppend DEF Start, QueueInv
    <3>2. Executor!Want
      BY <2>1, <3>1 DEF Start, Executor!Want, QueueInv
    <3> QED
      BY <3>2 DEF Executor!Next
  <2>2. CASE Stop
    <3>1. Executor!Unwant
      BY <2>2 DEF Stop, Executor!Unwant
    <3> QED
      BY <3>1 DEF Executor!Next
  <2>3. CASE Sync
    <3>1. Posted(jobs) \o <<SyncJob>> = Append(Posted(jobs) \o <<>>, SyncJob)
      <4>1. Posted(jobs) \in Seq(Jobs)
        BY <2>0
      <4> QED
        BY <2>0, <4>1, AppendIsConcat
    <3>2. Executor!Submit(SyncJob)
      BY <2>3, <3>1 DEF Sync, Executor!Submit, QueueInv
    <3> QED
      BY <3>2 DEF Executor!Next
  <2>4. CASE Pump
    BY <2>4 DEF Pump, QueueInv
  <2>5. CASE Destroy
    <3>1. Executor!Close
      BY <2>5 DEF Destroy, Executor!Close, QueueInv
    <3> QED
      BY <3>1 DEF Executor!Next
  <2>6. ASSUME NEW w \in Work, Post(w) PROVE Executor!Next
    <3>1. Posted(jobs') = Append(Posted(jobs), w)
      BY <2>6, PostedAppend DEF Post, QueueInv
    <3>2. Executor!Submit(w)
      BY <2>6, <2>0, <3>1 DEF Post, Executor!Submit, QueueInv
    <3> QED
      BY <3>2 DEF Executor!Next
  <2>7. CASE DrainJob
    <3>1. Posted(jobs) # <<>> /\ Head(Posted(jobs)) = Head(jobs) /\ Tail(Posted(jobs)) = Posted(jobs')
      BY <2>7, PostedTail DEF DrainJob, QueueInv
    <3>2. syncing \in Seq(Jobs) /\ Posted(jobs) \in Seq(Jobs)
      <4>1. SyncJob \in Jobs
        OBVIOUS
      <4>2. <<SyncJob>> \in Seq(Jobs) /\ <<>> \in Seq(Jobs)
        BY <4>1
      <4>3. Posted(jobs) \in Seq(Jobs)
        BY <2>0
      <4>4. syncing \in Seq(Jobs)
        BY <4>2
      <4> QED
        BY <4>3, <4>4
    <3> HIDE DEF syncing
    <3>3. /\ Posted(jobs) \o syncing # <<>>
          /\ Head(Posted(jobs) \o syncing) = Head(jobs)
          /\ Tail(Posted(jobs) \o syncing) = Posted(jobs') \o syncing
      BY <3>1, <3>2, TakeFirst
    <3>4. Executor!BeginJob
      BY <2>7, <3>3 DEF DrainJob, Executor!BeginJob, QueueInv, LoopNext, syncing
    <3> QED
      BY <3>4 DEF Executor!Next
  <2>8. CASE DrainStoppedLoop
    <3>1. Posted(jobs') = Posted(jobs)
      BY <2>8, PostedTail DEF DrainStoppedLoop, LoopNext, QueueInv
    <3>2. CASE looping
      <4>1. Executor!EndLoop
        BY <2>8, <3>1, <3>2 DEF DrainStoppedLoop, Executor!EndLoop
      <4> QED
        BY <4>1 DEF Executor!Next
    <3>3. CASE ~looping
      BY <2>8, <3>1, <3>3 DEF DrainStoppedLoop, TypeOK
    <3> QED
      BY <3>2, <3>3
  <2>9. CASE Drained
    <3>1. CASE after = "sync"
      <4>1. jobs = <<>> /\ ~looping
        BY <2>9, <3>1 DEF Drained, QueueInv, LoopNext
      <4>2. Posted(jobs) = <<>>
        BY <4>1, PostedEmpty
      <4>3. Executor!BeginJob
        BY <2>9, <3>1, <4>1, <4>2, OneSync DEF Drained, Executor!BeginJob
      <4> QED
        BY <4>3 DEF Executor!Next
    <3>2. CASE after # "sync"
      BY <2>9, <3>2 DEF Drained, TypeOK
    <3> QED
      BY <3>1, <3>2
  <2>10. CASE FinishJob
    <3>1. Executor!EndJob
      BY <2>10 DEF FinishJob, Executor!EndJob, TypeOK, QueueInv
    <3> QED
      BY <3>1 DEF Executor!Next
  <2>11. CASE LoopActive
    <3>1. CASE looping
      BY <2>11, <3>1 DEF LoopActive
    <3>2. CASE ~looping
      <4>1. Executor!BeginLoop
        BY <2>11, <3>2 DEF LoopActive, Executor!BeginLoop
      <4> QED
        BY <4>1 DEF Executor!Next
    <3> QED
      BY <3>1, <3>2
  <2>12. CASE LoopInactive
    BY <2>12 DEF LoopInactive, QueueInv
  <2>13. CASE BatchEnds \/ AfterBatch
    BY <2>13 DEF BatchEnds, AfterBatch
  <2>14. CASE BatchStops
    <3>1. Executor!Interrupt
      BY <2>14 DEF BatchStops, Executor!Interrupt, QueueInv
    <3> QED
      BY <3>1 DEF Executor!Next
  <2>15. CASE BatchesDone
    <3>1. CASE where = "batch"
      BY <2>15, <3>1 DEF BatchesDone, QueueInv
    <3>2. CASE where = "fired"
      <4>1. Executor!EndWrapup
        BY <2>15, <3>2 DEF BatchesDone, Executor!EndWrapup, QueueInv
      <4> QED
        BY <4>1 DEF Executor!Next
    <3> QED
      BY <2>15, <3>1, <3>2 DEF BatchesDone
  <2>16. CASE UNCHANGED vars BY <2>16 DEF vars
  <2> QED
    BY <2>1, <2>2, <2>3, <2>4, <2>5, <2>6, <2>7, <2>8, <2>9, <2>10, <2>11, <2>12,
       <2>13, <2>14, <2>15, <2>16 DEF Next, Inside
<1> QED
  BY <1>1, <1>2, TypeCorrect, QueueInvHolds, PTL DEF Spec
=============================================================================
