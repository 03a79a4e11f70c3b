------------------------------- MODULE JobQueue -------------------------------
(***************************************************************************)
(* The queue both threadings of src/Shared/EmulationRunner.cpp share:      *)
(* m_jobs holds what was posted and, as "loop", the run loop's own jobs.   *)
(***************************************************************************)
EXTENDS Naturals, Sequences

(* The posted jobs of a queue in their order, without the loops. A function *)
(* by recursion on the place, which a proof can reason about by induction.  *)
Posted(queue) ==
  LET kept[n \in 0..Len(queue)] ==
        IF n = 0 THEN <<>>
        ELSE IF queue[n] = "loop" THEN kept[n - 1] ELSE Append(kept[n - 1], queue[n])
  IN kept[Len(queue)]
===============================================================================
