--------------------------- MODULE SerialExecutor ---------------------------
(***************************************************************************)
(* What the emulation thread promises its callers (the header comment of   *)
(* src/Shared/EmulationRunner.hpp): one serial executor whose long-running *)
(* job is the run loop.  At any time the machine belongs to nobody, to the *)
(* loop, or to one posted job; posted jobs run once each, in the order     *)
(* they were posted; the loop runs only while it is wanted; and a job      *)
(* waits for as long as the loop is wanted and no longer.                  *)
(*                                                                         *)
(* Both implementations of the code - the thread and the cooperative       *)
(* pump() - are shown to implement this module.                            *)
(***************************************************************************)
EXTENDS Sequences

CONSTANT Job  \* the jobs that can be posted; none is "free", "loop" or "wrapup"

VARIABLES
  wanted,   \* the caller wants the loop to run
  pending,  \* jobs posted and not begun, in the order they were posted
  owner,    \* who may step the machine: "free", "loop", "wrapup" or a job
  closed    \* the executor is being destroyed: what is pending is dropped

vars == <<wanted, pending, owner, closed>>

(* "wrapup": the loop has stopped itself (an armed freeze or a breakpoint) *)
(* and its callback still runs on the machine's behalf.                    *)

Init ==
  /\ wanted = FALSE
  /\ pending = <<>>
  /\ owner = "free"
  /\ closed = FALSE

Want ==
  /\ ~closed
  /\ wanted' = TRUE
  /\ UNCHANGED <<pending, owner, closed>>

Unwant ==
  /\ wanted' = FALSE
  /\ UNCHANGED <<pending, owner, closed>>

Submit(j) ==
  /\ ~closed
  /\ pending' = Append(pending, j)
  /\ UNCHANGED <<wanted, owner, closed>>

(* An executor without a thread of its own ends its loop by being closed. *)
Close ==
  /\ closed' = TRUE
  /\ wanted' = FALSE
  /\ owner' = owner \/ (owner = "loop" /\ owner' = "free")
  /\ UNCHANGED pending

BeginLoop ==
  /\ owner = "free"
  /\ wanted
  /\ owner' = "loop"
  /\ UNCHANGED <<wanted, pending, closed>>

(* The loop notices that it is not wanted any more. *)
EndLoop ==
  /\ owner = "loop"
  /\ ~wanted
  /\ owner' = "free"
  /\ UNCHANGED <<wanted, pending, closed>>

(* The loop stops itself: from here on it is wanted only if the caller asks again. *)
Interrupt ==
  /\ owner = "loop"
  /\ owner' = "wrapup"
  /\ wanted' = FALSE
  /\ UNCHANGED <<pending, closed>>

EndWrapup ==
  /\ owner = "wrapup"
  /\ owner' = "free"
  /\ UNCHANGED <<wanted, pending, closed>>

BeginJob ==
  /\ owner = "free"
  /\ ~closed
  /\ pending # <<>>
  /\ owner' = Head(pending)
  /\ pending' = Tail(pending)
  /\ UNCHANGED <<wanted, closed>>

EndJob ==
  /\ owner \in Job
  /\ owner' = "free"
  /\ UNCHANGED <<wanted, pending, closed>>

Next ==
  \/ Want \/ Unwant \/ Close
  \/ \E j \in Job : Submit(j)
  \/ BeginLoop \/ EndLoop \/ Interrupt \/ EndWrapup
  \/ BeginJob \/ EndJob

(* Once the machine is free, a wanted loop or a pending job takes it. *)
Begin == BeginLoop \/ BeginJob

Fairness ==
  /\ WF_vars(Begin /\ ~closed)
  /\ WF_vars(EndLoop)
  /\ WF_vars(EndWrapup)
  /\ WF_vars(EndJob)

Spec == Init /\ [][Next]_vars /\ Fairness
=============================================================================
