------------------------------- MODULE TraceRing -------------------------------
(***************************************************************************)
(* The trace ring of the TMC0501 (Core/TMC0501.cpp).  A step writes its    *)
(* frame in three parts: tracePreStep() captures the instruction in the    *)
(* head slot before it runs, tracePostStep() gives the frame its number    *)
(* and advances the head, and the next beginNextStep() patches it to the   *)
(* state after the instruction.  The 60 Hz tick drains the ring through    *)
(* the disk cursor, the CPU panel reads it without draining.               *)
(***************************************************************************)
EXTENDS Integers, Sequences

CONSTANTS RingSize,   \* kFrameRingSize: 1024
          DrainSize   \* the drain buffer's frames: 1024

ASSUME RingAssumption ==
  /\ RingSize \in Nat \ {0, 1}
  /\ DrainSize \in Nat

NoFrame == [seqno |-> 0, pc |-> 0, post |-> FALSE]
RingAtStart ==
  [slots |-> [i \in 0..(RingSize - 1) |-> NoFrame], head |-> 0, disk |-> 0]

Slot(n) == n % RingSize

\* beginNextStep() while any trace flag is set: the last frame becomes that
\* of a finished instruction, the head slot that of the pending one.
Patched(r) == IF r.head = 0 THEN r ELSE [r EXCEPT !.slots[Slot(r.head - 1)].post = TRUE]
Captured(r, pc) == [r EXCEPT !.slots[Slot(r.head)] = [@ EXCEPT !.pc = pc, !.post = FALSE]]

\* tracePostStep(): seqno, and the head moves on.
Finished(r) == [r EXCEPT !.slots[Slot(r.head)].seqno = r.head, !.head = @ + 1]

\* drainCpuFrames(): what fell out of the ring is counted lost, then up to
\* DrainSize frames from the cursor on are copied out.
LostBy(r) == IF r.head - r.disk > RingSize THEN r.head - r.disk - RingSize ELSE 0
\* Mutant of Drained: the overwritten frames are skipped only in the count.
DrainedFromCursor(r) ==
  LET n == IF r.head - r.disk < DrainSize THEN r.head - r.disk ELSE DrainSize
  IN [frames |-> [i \in 1..n |-> r.slots[Slot(r.disk + i - 1)]], lost |-> LostBy(r),
      ring |-> [r EXCEPT !.disk = @ + n]]
Drained(r) ==
  LET from == r.disk + LostBy(r)
      n == IF r.head - from < DrainSize THEN r.head - from ELSE DrainSize
  IN [frames |-> [i \in 1..n |-> r.slots[Slot(from + i - 1)]], lost |-> LostBy(r),
      ring |-> [r EXCEPT !.disk = from + n]]

\* readCpuFrames(): the newest frames, at most the ring's size.
ReadFrames(r) ==
  LET n == IF r.head < RingSize THEN r.head ELSE RingSize
  IN [i \in 1..n |-> r.slots[Slot(r.head - n + i - 1)]]
================================================================================
