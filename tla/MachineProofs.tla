----------------------------- MODULE MachineProofs -----------------------------
(***************************************************************************)
(* Proofs about the machine and the desk it stands on (Desk), for every    *)
(* ROM, library, preset, card and folder a lab may have, every instruction *)
(* sequence and any number of calls.  The trace ring comes first; then,    *)
(* from one instruction to all of the UI thread's calls, the inductive     *)
(* invariant DeskInv, and what follows from it: the lines of the switches  *)
(* (PhysicalLines), the paper (PaperAligned), the pass of a card in the    *)
(* reader (NoOrphanCard) and the cue card on show (CueShown); last, that   *)
(* the debugger's look at the machine changes no step (PeekInvisible).     *)
(*                                                                         *)
(* Two forms recur.  Same(c, d): d is c but for fields the invariants do   *)
(* not read.  Held(c, d): if c is Sound then so is d, with the library,    *)
(* the switches of the printer and the numbers of its lines that c has,    *)
(* and no card that c had not.  An instruction, a loop of them and a write *)
(* into the memory are Held whatever they do; what is not Held - a reset,  *)
(* a card put in or taken out, a switch, a drained line - has a lemma of   *)
(* its own that says what becomes of these parts.                          *)
(***************************************************************************)
EXTENDS Desk, JobQueueProofs

(***************************************************************************)
(* The trace ring: what it holds and what a drain tells, for every size of *)
(* the ring and of the drain buffer and however far the cursor has fallen  *)
(* behind.  pcs[n] stands for the PC that instruction n was captured with. *)
(***************************************************************************)
RingFrame == [seqno : Nat, pc : Int, post : BOOLEAN]
Ring == [slots : [0..(RingSize - 1) -> RingFrame], head : Nat, disk : Nat]

\* The frames still in the ring are those of the numbers from here on.
Oldest(r) == IF r.head > RingSize THEN r.head - RingSize ELSE 0

(***************************************************************************)
(* A slot holds the frame of its number.  The slot at the head is written  *)
(* while an instruction is pending: the oldest frame, if it is there, may  *)
(* have lost its PC, and then says that it is not finished.                *)
(***************************************************************************)
Numbered(r) == \A n \in Oldest(r)..(r.head - 1) : r.slots[Slot(n)].seqno = n
Truthful(r, pcs) ==
  \A n \in Oldest(r)..(r.head - 1) :
    n + RingSize > r.head \/ r.slots[Slot(n)].post => r.slots[Slot(n)].pc = pcs[n]
RingHolds(r, pcs) ==
  /\ r \in Ring
  /\ r.disk <= r.head
  /\ Numbered(r)
  /\ Truthful(r, pcs)

\* Frames that are numbered without a gap from a number on.
Consecutive(frames, from, pcs) ==
  \A i \in DOMAIN frames :
    /\ frames[i].seqno = from + i - 1
    /\ frames[i].post => frames[i].pc = pcs[from + i - 1]

-----------------------------------------------------------------------------
(* A slot is a place of the ring.                                            *)
LEMMA SlotInRing == \A n \in Nat : Slot(n) \in 0..(RingSize - 1)
  BY RingAssumption DEF RingAssumption, Slot

LEMMA Division ==
  ASSUME NEW a \in Nat, NEW N \in Nat \ {0}
  PROVE  a = (N * (a \div N)) + (a % N) /\ a \div N \in Nat
  OBVIOUS

(* Two numbers less than the ring's size apart never share a slot.           *)
LEMMA SlotsDiffer ==
  ASSUME NEW a \in Nat, NEW b \in Nat, b < a, a - b < RingSize
  PROVE  Slot(a) # Slot(b)
<1> USE RingAssumption DEF RingAssumption, Slot
<1> DEFINE p == a \div RingSize
           q == b \div RingSize
<1>1. /\ a = (RingSize * p) + (a % RingSize) /\ p \in Nat
      /\ b = (RingSize * q) + (b % RingSize) /\ q \in Nat
  BY Division
<1>2. a % RingSize \in 0..(RingSize - 1) /\ b % RingSize \in 0..(RingSize - 1)
  OBVIOUS
<1> HIDE DEF p, q
<1> SUFFICES ASSUME a % RingSize = b % RingSize PROVE FALSE
  OBVIOUS
<1>3. a - b = RingSize * (p - q)
  BY <1>1, <1>2
<1>4. CASE p <= q
  <2>1. RingSize * (p - q) <= 0
    BY <1>1, <1>4
  <2> QED
    BY <1>3, <2>1
<1>5. CASE p > q
  <2>1. RingSize * (p - q) >= RingSize
    BY <1>1, <1>5
  <2> QED
    BY <1>3, <2>1
<1> QED
  BY <1>1, <1>4, <1>5

(* The ring comes round to the same slot after RingSize frames.              *)
LEMMA SlotComesRound ==
  ASSUME NEW a \in Nat
  PROVE  Slot(a + RingSize) = Slot(a)
<1> DEFINE b == a + RingSize
           p == a \div RingSize
           q == b \div RingSize
           x == a % RingSize
           y == b % RingSize
<1>1. RingSize \in Nat \ {0} /\ b \in Nat
  BY RingAssumption DEF RingAssumption
<1>2. /\ a = (RingSize * p) + x /\ p \in Nat
      /\ b = (RingSize * q) + y /\ q \in Nat
  BY <1>1, Division
<1>3. x \in 0..(RingSize - 1) /\ y \in 0..(RingSize - 1)
  BY <1>1
<1>4. b = a + RingSize
  OBVIOUS
<1>5. x = Slot(a) /\ y = Slot(a + RingSize)
  BY DEF Slot
<1> HIDE DEF b, p, q, x, y
<1>6. RingSize = (RingSize * (q - p)) + (y - x)
  <2>1. RingSize * (q - p) = (RingSize * q) - (RingSize * p)
    BY <1>1, <1>2
  <2> QED
    BY <1>1, <1>2, <1>3, <1>4, <2>1
<1>7. CASE q <= p
  <2>1. RingSize * (q - p) <= 0
    BY <1>1, <1>2, <1>7
  <2> QED
    BY <1>1, <1>2, <1>3, <1>6, <2>1
<1>8. CASE q >= p + 2
  <2>1. RingSize * (q - p) >= RingSize * 2
    BY <1>1, <1>2, <1>8
  <2> QED
    BY <1>1, <1>2, <1>3, <1>6, <2>1
<1>9. CASE q = p + 1
  <2>1. RingSize * (q - p) = RingSize
    BY <1>1, <1>2, <1>9
  <2>2. x = y
    BY <1>1, <1>3, <1>6, <2>1
  <2> QED
    BY <1>5, <2>2
<1> QED
  BY <1>2, <1>7, <1>8, <1>9

(* Only the oldest frame of a full ring lies in the slot at the head.        *)
LEMMA HeadSlot ==
  ASSUME NEW r \in Ring, NEW n \in Oldest(r)..(r.head - 1), n + RingSize > r.head
  PROVE  Slot(n) # Slot(r.head)
<1>1. n \in Nat /\ r.head \in Nat /\ n < r.head /\ r.head - n < RingSize
  BY RingAssumption DEF RingAssumption, Ring, Oldest
<1> QED
  BY <1>1, SlotsDiffer

-----------------------------------------------------------------------------
(* The ring of a machine that has traced nothing.                            *)
THEOREM RingHoldsAtStart == ASSUME NEW pcs PROVE RingHolds(RingAtStart, pcs)
<1> USE RingAssumption DEF RingAssumption
<1>1. NoFrame \in RingFrame
  BY DEF NoFrame, RingFrame
<1>2. RingAtStart \in Ring
  BY <1>1 DEF RingAtStart, Ring
<1>3. RingAtStart.head = 0 /\ RingAtStart.disk = 0
  BY DEF RingAtStart
<1> QED
  BY <1>2, <1>3 DEF RingHolds, Numbered, Truthful, Oldest

(* beginNextStep() marks the last frame as that of a finished instruction.   *)
LEMMA PatchOnlyFinishes ==
  ASSUME NEW r \in Ring
  PROVE  /\ Patched(r) \in Ring
         /\ Patched(r).head = r.head
         /\ Patched(r).disk = r.disk
         /\ \A n \in Nat : /\ Patched(r).slots[Slot(n)].seqno = r.slots[Slot(n)].seqno
                           /\ Patched(r).slots[Slot(n)].pc = r.slots[Slot(n)].pc
<1>1. CASE r.head = 0
  BY <1>1 DEF Patched
<1>2. CASE r.head # 0
  <2> DEFINE s == Slot(r.head - 1)
             frame == [r.slots[s] EXCEPT !.post = TRUE]
  <2>1. s \in 0..(RingSize - 1)
    BY <1>2, SlotInRing DEF Ring
  <2>2. frame \in RingFrame /\ frame.seqno = r.slots[s].seqno /\ frame.pc = r.slots[s].pc
    BY <2>1 DEF Ring, RingFrame
  <2>3. Patched(r) = [r EXCEPT !.slots = [r.slots EXCEPT ![s] = frame]]
    BY <1>2 DEF Patched, Ring, RingFrame
  <2> HIDE DEF s, frame
  <2> QED
    BY <2>1, <2>2, <2>3, SlotInRing DEF Ring
<1> QED
  BY <1>1, <1>2

(* The capture writes the slot at the head and no other.                     *)
LEMMA CaptureWritesHead ==
  ASSUME NEW r \in Ring, NEW pc \in Int
  PROVE  /\ Captured(r, pc) \in Ring
         /\ Captured(r, pc).head = r.head
         /\ Captured(r, pc).disk = r.disk
         /\ Captured(r, pc).slots[Slot(r.head)].seqno = r.slots[Slot(r.head)].seqno
         /\ Captured(r, pc).slots[Slot(r.head)].post = FALSE
         /\ \A n \in Nat : Slot(n) # Slot(r.head) => Captured(r, pc).slots[Slot(n)] = r.slots[Slot(n)]
<1> DEFINE s == Slot(r.head)
           frame == [r.slots[s] EXCEPT !.pc = pc, !.post = FALSE]
<1>1. s \in 0..(RingSize - 1)
  BY SlotInRing DEF Ring
<1>2. frame \in RingFrame /\ frame.seqno = r.slots[s].seqno /\ frame.post = FALSE
  BY <1>1 DEF Ring, RingFrame
<1>3. Captured(r, pc) = [r EXCEPT !.slots = [r.slots EXCEPT ![s] = frame]]
  BY DEF Captured, Ring, RingFrame
<1> HIDE DEF frame
<1> QED
  BY <1>1, <1>2, <1>3, SlotInRing DEF Ring

(* tracePreStep(): the pending instruction's frame may overwrite the oldest  *)
(* one, and the patch of the last frame touches no other.                    *)
THEOREM CaptureKeepsRing ==
  ASSUME NEW r, NEW pcs, RingHolds(r, pcs), NEW pc \in Int
  PROVE  RingHolds(Captured(Patched(r), pc), pcs)
<1> USE RingAssumption DEF RingAssumption
<1> DEFINE p == Patched(r)
           c == Captured(p, pc)
<1>1. r \in Ring /\ r.disk <= r.head /\ Numbered(r) /\ Truthful(r, pcs)
  BY DEF RingHolds
<1>2. p \in Ring /\ p.head = r.head /\ p.disk = r.disk
      /\ \A n \in Nat : /\ p.slots[Slot(n)].seqno = r.slots[Slot(n)].seqno
                        /\ p.slots[Slot(n)].pc = r.slots[Slot(n)].pc
  BY <1>1, PatchOnlyFinishes
<1> HIDE DEF p
<1>3. /\ c \in Ring /\ c.head = p.head /\ c.disk = p.disk
      /\ c.slots[Slot(p.head)].seqno = p.slots[Slot(p.head)].seqno
      /\ c.slots[Slot(p.head)].post = FALSE
      /\ \A n \in Nat : Slot(n) # Slot(p.head) => c.slots[Slot(n)] = p.slots[Slot(n)]
  <2>1. p \in Ring
    BY <1>2
  <2> QED
    BY <2>1, CaptureWritesHead, Zenon
<1> HIDE DEF c
<1>4. c.slots[Slot(r.head)].seqno = p.slots[Slot(r.head)].seqno /\ c.slots[Slot(r.head)].post = FALSE
  BY <1>2, <1>3
<1>5. \A n \in Nat : Slot(n) # Slot(r.head) => c.slots[Slot(n)] = p.slots[Slot(n)]
  BY <1>2, <1>3
<1>6. Oldest(c) = Oldest(r) /\ \A n \in Oldest(r)..(r.head - 1) : n \in Nat
  BY <1>1, <1>2, <1>3 DEF Oldest, Ring
<1>7. Numbered(c)
  BY <1>1, <1>2, <1>3, <1>4, <1>5, <1>6 DEF Numbered
<1>8. Truthful(c, pcs)
  <2> SUFFICES ASSUME NEW n \in Oldest(r)..(r.head - 1),
                      n + RingSize > r.head \/ c.slots[Slot(n)].post
               PROVE  c.slots[Slot(n)].pc = pcs[n]
    BY <1>2, <1>3, <1>6 DEF Truthful
  <2>1. n + RingSize > r.head
    <3>1. CASE c.slots[Slot(n)].post
      <4>1. n + RingSize >= r.head /\ n \in Nat /\ r.head \in Nat
        BY <1>1 DEF Oldest, Ring
      <4>2. n + RingSize = r.head => Slot(n) = Slot(r.head)
        BY <4>1, SlotComesRound
      <4> QED
        BY <1>4, <3>1, <4>1, <4>2
    <3> QED
      BY <3>1
  <2>2. Slot(n) # Slot(r.head)
    BY <1>1, <2>1, HeadSlot
  <2> QED
    BY <1>1, <1>2, <1>5, <1>6, <2>1, <2>2 DEF Truthful
<1> QED
  BY <1>1, <1>2, <1>3, <1>7, <1>8 DEF RingHolds, p, c

(* The number is written to the slot at the head and nothing else changes.   *)
LEMMA FinishWritesHead ==
  ASSUME NEW r \in Ring
  PROVE  /\ Finished(r) \in Ring
         /\ Finished(r).head = r.head + 1
         /\ Finished(r).disk = r.disk
         /\ Finished(r).slots[Slot(r.head)].seqno = r.head
         /\ Finished(r).slots[Slot(r.head)].pc = r.slots[Slot(r.head)].pc
         /\ \A n \in Nat : Slot(n) # Slot(r.head) => Finished(r).slots[Slot(n)] = r.slots[Slot(n)]
<1> DEFINE s == Slot(r.head)
           frame == [r.slots[s] EXCEPT !.seqno = r.head]
<1>1. s \in 0..(RingSize - 1) /\ r.head \in Nat
  BY SlotInRing DEF Ring
<1>2. frame \in RingFrame /\ frame.seqno = r.head /\ frame.pc = r.slots[s].pc
  BY <1>1 DEF Ring, RingFrame
<1>3. Finished(r) = [slots |-> [r.slots EXCEPT ![s] = frame], head |-> r.head + 1, disk |-> r.disk]
  <2>1. Finished(r) = [r EXCEPT !.slots = [r.slots EXCEPT ![s] = frame], !.head = r.head + 1]
    BY DEF Finished, Ring, RingFrame
  <2>2. r = [slots |-> r.slots, head |-> r.head, disk |-> r.disk]
    BY DEF Ring
  <2> HIDE DEF s, frame
  <2> QED
    BY <2>1, <2>2
<1> HIDE DEF frame
<1>4. [r.slots EXCEPT ![s] = frame] \in [0..(RingSize - 1) -> RingFrame]
  BY <1>1, <1>2 DEF Ring
<1>5. Finished(r) \in Ring /\ Finished(r).slots = [r.slots EXCEPT ![s] = frame]
  BY <1>1, <1>3, <1>4 DEF Ring
<1>6. Finished(r).head = r.head + 1 /\ Finished(r).disk = r.disk
  BY <1>3 DEF Ring
<1> QED
  BY <1>1, <1>2, <1>5, <1>6, SlotInRing DEF Ring

(* tracePostStep(): the frame gets its number, the head moves on, and the    *)
(* frame in the next slot is the oldest no longer.                           *)
THEOREM FinishKeepsRing ==
  ASSUME NEW r, NEW pcs, RingHolds(r, pcs), r.slots[Slot(r.head)].pc = pcs[r.head]
  PROVE  RingHolds(Finished(r), pcs)
<1> USE RingAssumption DEF RingAssumption
<1> DEFINE f == Finished(r)
<1>1. r \in Ring /\ r.disk <= r.head /\ Numbered(r) /\ Truthful(r, pcs)
  BY DEF RingHolds
<1>2. f \in Ring /\ f.head = r.head + 1 /\ f.disk = r.disk
  BY <1>1, FinishWritesHead
<1>3. f.slots[Slot(r.head)].seqno = r.head /\ f.slots[Slot(r.head)].pc = pcs[r.head]
  BY <1>1, FinishWritesHead
<1>4. \A n \in Nat : Slot(n) # Slot(r.head) => f.slots[Slot(n)] = r.slots[Slot(n)]
  BY <1>1, FinishWritesHead
<1> HIDE DEF f
<1>5. ASSUME NEW n \in Oldest(f)..(f.head - 1), n # r.head
      PROVE  n \in Oldest(r)..(r.head - 1) /\ n + RingSize > r.head /\ n \in Nat
  BY <1>1, <1>2, <1>5 DEF Oldest, Ring
<1>6. ASSUME NEW n \in Oldest(f)..(f.head - 1), n # r.head
      PROVE  f.slots[Slot(n)] = r.slots[Slot(n)]
  BY <1>1, <1>4, <1>5, <1>6, HeadSlot
<1>7. Numbered(f)
  BY <1>1, <1>3, <1>5, <1>6 DEF Numbered
<1>8. Truthful(f, pcs)
  BY <1>1, <1>3, <1>5, <1>6 DEF Truthful
<1> QED
  BY <1>1, <1>2, <1>7, <1>8 DEF RingHolds, Ring, f

-----------------------------------------------------------------------------
(* drainCpuFrames(): whatever was overwritten since the last drain is counted *)
(* as lost, and the frames that follow are told without a gap, up to the      *)
(* place of the cursor.  A file that is written from it misses nothing but    *)
(* what its gaps count.                                                       *)
THEOREM DrainMissesNothing ==
  ASSUME NEW r, NEW pcs, RingHolds(r, pcs)
  PROVE  LET d == Drained(r)
         IN /\ Consecutive(d.frames, r.disk + d.lost, pcs)
            /\ d.ring.disk = r.disk + d.lost + Len(d.frames)
            /\ d.lost > 0 => r.disk + d.lost = Oldest(r)
            /\ RingHolds(d.ring, pcs)
<1> USE RingAssumption DEF RingAssumption
<1> DEFINE from == r.disk + LostBy(r)
           n == IF r.head - from < DrainSize THEN r.head - from ELSE DrainSize
           frames == [i \in 1..n |-> r.slots[Slot(from + i - 1)]]
           ring == [r EXCEPT !.disk = from + n]
<1>1. r \in Ring /\ r.disk <= r.head /\ Numbered(r) /\ Truthful(r, pcs)
  BY DEF RingHolds
<1>2. Drained(r) = [frames |-> frames, lost |-> LostBy(r), ring |-> ring]
  BY DEF Drained
<1>3. LostBy(r) \in Nat /\ from \in Oldest(r)..r.head /\ (LostBy(r) > 0 => from = Oldest(r))
  BY <1>1 DEF LostBy, Ring, Oldest
<1>4. from \in Nat /\ r.head \in Nat /\ from <= r.head
  BY <1>1, <1>3 DEF Ring
<1> HIDE DEF from
<1>5. n \in Nat /\ from + n <= r.head
  BY <1>4
<1> HIDE DEF n
<1>6. frames \in Seq(RingFrame) /\ Len(frames) = n /\ DOMAIN frames = 1..n
  <2>1. \A i \in 1..n : from + i - 1 \in Nat
    BY <1>4, <1>5
  <2>2. \A i \in 1..n : r.slots[Slot(from + i - 1)] \in RingFrame
    BY <1>1, <2>1, SlotInRing DEF Ring
  <2> QED
    BY <1>5, <2>2
<1>7. Consecutive(frames, from, pcs)
  <2> SUFFICES ASSUME NEW i \in 1..n
               PROVE  /\ frames[i].seqno = from + i - 1
                      /\ frames[i].post => frames[i].pc = pcs[from + i - 1]
    BY <1>6 DEF Consecutive
  <2>1. from + i - 1 \in Oldest(r)..(r.head - 1)
    BY <1>1, <1>3, <1>4, <1>5 DEF Oldest, Ring
  <2>2. frames[i] = r.slots[Slot(from + i - 1)]
    OBVIOUS
  <2> QED
    BY <1>1, <2>1, <2>2 DEF Numbered, Truthful
<1>8. ring \in Ring /\ ring.disk = from + n /\ ring.head = r.head /\ ring.slots = r.slots
  BY <1>1, <1>4, <1>5 DEF Ring
<1> HIDE DEF ring
<1>9. RingHolds(ring, pcs)
  BY <1>1, <1>4, <1>5, <1>8 DEF RingHolds, Numbered, Truthful, Oldest
<1> HIDE DEF frames
<1> QED
  BY <1>2, <1>3, <1>6, <1>7, <1>8, <1>9 DEF from

(* One drain is enough to close a file: a buffer of the ring's size leaves    *)
(* nothing behind the cursor.                                                 *)
THEOREM DrainReachesHead ==
  ASSUME NEW r, NEW pcs, RingHolds(r, pcs), DrainSize >= RingSize
  PROVE  Drained(r).ring.disk = r.head
  BY RingAssumption DEF RingAssumption, RingHolds, Ring, Drained, LostBy

(* readCpuFrames(): the panel is told the newest frames, without a gap and    *)
(* up to the last instruction, and the cursor stays.                          *)
THEOREM ReadMissesNothing ==
  ASSUME NEW r, NEW pcs, RingHolds(r, pcs)
  PROVE  /\ Consecutive(ReadFrames(r), Oldest(r), pcs)
         /\ Oldest(r) + Len(ReadFrames(r)) = r.head
<1> USE RingAssumption DEF RingAssumption
<1> DEFINE n == IF r.head < RingSize THEN r.head ELSE RingSize
           frames == [i \in 1..n |-> r.slots[Slot(r.head - n + i - 1)]]
<1>1. r \in Ring /\ Numbered(r) /\ Truthful(r, pcs)
  BY DEF RingHolds
<1>2. n \in Nat /\ r.head - n = Oldest(r) /\ Oldest(r) \in Nat /\ r.head \in Nat
  BY <1>1 DEF Oldest, Ring
<1>3. ReadFrames(r) = frames
  BY DEF ReadFrames
<1> HIDE DEF n
<1>4. Len(frames) = n /\ DOMAIN frames = 1..n
  <2>1. \A i \in 1..n : r.head - n + i - 1 \in Nat
    BY <1>2
  <2>2. \A i \in 1..n : r.slots[Slot(r.head - n + i - 1)] \in RingFrame
    BY <1>1, <2>1, SlotInRing DEF Ring
  <2>3. frames \in Seq(RingFrame)
    BY <1>2, <2>2
  <2> QED
    BY <1>2, <2>3
<1>5. ASSUME NEW i \in 1..n
      PROVE  /\ frames[i].seqno = Oldest(r) + i - 1
             /\ frames[i].post => frames[i].pc = pcs[Oldest(r) + i - 1]
  <2>1. Oldest(r) + i - 1 \in Oldest(r)..(r.head - 1)
    BY <1>2
  <2>2. frames[i] = r.slots[Slot(Oldest(r) + i - 1)]
    BY <1>2
  <2> QED
    BY <1>1, <2>1, <2>2 DEF Numbered, Truthful
<1> HIDE DEF frames
<1> QED
  BY <1>2, <1>3, <1>4, <1>5 DEF Consecutive

--------------------------------------------------------------------------------
(***************************************************************************)
(* What an instruction does not change.  Only the card reader's and the    *)
(* printer's instructions, CardLeaves and TestBusy, touch the parts of the *)
(* machine that the invariants are about.                                  *)
(***************************************************************************)

\* The parts of the machine that the theorems are about; a ring has a head.
Parts == {"lib", "model", "key", "card", "prn", "flags", "addr", "overlay", "trace", "breaks", "hit", "polled", "Sout", "ring"}
Headed(r) == {"slots", "head", "disk"} \subseteq DOMAIN r /\ r.head \in Nat
Same(c, d) == /\ Parts \subseteq DOMAIN d
              /\ d.lib = c.lib /\ d.model = c.model /\ d.key = c.key /\ d.card = c.card /\ d.prn = c.prn
              /\ Headed(c.ring) => Headed(d.ring)
Whole(c) == Parts \subseteq DOMAIN c

LEMMA RingHeaded ==
  ASSUME NEW r, Headed(r)
  PROVE  Headed(Patched(r)) /\ Headed(Finished(r)) /\ Headed(Drained(r).ring) /\ \A pc : Headed(Captured(r, pc))
<1>1. Headed(Patched(r)) /\ \A pc : Headed(Captured(r, pc))
  BY DEF Headed, Patched, Captured
<1>2. Headed(Finished(r))
  BY DEF Headed, Finished
<1>3. Headed(Drained(r).ring)
  BY DEF Headed, Drained
<1> QED
  BY <1>1, <1>2, <1>3

LEMMA StartHeaded == Headed(RingAtStart)
  BY DEF Headed, RingAtStart

LEMMA SameItself == ASSUME NEW c, Whole(c) PROVE Same(c, c)
  BY DEF Same, Whole

LEMMA SameThen == ASSUME NEW c, NEW d, NEW e, Same(c, d), Same(d, e) PROVE Same(c, e)
  BY DEF Same

LEMMA SameWhole == ASSUME NEW c, NEW d, Same(c, d) PROVE Whole(d)
  BY DEF Same, Whole

LEMMA FlagsSame ==
  ASSUME NEW c, Whole(c), NEW f
  PROVE  Same(c, Raise(c, f)) /\ Same(c, Drop(c, f)) /\ \A b : Same(c, DropIf(c, f, b))
<1>1. Same(c, Raise(c, f)) /\ Same(c, Drop(c, f))
  BY DEF Raise, Drop, Same, Whole, Parts
<1> QED
  BY <1>1, SameItself DEF DropIf

\* The instructions, kind by kind.
LEMMA FlagOpSame == ASSUME NEW c, Whole(c), NEW op PROVE Same(c, FlagOp(c, op))
<1> DEFINE d == FlagOp(c, op)
<1>1. CASE op[4] \in {0, 8, 12}
  <2>1. \A b : Same(c, DropIf(c, "COND", b))
    BY FlagsSame
  <2> QED
    BY <1>1, <2>1 DEF FlagOp
<1>2. CASE op[4] \notin {0, 8, 12}
  BY <1>2 DEF FlagOp, Same, Whole, Parts
<1> QED
  BY <1>1, <1>2

LEMMA KeyScanSame == ASSUME NEW c, Whole(c), NEW op PROVE Same(c, KeyScan(c, op))
<1> DEFINE hit == Down(c.key, c.digit, Selected(op))
           found == [Drop(c, "COND") EXCEPT !.KR = 16 * c.digit + 256 * (CHOOSE k \in hit : TRUE)]
           seen == IF op[4] >= 8 THEN DropIf(c, "COND", hit # {})
              ELSE IF hit # {} THEN found
                   ELSE IF c.digit # 0 THEN Raise(c, "HOLD") ELSE c
<1>1. Same(c, Drop(c, "COND")) /\ Same(c, Raise(c, "HOLD")) /\ Same(c, c) /\ \A b : Same(c, DropIf(c, "COND", b))
  BY FlagsSame, SameItself
<1>2. Same(c, found)
  BY <1>1 DEF Same, Parts
<1>3. Same(c, seen)
  <2> HIDE DEF hit, found
  <2> QED
    BY <1>1, <1>2
<1>4. KeyScan(c, op) = [seen EXCEPT !.polled = TRUE]
  BY DEF KeyScan
<1> HIDE DEF seen
<1> QED
  BY <1>3, <1>4 DEF Same, Parts

LEMMA AnswerSame == ASSUME NEW c, Whole(c), NEW v PROVE Same(c, Answer(c, v))
<1>1. Same(c, Raise(c, "EXT_VALID"))
  BY FlagsSame
<1> QED
  BY <1>1 DEF Answer, Same, Parts

LEMMA LibraryOpSame == ASSUME NEW c, Whole(c), NEW op PROVE Same(c, LibraryOp(c, op))
<1>1. \A v : Same(c, Answer(c, v))
  BY AnswerSame
<1>2. CASE op[3] \in {0, 2}
  <2> DEFINE a == Answer(c, LibByte(c) * 16)
  <2>1. Same(c, a)
    BY <1>1
  <2> HIDE DEF a
  <2> QED
  BY <2>1, <1>1, <1>2 DEF LibraryOp, Same, Parts
<1>3. CASE op[3] \notin {0, 2}
  BY <1>1, <1>3, SameItself DEF LibraryOp, Same, Parts, Whole
<1> QED
  BY <1>2, <1>3

LEMMA MemoryOpSame == ASSUME NEW c, Whole(c), NEW op PROVE Same(c, MemoryOp(c, op))
<1>1. ASSUME NEW f PROVE Same(c, MemAccess(c, f))
  <2> DEFINE n == [c EXCEPT !.RAM_ADDR = (c.Sout[1] * 16 + c.Sout[0]) % 256]
  <2>1. Same(c, n)
    BY DEF Same, Whole, Parts
  <2>2. Whole(n) /\ Same(n, Raise(n, f))
    BY <2>1, FlagsSame, SameWhole
  <2> HIDE DEF n
  <2>3. Same(c, Raise(n, f))
    BY <2>1, <2>2, SameThen
  <2>4. MemAccess(c, f) \in {n, Raise(n, f)}
    BY DEF MemAccess, n
  <2> QED
    BY <2>1, <2>3, <2>4
<1>2. Same(c, [c EXCEPT !.R5 = Bits(IF Bit(op[3], 0) THEN c.fB ELSE c.fA, 1, 4)])
  BY DEF Same, Whole, Parts
<1> QED
  BY <1>1, <1>2 DEF MemoryOp

LEMMA WrittenBackSame ==
  ASSUME NEW c, Whole(c), NEW dst, NEW used, NEW r
  PROVE  Same(c, WrittenBack(c, dst, used, r))
  BY DEF WrittenBack, Same, Whole, Parts

LEMMA ComputedSame == ASSUME NEW c, Whole(c), NEW op PROVE Same(c, Computed(c, op))
<1>1. \A used : Same(c, WrittenBack(c, Destination(op), used, AluOf(c, op, Operands(c, op))))
  BY WrittenBackSame
<1>2. Same(c, c)
  BY SameItself
<1> QED
  BY <1>1, <1>2 DEF Computed

LEMMA SwappedSame == ASSUME NEW c, Whole(c), NEW op PROVE Same(c, Swapped(c, op))
  BY DEF Swapped, Same, Whole, Parts

LEMMA StoredSame == ASSUME NEW c, Whole(c) PROVE Same(c, Stored(c))
<1>1. Same(c, Drop(c, "STORE"))
  BY FlagsSame
<1>2. Same(c, [Drop(c, "STORE") EXCEPT !.SCOM[c.REG_ADDR] = Bus(c)])
  BY <1>1 DEF Same, Parts
<1> QED
  BY <1>2, SameItself DEF Stored

LEMMA RamOpSame == ASSUME NEW c, Whole(c) PROVE Same(c, RamOp(c))
<1> DEFINE n == [Drop(c, "RAM_OP") EXCEPT !.RAM_ADDR = (Bus(c)[3] * 10 + Bus(c)[2]) % 256]
           all == [n EXCEPT !.ram = [i \in DOMAIN @ |-> Zeros]]
           ten == [n EXCEPT !.ram = [i \in DOMAIN @ |-> IF i \in n.RAM_ADDR..(n.RAM_ADDR + 9) THEN Zeros ELSE @[i]]]
<1>1. Same(c, n)
  <2>1. Same(c, Drop(c, "RAM_OP"))
    BY FlagsSame
  <2> QED
    BY <2>1 DEF Same, Parts
<1>2. Whole(n) /\ Same(n, Raise(n, "RAM_WRITE")) /\ Same(n, Raise(n, "RAM_READ"))
  BY <1>1, FlagsSame, SameWhole
<1>3. Same(c, Raise(n, "RAM_WRITE")) /\ Same(c, Raise(n, "RAM_READ"))
  <2> HIDE DEF n
  <2> QED
    BY <1>1, <1>2, SameThen
<1>4. Same(c, all) /\ Same(c, ten)
  <2> HIDE DEF n
  <2> QED
    BY <1>1 DEF Same, Parts
<1> DEFINE inside == n.RAM_ADDR < RamLimit(c.model)
<1>5. RamOp(c) = CASE Bus(c)[0] = 2 -> all
                   [] Bus(c)[0] = 4 /\ inside -> ten
                   [] Bus(c)[0] = 1 /\ inside -> Raise(n, "RAM_WRITE")
                   [] Bus(c)[0] = 0 /\ inside -> Raise(n, "RAM_READ")
                   [] OTHER -> n
  BY Zenon DEF RamOp
<1> HIDE DEF n, all, ten, inside
<1> QED
  BY <1>1, <1>3, <1>4, <1>5

LEMMA RamWrittenSame == ASSUME NEW c, Whole(c) PROVE Same(c, RamWritten(c))
<1> DEFINE n == Drop(c, "RAM_WRITE")
           w == [n EXCEPT !.ram[c.RAM_ADDR] = Exchanged(@, Bus(c), c.RAM_MASK)]
<1>1. Same(c, n)
  BY FlagsSame
<1>2. Same(c, w)
  <2> HIDE DEF n
  <2> QED
    BY <1>1 DEF Same, Parts
<1>3. RamWritten(c) = IF c.RAM_ADDR >= RamLimit(c.model) THEN n ELSE w
  BY Zenon DEF RamWritten
<1> HIDE DEF n, w
<1> QED
  BY <1>1, <1>2, <1>3

LEMMA DeferredSame == ASSUME NEW c, Whole(c) PROVE Same(c, Deferred(c))
  BY RamOpSame, RamWrittenSame, SameItself DEF Deferred

LEMMA MaskKeptSame == ASSUME NEW c, Whole(c), NEW op PROVE Same(c, MaskKept(c, op))
  BY DEF MaskKept, Same, Whole, Parts

LEMMA OnBusSame == ASSUME NEW c, Whole(c) PROVE Same(c, OnBus(c))
  BY DEF OnBus, Same, Whole, Parts

LEMMA ExecAluSame == ASSUME NEW c, Whole(c), NEW op PROVE Same(c, ExecAlu(c, op))
<1> DEFINE c1 == IF op[4] % 8 = 1 THEN Raise(c, "IO_VALID") ELSE c
           c2 == Computed(c1, op)
           c3 == Swapped(c2, op)
           c4 == MaskKept(c3, op)
           c5 == Stored(c4)
           c6 == Deferred(c5)
<1>1. Same(c, c1)
  BY FlagsSame, SameItself
<1>2. ExecAlu(c, op) = OnBus(c6)
  BY DEF ExecAlu
<1> HIDE DEF c1
<1>3. Same(c, c2)
  BY <1>1, ComputedSame, SameThen, SameWhole
<1> HIDE DEF c2
<1>4. Same(c, c3)
  BY <1>3, SwappedSame, SameThen, SameWhole
<1> HIDE DEF c3
<1>5. Same(c, c4)
  BY <1>4, MaskKeptSame, SameThen, SameWhole
<1> HIDE DEF c4
<1>6. Same(c, c5)
  BY <1>5, StoredSame, SameThen, SameWhole
<1> HIDE DEF c5
<1>7. Same(c, c6)
  BY <1>6, DeferredSame, SameThen, SameWhole
<1> HIDE DEF c6
<1>8. Same(c, OnBus(c6))
  BY <1>7, OnBusSame, SameThen, SameWhole
<1> QED
  BY <1>2, <1>8

\* The parts of a step before and after its instruction.
LEMMA BeginNextStepSame == ASSUME NEW c, Whole(c), NEW rom PROVE Same(c, BeginNextStep(c, rom))
<1> DEFINE n == IF ~IsBranch(Opcode(c, rom, c.addr)) /\ Has(c, "JUMP") THEN Raise(Drop(c, "JUMP"), "COND") ELSE c
<1>1. Same(c, n)
  <2>1. Same(c, Drop(c, "JUMP")) /\ Whole(Drop(c, "JUMP"))
    BY FlagsSame, SameWhole
  <2>2. Same(Drop(c, "JUMP"), Raise(Drop(c, "JUMP"), "COND"))
    BY <2>1, FlagsSame
  <2> QED
    BY <2>1, <2>2, SameThen, SameItself
<1> DEFINE v == Captured(Patched(n.ring), c.addr)
           w == n.hit \/ ("BREAKPOINTS" \in c.trace /\ c.addr \in c.breaks)
<1>2. BeginNextStep(c, rom) \in {n, [n EXCEPT !.ring = v, !.hit = w]}
  BY DEF BeginNextStep
<1>4. Headed(n.ring) => Headed(v)
  BY RingHeaded
<1> HIDE DEF n, v, w
<1>3. Same(c, [n EXCEPT !.ring = v, !.hit = w])
  BY <1>1, <1>4 DEF Same, Parts
<1> QED
  BY <1>1, <1>2, <1>3

LEMMA BranchSame == ASSUME NEW c, Whole(c), NEW op PROVE Same(c, Branch(c, op))
<1>1. Same(c, Raise(c, "JUMP"))
  BY FlagsSame
<1>2. \A v : Same(c, [Raise(c, "JUMP") EXCEPT !.addr = v])
  BY <1>1 DEF Same, Parts
<1> DEFINE n == Raise(c, "JUMP")
           offset == (op[2] % 8) * 128 + op[3] * 8 + op[4] \div 2
           to == CASE ~Taken(c, op) -> c.addr + 1
                   [] Taken(c, op) /\ op[4] % 2 = 1 -> c.addr - offset
                   [] OTHER -> c.addr + offset
           v == to % 65536
<1>3. Branch(c, op) = [n EXCEPT !.addr = v]
  BY DEF Branch
<1> HIDE DEF n, v
<1> QED
  BY <1>2, <1>3 DEF n

LEMMA DrivenSame == ASSUME NEW c, Whole(c) PROVE Same(c, Driven(c))
  BY DEF Driven, Same, Whole, Parts

LEMMA AdvancedSame == ASSUME NEW c, Whole(c) PROVE Same(c, Advanced(c))
  BY DEF Advanced, Same, Whole, Parts

LEMMA PregLatchedSame == ASSUME NEW c, Whole(c) PROVE Same(c, PregLatched(c))
  BY DEF PregLatched, Same, Whole, Parts

LEMMA CountedSame == ASSUME NEW c, Whole(c) PROVE Same(c, Counted(c))
<1> DEFINE v == CountStep(c.lcd, IF Has(c, "IDLE") THEN Bit(c.fA, 14) ELSE c.fA # 0, StepWeight(c))
           w == IF c.trace = {} THEN c.ring ELSE Finished(c.ring)
<1>1. Headed(c.ring) => Headed(w)
  BY RingHeaded
<1>2. Counted(c) = [c EXCEPT !.lcd = v, !.ring = w]
  BY DEF Counted
<1> HIDE DEF v, w
<1> QED
  BY <1>1, <1>2 DEF Same, Whole, Parts

LEMMA NotedSame == ASSUME NEW c, Whole(c) PROVE Same(c, Noted(c))
  BY DEF Noted, Same, Whole, Parts

LEMMA SetPartitionSame == ASSUME NEW c, Whole(c), NEW p PROVE Same(c, SetPartition(c, p))
  BY DEF SetPartition, Same, Whole, Parts

LEMMA RamSame == ASSUME NEW c, Whole(c), NEW ram PROVE Same(c, [c EXCEPT !.ram = ram])
  BY DEF Same, Whole, Parts

\* Presets, reloads and the memory file write nothing but the RAM.
LEMMA WritesSame ==
  ASSUME NEW c, Whole(c), NEW steps, NEW registers, NEW stage, NEW was
  PROVE  /\ Same(c, WriteProgram(c, steps)) /\ Same(c, WriteRegisters(c, registers)) /\ Same(c, ApplyReload(c, stage))
         /\ Same(c, Restored(c, was)) /\ Same(c, ZeroRam(c))
<1>1. \A d, r : Whole(d) => Same(d, WriteRegisters(d, r))
  BY RamSame DEF WriteRegisters
<1>2. Same(c, WriteProgram(c, steps))
  BY RamSame DEF WriteProgram
<1>3. Same(c, Restored(c, was)) /\ Same(c, ZeroRam(c))
  BY RamSame, SameItself DEF Restored, ZeroRam
<1>4. Same(c, ApplyReload(c, stage))
  <2> DEFINE parted == IF stage.partition = {} THEN c ELSE SetPartition(c, CHOOSE p \in stage.partition : TRUE)
             programmed == [parted EXCEPT !.ram = StepsWritten(parted, stage.steps)]
  <2>1. Same(c, parted)
    BY SameItself, SetPartitionSame
  <2>2. ApplyReload(c, stage) = WriteRegisters(programmed, stage.registers)
    BY DEF ApplyReload
  <2> HIDE DEF parted
  <2>3. Same(parted, programmed)
    BY <2>1, RamSame, SameWhole
  <2> HIDE DEF programmed
  <2>4. Same(c, programmed)
    BY <2>1, <2>3, SameThen
  <2>5. Same(programmed, WriteRegisters(programmed, stage.registers))
    BY <1>1, <2>4, SameWhole
  <2> QED
    BY <2>2, <2>4, <2>5, SameThen
<1> QED
  BY <1>1, <1>2, <1>3, <1>4

--------------------------------------------------------------------------------
(***************************************************************************)
(* The printer.  The lines it numbers and the code lines of the paper are  *)
(* counted from what has been taken: TextBase and CodeBase lines are out   *)
(* of the queues, what is in them follows without a gap, and only a drain  *)
(* moves the two.                                                          *)
(***************************************************************************)

\* How many lines, of text and of codes, have been drained.
TextBase(p) == p.serial - Len(p.lines)
CodeBase(p) == p.serial - Len(p.pending) - Len(p.codes)
CodeLines == [line : Nat, dots : {DotsAfter(e) : e \in Int} \cup {NoDots}]

\* The queues hold the lines after those, in order; the code line of the
\* line that is printing is to come.
PrnOk(p) ==
  /\ {"busy", "serial", "pending", "lines", "codes"} \subseteq DOMAIN p
  /\ p.busy \in Nat /\ p.serial \in Nat
  /\ p.lines \in Seq(Nat) /\ p.codes \in Seq(CodeLines)
  /\ p.pending = <<>> \/ (p.pending = <<p.serial>> /\ p.busy > 0)
  /\ \A i \in 1..Len(p.lines) : p.lines[i] = TextBase(p) + i
  /\ \A j \in 1..Len(p.codes) : p.codes[j].line = CodeBase(p) + j
PrnKept(p, q) == PrnOk(p) => PrnOk(q) /\ TextBase(q) = TextBase(p) /\ CodeBase(q) = CodeBase(p)

\* What no printer operation but those below touches.
Queues == {"busy", "serial", "pending", "lines", "codes"}
PrnSame(p, q) == PrnOk(p) => /\ Queues \subseteq DOMAIN q
                  /\ q.busy = p.busy /\ q.serial = p.serial /\ q.pending = p.pending /\ q.lines = p.lines /\ q.codes = p.codes

\* From one state of the printer to the next.
LEMMA PrnSameKept == ASSUME NEW p, NEW q, PrnSame(p, q) PROVE PrnKept(p, q)
<1> SUFFICES ASSUME PrnOk(p) PROVE PrnOk(q) /\ TextBase(q) = TextBase(p) /\ CodeBase(q) = CodeBase(p)
  BY DEF PrnKept
<1>1. TextBase(q) = TextBase(p) /\ CodeBase(q) = CodeBase(p)
  BY DEF PrnSame, TextBase, CodeBase
<1> QED
  BY <1>1 DEF PrnSame, PrnOk, Queues

LEMMA PrnKeptThen == ASSUME NEW p, NEW q, NEW r, PrnKept(p, q), PrnKept(q, r) PROVE PrnKept(p, r)
  BY DEF PrnKept

LEMMA PrnKeptItself == ASSUME NEW p PROVE PrnKept(p, p)
  BY DEF PrnKept

\* The operations on the line buffer.
LEMMA PutSame == ASSUME NEW p, NEW v, PrnOk(p) PROVE PrnSame(p, Put(p, v)) /\ PrnOk(Put(p, v))
<1>1. PrnSame(p, Put(p, v))
  BY DEF Put, PrnSame, PrnOk, Queues
<1> QED
  BY <1>1, PrnSameKept DEF PrnKept

LEMMA BufferKept ==
  ASSUME NEW p, NEW v
  PROVE  PrnKept(p, OutPrt(p, v)) /\ PrnKept(p, OutPrtFunc(p, v)) /\ PrnKept(p, PrtStep(p)) /\ PrnKept(p, PrtClear(p))
<1> SUFFICES ASSUME PrnOk(p)
             PROVE PrnKept(p, OutPrt(p, v)) /\ PrnKept(p, OutPrtFunc(p, v)) /\ PrnKept(p, PrtStep(p)) /\ PrnKept(p, PrtClear(p))
  BY DEF PrnKept
<1>1. \A q, w : PrnOk(q) => PrnKept(q, Put(q, w)) /\ PrnOk(Put(q, w))
  BY PutSame, PrnSameKept
<1>2. PrnKept(p, OutPrt(p, v)) /\ PrnKept(p, PrtStep(p))
  BY <1>1, PrnKeptItself DEF OutPrt, PrtStep
<1>3. PrnKept(p, PrtClear(p))
  <2>1. PrnSame(p, PrtClear(p))
    BY DEF PrtClear, PrnSame, PrnOk, Queues
  <2> QED
    BY <2>1, PrnSameKept
<1>4. PrnKept(p, OutPrtFunc(p, v))
  <2> DEFINE s == Mnemonic[v]
             a == Put(p, s[3])
             b == Put(a, s[2])
  <2>1. PrnKept(p, a) /\ PrnOk(a)
    BY <1>1
  <2>2. PrnKept(a, b) /\ PrnOk(b)
    <3> HIDE DEF a
    <3> QED
      BY <1>1, <2>1
  <2>3. PrnKept(b, Put(b, s[1]))
    <3> HIDE DEF b
    <3> QED
      BY <1>1, <2>2
  <2>4. OutPrtFunc(p, v) \in {p, Put(b, s[1])}
    BY Zenon DEF OutPrtFunc
  <2> HIDE DEF a, b, s
  <2> QED
    BY <2>1, <2>2, <2>3, <2>4, PrnKeptThen, PrnKeptItself
<1> QED
  BY <1>2, <1>3, <1>4

\* What Append does to a queue in which every line has its number.
LEMMA AppendedIs ==
  ASSUME NEW S, NEW s \in Seq(S), NEW x \in S
  PROVE  /\ Append(s, x) \in Seq(S) /\ Len(Append(s, x)) = Len(s) + 1 /\ Len(s) \in Nat
         /\ Append(s, x)[Len(s) + 1] = x
         /\ \A i \in 1..Len(s) : Append(s, x)[i] = s[i]
  OBVIOUS

LEMMA LineAppended ==
  ASSUME NEW s \in Seq(Nat), NEW x \in Nat, NEW b \in Int, x = b + Len(s) + 1, \A i \in 1..Len(s) : s[i] = b + i
  PROVE  /\ Append(s, x) \in Seq(Nat) /\ Len(Append(s, x)) = Len(s) + 1 /\ Len(s) \in Nat
         /\ \A i \in 1..Len(Append(s, x)) : Append(s, x)[i] = b + i
<1> DEFINE t == Append(s, x)
<1>1. t \in Seq(Nat) /\ Len(t) = Len(s) + 1 /\ Len(s) \in Nat /\ t[Len(s) + 1] = x /\ \A i \in 1..Len(s) : t[i] = s[i]
  BY AppendedIs
<1> HIDE DEF t
<1>2. ASSUME NEW i \in 1..Len(t) PROVE t[i] = b + i
  <2>1. CASE i = Len(s) + 1
    BY <1>1, <2>1
  <2>2. CASE i \in 1..Len(s)
    BY <1>1, <2>2
  <2> QED
    BY <1>1, <2>1, <2>2
<1> QED
  BY <1>1, <1>2 DEF t

LEMMA CodeAppended ==
  ASSUME NEW s \in Seq(CodeLines), NEW x \in CodeLines, NEW b \in Int, x.line = b + Len(s) + 1,
         \A i \in 1..Len(s) : s[i].line = b + i
  PROVE  /\ Append(s, x) \in Seq(CodeLines) /\ Len(Append(s, x)) = Len(s) + 1 /\ Len(s) \in Nat
         /\ \A i \in 1..Len(Append(s, x)) : Append(s, x)[i].line = b + i
<1> DEFINE t == Append(s, x)
<1>1. t \in Seq(CodeLines) /\ Len(t) = Len(s) + 1 /\ Len(s) \in Nat /\ t[Len(s) + 1] = x /\ \A i \in 1..Len(s) : t[i] = s[i]
  BY AppendedIs
<1> HIDE DEF t
<1>2. ASSUME NEW i \in 1..Len(t) PROVE t[i].line = b + i
  <2>1. CASE i = Len(s) + 1
    BY <1>1, <2>1
  <2>2. CASE i \in 1..Len(s)
    BY <1>1, <2>2
  <2> QED
    BY <1>1, <2>1, <2>2
<1> QED
  BY <1>1, <1>2 DEF t

\* The numbers in a printer that is in order.
LEMMA PrnFacts ==
  ASSUME NEW p, PrnOk(p)
  PROVE  /\ Len(p.lines) \in Nat /\ Len(p.codes) \in Nat /\ Len(p.pending) \in {0, 1}
         /\ TextBase(p) \in Int /\ CodeBase(p) \in Int
         /\ p.pending # <<>> => Len(p.pending) = 1 /\ p.pending[1] = p.serial
         /\ p.pending = <<>> => Len(p.pending) = 0
<1>1. Len(p.lines) \in Nat /\ Len(p.codes) \in Nat
  BY DEF PrnOk
<1>2. Len(<<>>) = 0 /\ Len(<<p.serial>>) = 1 /\ <<p.serial>>[1] = p.serial
  OBVIOUS
<1>3. Len(p.pending) \in {0, 1} /\ (p.pending # <<>> => Len(p.pending) = 1 /\ p.pending[1] = p.serial) /\ (p.pending = <<>> => Len(p.pending) = 0)
  BY <1>2 DEF PrnOk
<1>4. p.serial \in Nat
  BY DEF PrnOk
<1> QED
  BY <1>1, <1>3, <1>4 DEF TextBase, CodeBase

\* flushPending(): the code line of the line that was printing.
LEMMA FlushKept ==
  ASSUME NEW p, NEW e \in Int, PrnOk(p)
  PROVE  LET q == FlushPending(p, e)
         IN /\ PrnOk(q) /\ TextBase(q) = TextBase(p) /\ CodeBase(q) = CodeBase(p)
            /\ q.pending = <<>> /\ q.serial = p.serial /\ q.busy = p.busy
<1>1. CASE p.pending = <<>>
  BY <1>1 DEF FlushPending
<1>2. CASE p.pending # <<>>
  <2> DEFINE x == [line |-> p.pending[1], dots |-> DotsAfter(e)]
             t == Append(p.codes, x)
             q == [p EXCEPT !.codes = t, !.pending = <<>>]
  <2>1. FlushPending(p, e) = q
    BY <1>2 DEF FlushPending
  <2>2. p.serial \in Nat /\ Len(p.codes) \in Nat /\ CodeBase(p) = p.serial - 1 - Len(p.codes) /\ p.pending[1] = p.serial
    BY <1>2, PrnFacts DEF PrnOk, CodeBase
  <2>3. x \in CodeLines /\ x.line = p.serial
    BY <2>2 DEF CodeLines
  <2> HIDE DEF x
  <2>4. t \in Seq(CodeLines) /\ Len(t) = Len(p.codes) + 1 /\ \A i \in 1..Len(t) : t[i].line = CodeBase(p) + i
    <3>1. CodeBase(p) \in Int /\ x.line = CodeBase(p) + Len(p.codes) + 1
      BY <2>2, <2>3
    <3> QED
      BY <2>3, <3>1, CodeAppended DEF PrnOk
  <2> HIDE DEF t
  <2>5. /\ Queues \subseteq DOMAIN q /\ q.busy = p.busy /\ q.serial = p.serial /\ q.lines = p.lines /\ q.codes = t /\ q.pending = <<>>
    BY DEF PrnOk, Queues
  <2> HIDE DEF q
  <2>6. TextBase(q) = TextBase(p) /\ CodeBase(q) = CodeBase(p)
    <3>1. Len(q.pending) = 0
      BY <2>5
    <3>2. TextBase(q) = TextBase(p)
      BY <2>5 DEF TextBase
    <3>3. CodeBase(q) = p.serial - 0 - Len(t)
      BY <2>5, <3>1 DEF CodeBase
    <3>4. Len(t) = Len(p.codes) + 1
      BY <2>4
    <3>5. CodeBase(q) = CodeBase(p)
      BY <2>2, <3>3, <3>4
    <3> QED
      BY <3>2, <3>5
  <2>7. PrnOk(q)
    BY <2>4, <2>5, <2>6 DEF PrnOk, Queues
  <2> QED
    BY <2>1, <2>5, <2>6, <2>7
<1> QED
  BY <1>1, <1>2

LEMMA FlushActiveKept ==
  ASSUME NEW p, PrnOk(p)
  PROVE  LET q == FlushPendingIfActive(p)
         IN /\ PrnOk(q) /\ TextBase(q) = TextBase(p) /\ CodeBase(q) = CodeBase(p)
            /\ q.pending = <<>> /\ q.serial = p.serial /\ q.busy = p.busy
<1>1. PrinterLineCycles - p.busy \in Int
  BY PrinterAssumption DEF PrnOk
<1> QED
  BY <1>1, FlushKept DEF FlushPendingIfActive

LEMMA BusyKept ==
  ASSUME NEW p, PrnOk(p), p.pending = <<>>, NEW v \in Nat
  PROVE  PrnKept(p, [p EXCEPT !.busy = v])
<1> DEFINE q == [p EXCEPT !.busy = v]
<1>1. /\ Queues \subseteq DOMAIN q /\ q.busy = v /\ q.serial = p.serial /\ q.lines = p.lines
      /\ q.codes = p.codes /\ q.pending = <<>>
  BY DEF PrnOk, Queues
<1> HIDE DEF q
<1>2. TextBase(q) = TextBase(p) /\ CodeBase(q) = CodeBase(p)
  BY <1>1 DEF TextBase, CodeBase
<1>3. PrnOk(q)
  BY <1>1, <1>2 DEF PrnOk, Queues
<1> QED
  BY <1>2, <1>3 DEF PrnKept, q

\* The printer's clock, its print and its feed.
LEMMA BusyTickKept == ASSUME NEW p PROVE PrnKept(p, BusyTick(p))
<1> SUFFICES ASSUME PrnOk(p), p.busy # 0 PROVE PrnKept(p, BusyTick(p))
  BY PrnKeptItself DEF PrnKept, BusyTick
<1> DEFINE q == [p EXCEPT !.busy = @ - 1]
<1>1. p.busy \in Nat /\ p.busy - 1 \in Nat
  BY DEF PrnOk
<1>2. BusyTick(p) = IF q.busy = 0 THEN FlushPending(q, PrinterLineCycles) ELSE q
  BY DEF BusyTick
<1>3. /\ Queues \subseteq DOMAIN q /\ q.busy = p.busy - 1 /\ q.serial = p.serial /\ q.lines = p.lines
      /\ q.codes = p.codes /\ q.pending = p.pending
  BY DEF PrnOk, Queues
<1> HIDE DEF q
<1>4. TextBase(q) = TextBase(p) /\ CodeBase(q) = CodeBase(p)
  BY <1>3 DEF TextBase, CodeBase
<1>5. CASE q.busy > 0
  <2>1. PrnOk(q)
    BY <1>1, <1>3, <1>4, <1>5 DEF PrnOk, Queues
  <2>2. BusyTick(p) = q
    BY <1>2, <1>5
  <2> QED
    BY <2>1, <2>2, <1>4 DEF PrnKept
<1>6. CASE q.busy = 0
  (* The countdown is over before the line is flushed: flushed at a busy of 1 it is the same. *)
  <2> DEFINE u == FlushPending(p, PrinterLineCycles)
             w == [u EXCEPT !.busy = 0]
  <2>1. /\ PrnOk(u) /\ TextBase(u) = TextBase(p) /\ CodeBase(u) = CodeBase(p)
        /\ u.pending = <<>> /\ u.serial = p.serial /\ u.busy = p.busy
    <3>1. PrinterLineCycles \in Int
      BY PrinterAssumption
    <3> QED
      BY <3>1, FlushKept
  <2>2. PrnKept(u, w)
    <3> HIDE DEF u
    <3> QED
      BY <2>1, BusyKept
  <2>3. PrnSame(w, FlushPending(q, PrinterLineCycles))
    <3>1. PrnOk(p) /\ p.busy - 1 = 0
      BY <1>3, <1>6
    <3> QED
      BY <3>1 DEF PrnSame, FlushPending, q, PrnOk, Queues
  <2>4. BusyTick(p) = FlushPending(q, PrinterLineCycles)
    BY <1>2, <1>6
  <2>5. PrnKept(w, BusyTick(p))
    BY <2>3, <2>4, PrnSameKept
  <2> HIDE DEF u, w
  <2> QED
    BY <2>1, <2>2, <2>5 DEF PrnKept
<1>7. q.busy > 0 \/ q.busy = 0
  BY <1>1, <1>3
<1> QED
  BY <1>5, <1>6, <1>7

LEMMA PrintKept == ASSUME NEW p PROVE PrnKept(p, PrtPrint(p))
<1> SUFFICES ASSUME PrnOk(p), p.ready PROVE PrnKept(p, PrtPrint(p))
  BY PrnKeptItself DEF PrnKept, PrtPrint
<1>1. CASE p.busy > 0 /\ p.pending # <<>>
  BY <1>1, FlushActiveKept DEF PrtPrint, PrnKept
<1>2. CASE ~(p.busy > 0 /\ p.pending # <<>>)
  <2> DEFINE n == p.serial + 1
             t == Append(p.lines, n)
             q == [p EXCEPT !.pending = <<n>>, !.serial = @ + 1, !.lines = t, !.busy = PrinterLineCycles]
             one == <<n>>
  <2>1. PrtPrint(p) = q
    BY <1>2 DEF PrtPrint
  <2>2. p.pending = <<>>
    BY <1>2 DEF PrnOk
  <2>3. n \in Nat /\ Len(p.lines) \in Nat /\ TextBase(p) = p.serial - Len(p.lines) /\ CodeBase(p) = p.serial - Len(p.codes)
        /\ Len(p.codes) \in Nat
    BY <2>2, PrnFacts DEF PrnOk, TextBase, CodeBase
  <2>4. t \in Seq(Nat) /\ Len(t) = Len(p.lines) + 1 /\ \A i \in 1..Len(t) : t[i] = TextBase(p) + i
    <3>1. TextBase(p) \in Int /\ n = TextBase(p) + Len(p.lines) + 1
      BY <2>3 DEF PrnOk
    <3>2. p.lines \in Seq(Nat) /\ \A i \in 1..Len(p.lines) : p.lines[i] = TextBase(p) + i
      BY DEF PrnOk
    <3> QED
      BY <2>3, <3>1, <3>2, LineAppended
  <2>5. Len(one) = 1
    OBVIOUS
  <2> HIDE DEF one, t
  <2>6. /\ Queues \subseteq DOMAIN q /\ q.busy = PrinterLineCycles /\ q.serial = n /\ q.lines = t /\ q.codes = p.codes
        /\ q.pending = one /\ q.pending = <<q.serial>>
    BY DEF PrnOk, Queues, one
  <2> HIDE DEF q
  <2>7. TextBase(q) = TextBase(p)
    BY <2>3, <2>4, <2>6 DEF TextBase, PrnOk
  <2>8. CodeBase(q) = CodeBase(p)
    <3>1. CodeBase(q) = n - 1 - Len(p.codes)
      BY <2>5, <2>6 DEF CodeBase
    <3>2. p.serial \in Nat
      BY DEF PrnOk
    <3> QED
      BY <2>3, <3>1, <3>2
  <2>9. PrnOk(q)
    BY <2>3, <2>4, <2>6, <2>7, <2>8, PrinterAssumption DEF PrnOk, Queues
  <2> QED
    BY <2>1, <2>7, <2>8, <2>9 DEF PrnKept
<1> QED
  BY <1>1, <1>2

LEMMA FeedKept == ASSUME NEW p PROVE PrnKept(p, PrtFeed(p))
<1> SUFFICES ASSUME PrnOk(p) PROVE PrnKept(p, PrtFeed(p))
  BY DEF PrnKept
<1> DEFINE f == FlushPendingIfActive(p)
           n == f.serial + 1
           t == Append(f.lines, n)
           x == [line |-> n, dots |-> NoDots]
           cs == Append(f.codes, x)
           q == [f EXCEPT !.lines = t, !.serial = @ + 1, !.codes = cs, !.busy = PrinterFeedCycles]
<1>1. PrtFeed(p) = q
  BY DEF PrtFeed
<1>2. PrnOk(f) /\ TextBase(f) = TextBase(p) /\ CodeBase(f) = CodeBase(p) /\ f.pending = <<>>
  BY FlushActiveKept
<1> HIDE DEF f
<1>3. n \in Nat /\ Len(f.lines) \in Nat /\ TextBase(f) = f.serial - Len(f.lines) /\ CodeBase(f) = f.serial - Len(f.codes)
      /\ Len(f.codes) \in Nat /\ f.serial \in Nat
  BY <1>2, PrnFacts DEF PrnOk, TextBase, CodeBase
<1>4. t \in Seq(Nat) /\ Len(t) = Len(f.lines) + 1 /\ \A i \in 1..Len(t) : t[i] = TextBase(f) + i
  <2>1. TextBase(f) \in Int /\ n = TextBase(f) + Len(f.lines) + 1
    BY <1>3
  <2>2. f.lines \in Seq(Nat) /\ \A i \in 1..Len(f.lines) : f.lines[i] = TextBase(f) + i
    BY <1>2 DEF PrnOk
  <2> HIDE DEF n
  <2> QED
    BY <1>3, <2>1, <2>2, LineAppended
<1>5. cs \in Seq(CodeLines) /\ Len(cs) = Len(f.codes) + 1 /\ \A i \in 1..Len(cs) : cs[i].line = CodeBase(f) + i
  <2>1. CodeBase(f) \in Int /\ x.line = CodeBase(f) + Len(f.codes) + 1
    BY <1>3
  <2>2. x \in CodeLines
    BY <1>3 DEF CodeLines
  <2> HIDE DEF x
  <2>3. f.codes \in Seq(CodeLines) /\ \A i \in 1..Len(f.codes) : f.codes[i].line = CodeBase(f) + i
    BY <1>2 DEF PrnOk
  <2> QED
    BY <2>1, <2>2, <2>3, CodeAppended
<1> HIDE DEF cs, t
<1>6. /\ Queues \subseteq DOMAIN q /\ q.busy = PrinterFeedCycles /\ q.serial = n /\ q.lines = t /\ q.codes = cs /\ q.pending = <<>>
  BY <1>2 DEF PrnOk, Queues
<1> HIDE DEF q
<1>7. TextBase(q) = TextBase(f)
  <2>1. TextBase(q) = n - Len(t)
    BY <1>6 DEF TextBase
  <2>2. Len(t) = Len(f.lines) + 1
    BY <1>4
  <2>3. n - (Len(f.lines) + 1) = f.serial - Len(f.lines)
    BY <1>3
  <2> QED
    BY <1>3, <2>1, <2>2, <2>3
<1>8. CodeBase(q) = CodeBase(f)
  <2>1. Len(q.pending) = 0
    BY <1>6
  <2>2. CodeBase(q) = n - 0 - Len(cs)
    BY <1>6, <2>1 DEF CodeBase
  <2> QED
    BY <1>3, <1>5, <2>2
<1>9. PrnOk(q)
  BY <1>3, <1>4, <1>5, <1>6, <1>7, <1>8, PrinterAssumption DEF PrnOk, Queues
<1> QED
  BY <1>1, <1>2, <1>7, <1>8, <1>9 DEF PrnKept

\* A reset of the machine leaves the queues, and flushes what was printing.
LEMMA ResetKept == ASSUME NEW p PROVE PrnKept(p, PrinterReset(p))
<1> SUFFICES ASSUME PrnOk(p) PROVE PrnKept(p, PrinterReset(p))
  BY DEF PrnKept
<1> DEFINE a == [p EXCEPT !.buf = [i \in DOMAIN @ |-> Blank], !.ptr = 0, !.ready = FALSE]
           f == FlushPendingIfActive(a)
<1>1. PrnKept(p, a)
  <2>1. PrnSame(p, a)
    BY DEF PrnSame, PrnOk, Queues
  <2> QED
    BY <2>1, PrnSameKept
<1>2. PrnOk(a)
  BY <1>1 DEF PrnKept
<1> HIDE DEF a
<1>3. PrnKept(a, f) /\ f.pending = <<>> /\ PrnOk(f)
  BY <1>2, FlushActiveKept DEF PrnKept
<1>4. PrinterReset(p) = [f EXCEPT !.busy = 0]
  BY DEF PrinterReset, a
<1> HIDE DEF f
<1>5. PrnKept(f, [f EXCEPT !.busy = 0])
  BY <1>3, BusyKept
<1> QED
  BY <1>1, <1>3, <1>4, <1>5 DEF PrnKept

--------------------------------------------------------------------------------
(***************************************************************************)
(* One instruction: the reader's switch stands where the card is, the      *)
(* printer's switches and the numbers of its lines stay.                   *)
(***************************************************************************)

\* Row 4 of the switch's column is down if no card is in (Reader::present),
\* a card that is in is no longer waited for, the printer is in order.
Sound(c) ==
  /\ Whole(c)
  /\ {"present", "waiting"} \subseteq DOMAIN c.card /\ c.card.present \in BOOLEAN
  /\ c.model \in Calculators /\ DOMAIN c.key = Pos
  /\ c.card.present <=> 4 \notin c.key[SwitchCol(c.model)]
  /\ c.card.present => ~c.card.waiting
  /\ PrnOk(c.prn) /\ Headed(c.ring)

\* What only a call from outside of the machine changes.
Alike(c, d) == /\ d.lib = c.lib /\ d.model = c.model
               /\ TextBase(d.prn) = TextBase(c.prn) /\ CodeBase(d.prn) = CodeBase(c.prn)
Held(c, d) ==
  Sound(c) => /\ Sound(d) /\ Alike(c, d)
              /\ d.card.present => c.card.present
              /\ \A i \in Pos : 2 \in d.key[i] <=> 2 \in c.key[i]

LEMMA SoundWhole == ASSUME NEW c, Sound(c) PROVE Whole(c)
  BY DEF Sound

LEMMA HeldItself == ASSUME NEW c PROVE Held(c, c)
  BY DEF Held, Alike

LEMMA HeldThen == ASSUME NEW c, NEW d, NEW e, Held(c, d), Held(d, e) PROVE Held(c, e)
  BY DEF Held, Alike

LEMMA SameHeld == ASSUME NEW c, NEW d, Whole(c) => Same(c, d) PROVE Held(c, d)
<1> SUFFICES ASSUME Sound(c), Same(c, d) PROVE Held(c, d)
  BY DEF Held, Sound
<1>1. Whole(d)
  BY SameWhole DEF Sound
<1> QED
  BY <1>1 DEF Same, Held, Sound, Alike

LEMMA PrnHeld == ASSUME NEW c, NEW v, PrnKept(c.prn, v) PROVE Held(c, [c EXCEPT !.prn = v])
<1> SUFFICES ASSUME Sound(c) PROVE Held(c, [c EXCEPT !.prn = v])
  BY DEF Held
<1> DEFINE d == [c EXCEPT !.prn = v]
<1>1. Whole(d) /\ d.lib = c.lib /\ d.model = c.model /\ d.key = c.key /\ d.card = c.card /\ d.prn = v
  BY DEF Sound, Whole, Parts
<1>2. PrnOk(v) /\ TextBase(v) = TextBase(c.prn) /\ CodeBase(v) = CodeBase(c.prn)
  BY DEF Sound, PrnKept
<1> HIDE DEF d
<1> QED
  BY <1>1, <1>2 DEF Held, Sound, Alike, d

\* The reader's operations, and the switch that goes back when a card leaves.
LEMMA CardHeld ==
  ASSUME NEW c, NEW v, Sound(c) => /\ {"present", "waiting"} \subseteq DOMAIN v
                                   /\ v.present = c.card.present /\ (v.present => ~v.waiting)
  PROVE  Held(c, [c EXCEPT !.card = v])
<1> SUFFICES ASSUME Sound(c) PROVE Held(c, [c EXCEPT !.card = v])
  BY DEF Held
<1> DEFINE d == [c EXCEPT !.card = v]
<1>1. Whole(d) /\ d.lib = c.lib /\ d.model = c.model /\ d.key = c.key /\ d.card = v /\ d.prn = c.prn
  BY DEF Sound, Whole, Parts
<1> HIDE DEF d
<1> QED
  BY <1>1 DEF Held, Sound, Alike, d

LEMMA SwipeSame ==
  ASSUME NEW c, Sound(c), NEW v
  PROVE  /\ Held(c, [c EXCEPT !.card = CardIn(@).card]) /\ Held(c, [c EXCEPT !.card = CardOut(@, v)])
         /\ Held(c, [c EXCEPT !.card = CardRead(@)]) /\ Held(c, [c EXCEPT !.card = CardWrite(@)])
<1> DEFINE Like(x) == {"present", "waiting"} \subseteq DOMAIN x /\ x.present = c.card.present /\ (x.present => ~x.waiting)
<1>1. Like(CardIn(c.card).card)
  BY DEF CardIn, Sound
<1>2. Like(CardOut(c.card, v))
  BY DEF CardOut, Sound
<1>3. Like(CardRead(c.card))
  BY DEF CardRead, Sound
<1>4. Like(CardWrite(c.card))
  BY DEF CardWrite, Sound
<1> QED
  BY <1>1, <1>2, <1>3, <1>4, CardHeld

LEMMA SwitchInPos ==
  ASSUME NEW d
  PROVE  SwitchCol(d) \in Pos /\ PrinterCol(d) \in Pos /\ 12 \in Pos /\ 15 \in Pos
  BY DEF SwitchCol, PrinterCol, Pos

LEMMA WaitHeld ==
  ASSUME NEW c, NEW b, Sound(c), b \in BOOLEAN
  PROVE  Held(c, [c EXCEPT !.card = WaitsForCard(@, b)])
<1>1. /\ {"present", "waiting"} \subseteq DOMAIN WaitsForCard(c.card, b) /\ WaitsForCard(c.card, b).present = c.card.present
      /\ (WaitsForCard(c.card, b).present => ~WaitsForCard(c.card, b).waiting)
  BY DEF WaitsForCard, Sound
<1> QED
  BY <1>1, CardHeld

LEMMA LeavesHeld == ASSUME NEW c, Sound(c) PROVE Held(c, CardLeaves(c))
<1> DEFINE s == SwitchCol(c.model)
           d == CardLeaves(c)
<1>1. s \in Pos
  BY SwitchInPos
<1>2. /\ {"present", "waiting"} \subseteq DOMAIN CardOff(c.card) /\ CardOff(c.card).present = FALSE
  BY DEF CardOff, Sound
<1>3. /\ Whole(d) /\ d.lib = c.lib /\ d.model = c.model /\ d.prn = c.prn /\ d.ring = c.ring
      /\ d.card = CardOff(c.card) /\ d.key = [c.key EXCEPT ![s] = @ \cup {4}]
  BY DEF CardLeaves, Sound, Whole, Parts
<1> HIDE DEF s, d
<1>4. DOMAIN d.key = Pos /\ \A i \in Pos : d.key[i] = IF i = s THEN c.key[i] \cup {4} ELSE c.key[i]
  BY <1>1, <1>3 DEF Sound
<1>5. 4 \in d.key[s] /\ \A i \in Pos : 2 \in d.key[i] <=> 2 \in c.key[i]
  <2>1. 4 \in d.key[s]
    BY <1>1, <1>4
  <2>2. \A i \in Pos : 2 \in d.key[i] <=> 2 \in c.key[i]
    <3> TAKE i \in Pos
    <3>1. d.key[i] = c.key[i] \/ d.key[i] = c.key[i] \cup {4}
      BY <1>4
    <3> QED
      BY <3>1
  <2> QED
    BY <2>1, <2>2
<1>6. Sound(d)
  <2>1. s = SwitchCol(d.model) /\ c.model \in Calculators /\ PrnOk(c.prn) /\ Headed(d.ring)
    BY <1>3 DEF s, Sound
  <2>2. 4 \in d.key[SwitchCol(d.model)]
    BY <1>5, <2>1
  <2>3. d.card.present = FALSE /\ {"present", "waiting"} \subseteq DOMAIN d.card /\ DOMAIN d.key = Pos /\ d.prn = c.prn
    BY <1>2, <1>3, <1>4
  <2> QED
    BY <1>3, <2>1, <2>2, <2>3 DEF Sound
<1> QED
  BY <1>2, <1>3, <1>5, <1>6 DEF Held, Alike, d

LEMMA PeripheralHeld == ASSUME NEW c, NEW op PROVE Held(c, Peripheral(c, op))
<1> SUFFICES ASSUME Sound(c) PROVE Held(c, Peripheral(c, op))
  BY DEF Held
<1>w. Whole(c)
  BY DEF Sound
<1>0. CASE op[3] \in {0, 1}
  <2> DEFINE v == Bits(c.KR, 4, 4)
             w == PutBits(c.KR, 4, 4, c.R5)
  <2>a. Same(c, [c EXCEPT !.R5 = v]) /\ Same(c, [c EXCEPT !.KR = w])
    <3> HIDE DEF v, w
    <3> QED
      BY <1>w DEF Same, Whole, Parts
  <2>b. Peripheral(c, op) \in {[c EXCEPT !.R5 = v], [c EXCEPT !.KR = w]}
    BY <1>0 DEF Peripheral
  <2>1. Same(c, Peripheral(c, op))
    BY <2>a, <2>b
  <2> QED
    BY <2>1, SameHeld
<1>2. CASE op[3] = 2
  <2> DEFINE d == [c EXCEPT !.card = CardIn(@).card]
             v == CardIn(c.card).nibble * 16
  <2>1. Held(c, d)
    BY SwipeSame
  <2>2. Peripheral(c, op) = Answer(d, v)
    BY <1>2 DEF Peripheral
  <2>3. Sound(d)
    BY <2>1 DEF Held
  <2> HIDE DEF d, v
  <2>4. Held(d, Answer(d, v))
    BY <2>3, SoundWhole, AnswerSame, SameHeld
  <2> QED
    BY <2>1, <2>2, <2>4, HeldThen
<1>3. CASE op[3] \in {3, 5, 12}
  <2> DEFINE v == Bits(c.KR, 4, 8)
  <2>1. Held(c, [c EXCEPT !.card = CardOut(@, v)]) /\ Held(c, [c EXCEPT !.card = CardRead(@)]) /\ Held(c, [c EXCEPT !.card = CardWrite(@)])
    BY SwipeSame
  <2>2. Peripheral(c, op) \in {[c EXCEPT !.card = CardOut(@, v)], [c EXCEPT !.card = CardRead(@)], [c EXCEPT !.card = CardWrite(@)]}
    BY <1>3 DEF Peripheral
  <2> QED
    BY <2>1, <2>2
<1>4. CASE op[3] = 4
  BY <1>4, LeavesHeld DEF Peripheral
<1>6. CASE op[3] \in {6, 7, 8, 9}
  <2> DEFINE v == Bits(c.KR, 4, 6)
             w == Bits(c.KR, 4, 7)
  <2>1. /\ Held(c, [c EXCEPT !.prn = OutPrt(@, v)]) /\ Held(c, [c EXCEPT !.prn = OutPrtFunc(@, w)])
        /\ Held(c, [c EXCEPT !.prn = PrtClear(@)]) /\ Held(c, [c EXCEPT !.prn = PrtStep(@)])
    BY BufferKept, PrnHeld
  <2>2. Peripheral(c, op) \in {[c EXCEPT !.prn = OutPrt(@, v)], [c EXCEPT !.prn = OutPrtFunc(@, w)],
                               [c EXCEPT !.prn = PrtClear(@)], [c EXCEPT !.prn = PrtStep(@)]}
    BY <1>6 DEF Peripheral
  <2> QED
    BY <2>1, <2>2
<1>10. CASE op[3] = 10
  <2> DEFINE b == IF Prints(c.prn) THEN Raise(c, "BUSY") ELSE c
  <2>1. Held(c, b) /\ b.prn = c.prn
    <3>1. Same(c, b)
      BY <1>w, FlagsSame, SameItself
    <3> QED
      BY <3>1, SameHeld DEF Same
  <2>2. Peripheral(c, op) = [b EXCEPT !.prn = PrtPrint(@)]
    BY <1>10 DEF Peripheral
  <2> HIDE DEF b
  <2>3. Held(b, [b EXCEPT !.prn = PrtPrint(@)])
    BY PrintKept, PrnHeld
  <2> QED
    BY <2>1, <2>2, <2>3, HeldThen
<1>11. CASE op[3] = 11
  <2> DEFINE b == Raise(c, "BUSY")
  <2>1. Held(c, b)
    <3>1. Same(c, b)
      BY <1>w, FlagsSame
    <3> QED
      BY <3>1, SameHeld
  <2>2. Peripheral(c, op) = [b EXCEPT !.prn = PrtFeed(@)]
    BY <1>11 DEF Peripheral
  <2> HIDE DEF b
  <2>3. Held(b, [b EXCEPT !.prn = PrtFeed(@)])
    BY FeedKept, PrnHeld
  <2> QED
    BY <2>1, <2>2, <2>3, HeldThen
<1>15. CASE op[3] = 15
  <2>1. Peripheral(c, op) = Raise(c, "RAM_OP")
    BY <1>15 DEF Peripheral
  <2> QED
    BY <2>1, <1>w, FlagsSame, SameHeld
<1>16. CASE op[3] \notin {0, 1, 2, 3, 4, 5, 6, 7, 8, 9, 10, 11, 12, 15}
  <2>1. Peripheral(c, op) = c
    BY <1>16 DEF Peripheral
  <2> QED
    BY <2>1, HeldItself
<1> QED
  BY <1>0, <1>2, <1>3, <1>4, <1>6, <1>10, <1>11, <1>15, <1>16

\* TST BUSY in the switch's column has the reader wait for a card.
LEMMA TestBusyHeld == ASSUME NEW c PROVE Held(c, TestBusy(c))
<1> SUFFICES ASSUME Sound(c) PROVE Held(c, TestBusy(c))
  BY DEF Held
<1> DEFINE high == 4 \in c.key[c.digit]
           b == c.digit = SwitchCol(c.model) /\ high
           d == [c EXCEPT !.card = WaitsForCard(@, b)]
           p == c.polled \/ (high /\ ~Has(c, "BUSY"))
           n == [d EXCEPT !.polled = p]
           drop == high \/ Has(c, "BUSY")
<1>1. Held(c, d)
  <2>1. b \in BOOLEAN
    OBVIOUS
  <2> HIDE DEF b
  <2> QED
    BY <2>1, WaitHeld
<1>2. Sound(d)
  BY <1>1 DEF Held
<1>3. TestBusy(c) = DropIf(n, "COND", drop)
  <2>1. TestBusy(c) = DropIf([c EXCEPT !.card = WaitsForCard(@, b), !.polled = p], "COND", drop)
    BY Zenon DEF TestBusy
  <2> QED
    BY <2>1
<1> HIDE DEF d, p, drop
<1>4. Same(d, n)
  BY <1>2 DEF Same, Parts, Sound, Whole
<1>5. Whole(n)
  BY <1>4, SameWhole
<1>6. Held(d, n)
  BY <1>4, SameHeld
<1> HIDE DEF n
<1>7. Held(n, DropIf(n, "COND", drop))
  <2>1. Same(n, DropIf(n, "COND", drop))
    BY <1>5, FlagsSame
  <2> QED
    BY <2>1, SameHeld
<1> QED
  BY <1>1, <1>3, <1>6, <1>7, HeldThen

LEMMA ControlHeld == ASSUME NEW c, NEW op PROVE Held(c, Control(c, op))
<1> SUFFICES ASSUME Sound(c) PROVE Held(c, Control(c, op))
  BY DEF Held
<1>w. Whole(c)
  BY DEF Sound
<1>h. \A d : Same(c, d) => Held(c, d)
  BY SameHeld
<1>f. \A f : Same(c, Raise(c, f)) /\ Same(c, Drop(c, f)) /\ \A b : Same(c, DropIf(c, f, b))
  BY <1>w, FlagsSame
<1>1. CASE op[4] \in {0, 1, 5, 9}
  <2>1. Control(c, op) \in {c, Raise(c, "HOLD"), Drop(c, "IDLE"), DropIf(c, "COND", Bit(c.KR, op[3])), Raise(c, "IDLE")}
    BY <1>1 DEF Control
  <2> QED
    BY <2>1, <1>h, <1>f, HeldItself
<1>2. CASE op[4] \in {2, 4, 7, 10, 12}
  <2> DEFINE u == IncKR(c.KR)
             v == BitOr(c.KR % 16, c.EXT, 16)
             w == op[3]
             Set == {[c EXCEPT !.fA = 0], [c EXCEPT !.KR = u], [c EXCEPT !.R5 = w], [c EXCEPT !.fB = 0], [c EXCEPT !.KR = v]}
  <2>1. Control(c, op) \in Set
    BY <1>2 DEF Control
  <2> HIDE DEF u, v, w
  <2>2. \A d \in Set : Same(c, d)
    BY <1>w DEF Same, Parts, Whole
  <2> QED
    BY <2>1, <2>2, <1>h
<1>3. CASE op[4] = 13
  <2>1. Control(c, op) = [c EXCEPT !.KR = c.SR, !.SR = c.KR]
    BY <1>3 DEF Control
  <2>2. Same(c, [c EXCEPT !.KR = c.SR, !.SR = c.KR])
    BY <1>w DEF Same, Parts, Whole
  <2> QED
    BY <2>1, <2>2, <1>h
<1>4. CASE op[4] = 6
  <2>1. Control(c, op) = MemoryOp(c, op)
    BY <1>4 DEF Control
  <2> QED
    BY <2>1, <1>w, MemoryOpSame, <1>h
<1>5. CASE op[4] = 8
  <2>1. Control(c, op) = Peripheral(c, op)
    BY <1>5 DEF Control
  <2> QED
    BY <2>1, PeripheralHeld
<1>6. CASE op[4] = 11
  <2>1. Control(c, op) = TestBusy(c)
    BY <1>6 DEF Control
  <2> QED
    BY <2>1, TestBusyHeld
<1>7. CASE op[4] = 14
  <2>1. Control(c, op) = LibraryOp(c, op)
    BY <1>7 DEF Control
  <2> QED
    BY <2>1, <1>w, LibraryOpSame, <1>h
<1>8. CASE op[4] = 15 /\ op[3] \in {0, 1}
  <2> DEFINE f == IF op[3] = 0 THEN "STORE" ELSE "RECALL"
             r == Raise(c, f)
             v == c.Sout[0] % 16
  <2>1. Control(c, op) = [r EXCEPT !.REG_ADDR = v]
    BY <1>8 DEF Control
  <2>2. Same(c, r)
    BY <1>f
  <2> HIDE DEF r, v
  <2>3. Same(c, [r EXCEPT !.REG_ADDR = v])
    BY <2>2 DEF Same, Parts
  <2> QED
    BY <2>1, <2>3, <1>h
<1>9. CASE ~(op[4] \in {0, 1, 2, 4, 5, 6, 7, 8, 9, 10, 11, 12, 13, 14} \/ (op[4] = 15 /\ op[3] \in {0, 1}))
  <2>1. Control(c, op) = c
    BY <1>9 DEF Control
  <2> QED
    BY <2>1, HeldItself
<1> QED
  BY <1>1, <1>2, <1>3, <1>4, <1>5, <1>6, <1>7, <1>8, <1>9

LEMMA ExecuteHeld == ASSUME NEW c, NEW op PROVE Held(c, Execute(c, op))
<1> SUFFICES ASSUME Sound(c) PROVE Held(c, Execute(c, op))
  BY DEF Held
<1>1. Whole(c)
  BY DEF Sound
<1>2. Held(c, FlagOp(c, op)) /\ Held(c, KeyScan(c, op)) /\ Held(c, Control(c, op)) /\ Held(c, ExecAlu(c, op))
  BY <1>1, FlagOpSame, KeyScanSame, ControlHeld, ExecAluSame, SameHeld
<1>3. Execute(c, op) \in {FlagOp(c, op), KeyScan(c, op), Control(c, op), ExecAlu(c, op)}
  BY DEF Execute
<1> QED
  BY <1>2, <1>3

LEMMA PreparedHeld == ASSUME NEW c, NEW rom PROVE Held(c, Prepared(c, rom))
<1> SUFFICES ASSUME Sound(c) PROVE Held(c, Prepared(c, rom))
  BY DEF Held
<1> DEFINE q == DropIf(c, "BUSY", c.prn.busy = 1)
           t == [q EXCEPT !.prn = BusyTick(@)]
           b == BeginNextStep(t, rom)
           x == IF Has(c, "EXT_VALID") THEN b.EXT ELSE 0
           y == IF b.digit = 0 THEN 15 ELSE b.digit - 1
           z == Bus(c)
           n == [b EXCEPT !.digit = y, !.polled = FALSE, !.EXT = x, !.Sout = z]
           fl == n.flags \ {"HOLD", "EXT_VALID", "IO_VALID"}
<1>1. Prepared(c, rom) = [n EXCEPT !.flags = fl]
  BY DEF Prepared
<1>2. Held(c, q)
  <2>1. Same(c, q)
    BY FlagsSame, SoundWhole
  <2> QED
    BY <2>1, SameHeld
<1> HIDE DEF q
<1>3. Held(q, t)
  BY BusyTickKept, PrnHeld
<1>4. Sound(t)
  BY <1>2, <1>3 DEF Held
<1> HIDE DEF t
<1>5. Same(t, b)
  BY <1>4, SoundWhole, BeginNextStepSame
<1>6. Whole(b) /\ Held(t, b)
  BY <1>5, SameWhole, SameHeld
<1> HIDE DEF b, x, y, z
<1>7. Same(b, n)
  BY <1>6 DEF Same, Whole, Parts
<1>8. Whole(n) /\ Held(b, n)
  BY <1>7, SameWhole, SameHeld
<1> HIDE DEF n, fl
<1>9. Same(n, [n EXCEPT !.flags = fl])
  BY <1>8 DEF Same, Whole, Parts
<1>10. Held(n, Prepared(c, rom))
  BY <1>1, <1>9, SameHeld
<1> QED
  BY <1>2, <1>3, <1>6, <1>8, <1>10, HeldThen

\* One instruction, the peripherals it clocks and what is recorded of it.
LEMMA StepHeld == ASSUME NEW c, NEW rom PROVE Held(c, Step(c, rom))
<1> SUFFICES ASSUME Sound(c) PROVE Held(c, Step(c, rom))
  BY DEF Held
<1> DEFINE op == Opcode(c, rom, c.addr)
           n == Prepared(c, rom)
           spin == c.polled /\ Taken(n, op) /\ op[4] % 2 = 1
<1>1. Held(c, n) /\ Sound(n)
  BY PreparedHeld DEF Held
<1>2. \A d : Sound(d) => /\ Held(d, Driven(d)) /\ Held(d, Counted(d)) /\ Held(d, Advanced(d)) /\ Held(d, PregLatched(d)) /\ Held(d, Noted(d))
                         /\ \A v : Held(d, [d EXCEPT !.spin = v])
  <2> TAKE d
  <2> HAVE Sound(d)
  <2>1. \A v : Same(d, [d EXCEPT !.spin = v])
    BY DEF Same, Sound, Whole, Parts
  <2> QED
    BY <2>1, SoundWhole, DrivenSame, CountedSame, AdvancedSame, PregLatchedSame, NotedSame, SameHeld
<1>3. CASE IsBranch(op)
  <2> DEFINE a == Branch(n, op)
             b == Driven(a)
             d == Counted(b)
             e == [d EXCEPT !.spin = spin]
  <2>1. Step(c, rom) = Noted(e)
    <3>1. Step(c, rom) = Noted([Counted(Driven(Branch(n, op))) EXCEPT !.spin = c.polled /\ (Taken(n, op) /\ op[4] % 2 = 1)])
      BY <1>3, Zenon DEF Step
    <3> QED
      BY <3>1
  <2> HIDE DEF n, op, spin
  <2>2. Held(n, a)
    BY <1>1, SoundWhole, BranchSame, SameHeld
  <2>3. Sound(a)
    BY <1>1, <2>2 DEF Held
  <2> HIDE DEF a
  <2>4. Held(a, b) /\ Sound(b)
    BY <1>2, <2>3 DEF Held
  <2> HIDE DEF b
  <2>5. Held(b, d) /\ Sound(d)
    BY <1>2, <2>4 DEF Held
  <2> HIDE DEF d
  <2>6. Held(d, e) /\ Sound(e)
    BY <1>2, <2>5 DEF Held
  <2> HIDE DEF e
  <2>7. Held(e, Step(c, rom))
    BY <1>2, <2>1, <2>6
  <2> QED
    BY <1>1, <2>2, <2>4, <2>5, <2>6, <2>7, HeldThen
<1>4. CASE ~IsBranch(op)
  <2> DEFINE a == Execute(n, op)
             b == Driven(a)
             d == Advanced(b)
             e == Counted(d)
             f == PregLatched(e)
             g == [f EXCEPT !.spin = FALSE]
  <2>1. Step(c, rom) = Noted(g)
    BY <1>4, Zenon DEF Step
  <2> HIDE DEF n, op
  <2>2. Held(n, a) /\ Sound(a)
    BY <1>1, ExecuteHeld DEF Held
  <2> HIDE DEF a
  <2>3. Held(a, b) /\ Sound(b)
    BY <1>2, <2>2 DEF Held
  <2> HIDE DEF b
  <2>4. Held(b, d) /\ Sound(d)
    BY <1>2, <2>3 DEF Held
  <2> HIDE DEF d
  <2>5. Held(d, e) /\ Sound(e)
    BY <1>2, <2>4 DEF Held
  <2> HIDE DEF e
  <2>6. Held(e, f) /\ Sound(f)
    BY <1>2, <2>5 DEF Held
  <2> HIDE DEF f
  <2>7. Held(f, g) /\ Sound(g)
    BY <1>2, <2>6 DEF Held
  <2> HIDE DEF g
  <2>8. Held(g, Step(c, rom))
    BY <1>2, <2>1, <2>7
  <2>9. Held(n, d) /\ Held(d, f)
    BY <2>2, <2>3, <2>4, <2>5, <2>6, HeldThen
  <2>10. Held(n, f) /\ Held(f, Step(c, rom))
    BY <2>7, <2>8, <2>9, HeldThen
  <2> QED
    BY <1>1, <2>10, HeldThen
<1> QED
  BY <1>3, <1>4

--------------------------------------------------------------------------------
(***************************************************************************)
(* The loops of the machine, for as many passes as they make: each is the  *)
(* fold of one pass, and a fold has its value at every number by           *)
(* NatSetInduction (JobQueueProofs).                                       *)
(***************************************************************************)

\* One pass of each of the machine's loops, i-th of the loop, from what the one before came to.
GoesOn(loop, rom, x, r, i) ==
  CASE loop = "stepN"   -> SteppedOnce(r, rom)
    [] loop = "until"   -> IF r.stop \/ r.done >= x THEN r ELSE Cycled(r, Step(r.m, rom))
    [] loop = "inject"  -> IF i > 1 /\ r.addr = x THEN r ELSE Step([r EXCEPT !.EXT = x, !.PREG = x], rom)
    [] loop = "startup" -> IF r.done = StartupSteps THEN r ELSE GoneOn(r, StepN(r.m, rom, StartupSteps - r.done))
Runs(f, loop, rom, x, first, n) ==
  f = [i \in 0..n |-> IF i = 0 THEN first ELSE GoesOn(loop, rom, x, f[i - 1], i)]

\* The function that a loop's recursion defines exists at every number.
LEMMA RunExists ==
  ASSUME NEW loop, NEW rom, NEW x, NEW first
  PROVE  \A n \in Nat : \E f : Runs(f, loop, rom, x, first, n)
<1> DEFINE T == {n \in Nat : \E f : Runs(f, loop, rom, x, first, n)}
           Go(r, i) == GoesOn(loop, rom, x, r, i)
<1>1. 0 \in T
  <2> DEFINE f == [i \in 0..0 |-> first]
  <2>1. Runs(f, loop, rom, x, first, 0)
    BY DEF Runs
  <2> QED
    BY <2>1
<1>2. ASSUME NEW n \in Nat, n \in T PROVE n + 1 \in T
  <2>1. PICK f : Runs(f, loop, rom, x, first, n)
    BY <1>2
  <2> DEFINE g == [i \in 0..(n + 1) |-> IF i = n + 1 THEN Go(f[n], i) ELSE f[i]]
             h == [i \in 0..(n + 1) |-> IF i = 0 THEN first ELSE Go(g[i - 1], i)]
  <2>2. \A i \in 0..n : f[i] = IF i = 0 THEN first ELSE Go(f[i - 1], i)
    BY <2>1 DEF Runs
  <2> HIDE DEF Go
  <2>3. ASSUME NEW i \in 0..(n + 1) PROVE g[i] = h[i]
    <3>1. CASE i = n + 1
      <4>1. g[i - 1] = f[n] /\ i # 0
        BY <3>1
      <4> QED
        BY <3>1, <4>1
    <3>2. CASE i \in 0..n /\ i # 0
      <4>1. g[i - 1] = f[i - 1] /\ i # n + 1 /\ g[i] = f[i]
        BY <3>2
      <4> QED
        BY <2>2, <3>2, <4>1
    <3>3. CASE i = 0
      BY <2>2, <3>3
    <3> QED
      BY <3>1, <3>2, <3>3
  <2>4. g = h
    BY <2>3
  <2>5. Runs(g, loop, rom, x, first, n + 1)
    BY <2>4 DEF Runs, Go
  <2> QED
    BY <2>5
<1> HIDE DEF T
<1>3. Nat \subseteq T
  BY <1>1, <1>2, NatSetInduction
<1> QED
  BY <1>3 DEF T

\* Its values, one pass after the other.
LEMMA RunAt ==
  ASSUME NEW loop, NEW rom, NEW x, NEW first, NEW n \in Nat, NEW f, Runs(f, loop, rom, x, first, n)
  PROVE  f[0] = first /\ \A i \in 1..n : f[i] = GoesOn(loop, rom, x, f[i - 1], i)
<1>1. \A i \in 0..n : f[i] = IF i = 0 THEN first ELSE GoesOn(loop, rom, x, f[i - 1], i)
  BY DEF Runs
<1> QED
  BY <1>1

\* StepN's function is such a run, by its definition.
LEMMA StepNIs ==
  ASSUME NEW c, NEW rom, NEW n \in Nat
  PROVE  \E f : Runs(f, "stepN", rom, 0, StartRun(c), n) /\ StepN(c, rom, n) = f[n]
<1> DEFINE Body(f) == [i \in 0..n |-> IF i = 0 THEN StartRun(c) ELSE SteppedOnce(f[i - 1], rom)]
           run == CHOOSE f : f = Body(f)
<1>1. \A f : Runs(f, "stepN", rom, 0, StartRun(c), n) <=> f = Body(f)
  <2> TAKE f
  <2>1. [i \in 0..n |-> IF i = 0 THEN StartRun(c) ELSE GoesOn("stepN", rom, 0, f[i - 1], i)] = Body(f)
    BY DEF GoesOn
  <2> QED
    BY <2>1 DEF Runs
<1>2. run = Body(run)
  <2>1. PICK f : Runs(f, "stepN", rom, 0, StartRun(c), n)
    BY RunExists
  <2>2. f = Body(f)
    BY <1>1, <2>1
  <2> HIDE DEF Body
  <2> QED
    BY <2>2
<1>3. StepN(c, rom, n) = run[n]
  BY DEF StepN
<1> HIDE DEF run
<1> QED
  BY <1>1, <1>2, <1>3

LEMMA SteppedHeld ==
  ASSUME NEW c, NEW rom
  PROVE  \A r : Held(c, r.m) => Held(c, SteppedOnce(r, rom).m)
<1> TAKE r
<1> HAVE Held(c, r.m)
<1> DEFINE n == Step(r.m, rom)
           e == [n EXCEPT !.hit = FALSE]
<1>1. Held(c, n)
  BY StepHeld, HeldThen
<1>2. SteppedOnce(r, rom).m = IF r.stop THEN r.m ELSE e
  BY Zenon DEF SteppedOnce, Landed
<1> HIDE DEF n
<1>3. Held(n, e)
  <2>1. Whole(n) => Same(n, e)
    BY DEF Same, Whole, Parts
  <2> QED
    BY <2>1, SameHeld
<1> HIDE DEF e
<1> QED
  BY <1>1, <1>2, <1>3, HeldThen

LEMMA StepNHeld ==
  ASSUME NEW c, NEW rom, NEW n \in Nat
  PROVE  Held(c, StepN(c, rom, n).m) /\ StepN(c, rom, n).done \in 0..n
<1>1. PICK f : Runs(f, "stepN", rom, 0, StartRun(c), n) /\ StepN(c, rom, n) = f[n]
  BY StepNIs
<1>2. f[0] = StartRun(c) /\ \A i \in 1..n : f[i] = SteppedOnce(f[i - 1], rom)
  <2>1. f[0] = StartRun(c) /\ \A i \in 1..n : f[i] = GoesOn("stepN", rom, 0, f[i - 1], i)
    <3> DEFINE first == StartRun(c)
    <3>1. Runs(f, "stepN", rom, 0, first, n)
      BY <1>1
    <3> HIDE DEF first
    <3>2. f[0] = first /\ \A i \in 1..n : f[i] = GoesOn("stepN", rom, 0, f[i - 1], i)
      BY <3>1, RunAt
    <3> QED
      BY <3>2 DEF first
  <2>2. \A r, i : GoesOn("stepN", rom, 0, r, i) = SteppedOnce(r, rom)
    BY DEF GoesOn
  <2> QED
    BY <2>1, <2>2
<1> DEFINE T == {i \in Nat : i <= n => Held(c, f[i].m) /\ f[i].done \in 0..i}
<1>3. 0 \in T
  BY <1>2, HeldItself DEF StartRun
<1>4. ASSUME NEW i \in Nat, i \in T, i + 1 <= n PROVE i + 1 \in T
  <2>1. f[i + 1] = SteppedOnce(f[i], rom)
    <3>1. i + 1 \in 1..n /\ (i + 1) - 1 = i
      BY <1>4
    <3> QED
      BY <1>2, <3>1
  <2>2. Held(c, f[i].m) /\ f[i].done \in 0..i
    BY <1>4
  <2>3. Held(c, f[i + 1].m)
    BY <2>1, <2>2, SteppedHeld
  <2>4. SteppedOnce(f[i], rom).done \in {f[i].done, f[i].done + 1}
    BY DEF SteppedOnce, Landed
  <2>5. f[i + 1].done \in 0..(i + 1)
    BY <2>1, <2>2, <2>4
  <2> QED
    BY <2>3, <2>5
<1>5. \A i \in Nat : i \in T => i + 1 \in T
  BY <1>4
<1> HIDE DEF T
<1>6. Nat \subseteq T
  BY <1>3, <1>5, NatSetInduction
<1> QED
  BY <1>1, <1>6 DEF T

\* The ROM's start and the two loops of an overlay, likewise.
LEMMA StartupIs ==
  ASSUME NEW c, NEW rom
  PROVE  \E f : Runs(f, "startup", rom, 0, StartRun(c), StartupSteps) /\ RunStartup(c, rom) = f[StartupSteps].m
<1> DEFINE Body(f) == [k \in 0..StartupSteps |-> IF k = 0 THEN StartRun(c)
                          ELSE IF f[k - 1].done = StartupSteps THEN f[k - 1]
                               ELSE GoneOn(f[k - 1], StepN(f[k - 1].m, rom, StartupSteps - f[k - 1].done))]
           run == CHOOSE f : f = Body(f)
<1>1. \A f : Runs(f, "startup", rom, 0, StartRun(c), StartupSteps) <=> f = Body(f)
  <2> TAKE f
  <2>1. [i \in 0..StartupSteps |-> IF i = 0 THEN StartRun(c) ELSE GoesOn("startup", rom, 0, f[i - 1], i)] = Body(f)
    BY DEF GoesOn
  <2> QED
    BY <2>1 DEF Runs
<1>2. run = Body(run)
  <2>1. PICK f : Runs(f, "startup", rom, 0, StartRun(c), StartupSteps)
    BY RunExists, StartupAssumption, BudgetAssumption
  <2>2. f = Body(f)
    BY <1>1, <2>1
  <2> HIDE DEF Body
  <2> QED
    BY <2>2
<1>3. RunStartup(c, rom) = run[StartupSteps].m
  BY DEF RunStartup
<1> HIDE DEF run
<1> QED
  BY <1>1, <1>2, <1>3

LEMMA StartupHeld == ASSUME NEW c, NEW rom PROVE Held(c, RunStartup(c, rom))
<1> DEFINE n == StartupSteps
           Next1(r) == IF r.done = n THEN r ELSE GoneOn(r, StepN(r.m, rom, n - r.done))
<1>0. n \in Nat
  BY StartupAssumption, BudgetAssumption
<1>1. PICK f : Runs(f, "startup", rom, 0, StartRun(c), n) /\ RunStartup(c, rom) = f[n].m
  BY StartupIs
<1>2. f[0] = StartRun(c) /\ \A i \in 1..n : f[i] = Next1(f[i - 1])
  <2>1. f[0] = StartRun(c) /\ \A i \in 1..n : f[i] = GoesOn("startup", rom, 0, f[i - 1], i)
    BY <1>0, <1>1, RunAt
  <2>2. \A r, i : GoesOn("startup", rom, 0, r, i) = Next1(r)
    BY DEF GoesOn
  <2> QED
    BY <2>1, <2>2
<1> DEFINE T == {i \in Nat : i <= n => Held(c, f[i].m) /\ f[i].done \in 0..n}
<1>3. 0 \in T
  BY <1>0, <1>2, HeldItself DEF StartRun
<1>4. ASSUME NEW i \in Nat, i \in T, i + 1 <= n PROVE i + 1 \in T
  <2>1. f[i + 1] = Next1(f[i])
    <3>1. i + 1 \in 1..n /\ (i + 1) - 1 = i
      BY <1>0, <1>4
    <3> QED
      BY <1>2, <3>1
  <2>2. Held(c, f[i].m) /\ f[i].done \in 0..n
    BY <1>0, <1>4
  <2>3. CASE f[i].done = n
    BY <2>1, <2>2, <2>3
  <2>4. CASE f[i].done # n
    <3> DEFINE s == StepN(f[i].m, rom, n - f[i].done)
    <3>1. Held(f[i].m, s.m) /\ s.done \in 0..(n - f[i].done)
      <4>1. n - f[i].done \in Nat
        BY <1>0, <2>2
      <4> QED
        BY <4>1, StepNHeld
    <3>2. f[i + 1] = GoneOn(f[i], s)
      BY <2>1, <2>4
    <3> HIDE DEF s
    <3>4. Held(c, s.m)
      BY <2>2, <3>1, HeldThen
    <3>5. s.done + f[i].done \in 0..n
      BY <1>0, <2>2, <3>1
    <3>3. s.m = f[i + 1].m /\ f[i + 1].done = s.done + f[i].done
      BY <3>2 DEF GoneOn
    <3> QED
      BY <3>3, <3>4, <3>5
  <2> QED
    BY <2>3, <2>4
<1>5. \A i \in Nat : i \in T => i + 1 \in T
  BY <1>0, <1>4
<1> HIDE DEF T
<1>6. Nat \subseteq T
  BY <1>3, <1>5, NatSetInduction
<1> QED
  BY <1>0, <1>1, <1>6 DEF T

LEMMA UntilIs ==
  ASSUME NEW c, NEW rom, NEW n \in Nat
  PROVE  \E f : Runs(f, "until", rom, n, StartRun(c), n) /\ UntilBoundary(c, rom, n) = f[n].m
<1> DEFINE Body(f) == [i \in 0..n |-> IF i = 0 THEN StartRun(c)
                          ELSE IF f[i - 1].stop \/ f[i - 1].done >= n THEN f[i - 1]
                               ELSE Cycled(f[i - 1], Step(f[i - 1].m, rom))]
           run == CHOOSE f : f = Body(f)
<1>1. \A f : Runs(f, "until", rom, n, StartRun(c), n) <=> f = Body(f)
  <2> TAKE f
  <2>1. [i \in 0..n |-> IF i = 0 THEN StartRun(c) ELSE GoesOn("until", rom, n, f[i - 1], i)] = Body(f)
    BY DEF GoesOn
  <2> QED
    BY <2>1 DEF Runs
<1>2. run = Body(run)
  <2>1. PICK f : Runs(f, "until", rom, n, StartRun(c), n)
    BY RunExists
  <2>2. f = Body(f)
    BY <1>1, <2>1
  <2> HIDE DEF Body
  <2> QED
    BY <2>2
<1>3. UntilBoundary(c, rom, n) = run[n].m
  BY DEF UntilBoundary
<1> HIDE DEF run
<1> QED
  BY <1>1, <1>2, <1>3

LEMMA UntilHeld == ASSUME NEW c, NEW rom, NEW n \in Nat PROVE Held(c, UntilBoundary(c, rom, n))
<1>1. PICK f : Runs(f, "until", rom, n, StartRun(c), n) /\ UntilBoundary(c, rom, n) = f[n].m
  BY UntilIs
<1> DEFINE On(r) == Cycled(r, Step(r.m, rom))
<1>2. f[0] = StartRun(c) /\ \A i \in 1..n : f[i] = f[i - 1] \/ f[i] = On(f[i - 1])
  <2>1. f[0] = StartRun(c) /\ \A i \in 1..n : f[i] = GoesOn("until", rom, n, f[i - 1], i)
    <3> DEFINE first == StartRun(c)
    <3>1. Runs(f, "until", rom, n, first, n)
      BY <1>1
    <3> HIDE DEF first
    <3>2. f[0] = first /\ \A i \in 1..n : f[i] = GoesOn("until", rom, n, f[i - 1], i)
      BY <3>1, RunAt
    <3> QED
      BY <3>2 DEF first
  <2>2. ASSUME NEW r, NEW i PROVE GoesOn("until", rom, n, r, i) \in {r, On(r)}
    <3> DEFINE o == On(r)
    <3>1. GoesOn("until", rom, n, r, i) = IF r.stop \/ r.done >= n THEN r ELSE o
      BY DEF GoesOn
    <3> HIDE DEF o
    <3>2. GoesOn("until", rom, n, r, i) \in {r, o}
      BY <3>1
    <3> QED
      BY <3>2 DEF o
  <2> QED
    BY <2>1, <2>2
<1>3. ASSUME NEW r, Held(c, r.m) PROVE Held(c, On(r).m)
  <2> DEFINE d == Step(r.m, rom)
             e == [d EXCEPT !.hit = FALSE]
  <2>1. Held(c, d)
    BY <1>3, StepHeld, HeldThen
  <2>2. On(r).m = e
    BY DEF Cycled, Landed
  <2> HIDE DEF d
  <2>3. Held(d, e)
    <3>1. Whole(d) => Same(d, e)
      BY DEF Same, Whole, Parts
    <3> QED
      BY <3>1, SameHeld
  <2> QED
    BY <2>1, <2>2, <2>3, HeldThen
<1> HIDE DEF On
<1> DEFINE T == {i \in Nat : i <= n => Held(c, f[i].m)}
<1>4. 0 \in T
  BY <1>2, HeldItself DEF StartRun
<1>5. ASSUME NEW i \in Nat, i \in T, i + 1 <= n PROVE i + 1 \in T
  <2>1. f[i + 1] = f[i] \/ f[i + 1] = On(f[i])
    <3>1. i + 1 \in 1..n /\ (i + 1) - 1 = i
      BY <1>5
    <3> QED
      BY <1>2, <3>1
  <2>2. Held(c, f[i].m)
    BY <1>5
  <2> QED
    BY <1>3, <2>1, <2>2
<1>6. \A i \in Nat : i \in T => i + 1 \in T
  BY <1>5
<1> HIDE DEF T
<1>7. Nat \subseteq T
  BY <1>4, <1>6, NatSetInduction
<1> QED
  BY <1>1, <1>7 DEF T

LEMMA InjectedIs ==
  ASSUME NEW c, NEW rom, NEW x, NEW n \in Nat
  PROVE  \E f : Runs(f, "inject", rom, x, Raise(c, "COND"), n) /\ Injected(c, rom, x, n) = f[n]
<1> DEFINE Body(f) == [i \in 0..n |-> IF i = 0 THEN Raise(c, "COND")
                          ELSE IF i > 1 /\ f[i - 1].addr = x THEN f[i - 1]
                               ELSE Step([f[i - 1] EXCEPT !.EXT = x, !.PREG = x], rom)]
           run == CHOOSE f : f = Body(f)
<1>1. \A f : Runs(f, "inject", rom, x, Raise(c, "COND"), n) <=> f = Body(f)
  <2> TAKE f
  <2>1. [i \in 0..n |-> IF i = 0 THEN Raise(c, "COND") ELSE GoesOn("inject", rom, x, f[i - 1], i)] = Body(f)
    BY DEF GoesOn
  <2> QED
    BY <2>1 DEF Runs
<1>2. run = Body(run)
  <2>1. PICK f : Runs(f, "inject", rom, x, Raise(c, "COND"), n)
    BY RunExists
  <2>2. f = Body(f)
    BY <1>1, <2>1
  <2> HIDE DEF Body
  <2> QED
    BY <2>2
<1>3. Injected(c, rom, x, n) = run[n]
  BY DEF Injected
<1> HIDE DEF run
<1> QED
  BY <1>1, <1>2, <1>3

LEMMA InjectedHeld ==
  ASSUME NEW c, NEW rom, NEW x, NEW n \in Nat
  PROVE  Held(c, Injected(c, rom, x, n))
<1>1. PICK f : Runs(f, "inject", rom, x, Raise(c, "COND"), n) /\ Injected(c, rom, x, n) = f[n]
  BY InjectedIs
<1> DEFINE On(r) == Step([r EXCEPT !.EXT = x, !.PREG = x], rom)
<1>2. f[0] = Raise(c, "COND") /\ \A i \in 1..n : f[i] = f[i - 1] \/ f[i] = On(f[i - 1])
  <2>1. f[0] = Raise(c, "COND") /\ \A i \in 1..n : f[i] = GoesOn("inject", rom, x, f[i - 1], i)
    BY <1>1, RunAt
  <2>2. \A r, i : GoesOn("inject", rom, x, r, i) \in {r, On(r)}
    BY DEF GoesOn
  <2> QED
    BY <2>1, <2>2
<1>3. ASSUME NEW r, Held(c, r) PROVE Held(c, On(r))
  <2> DEFINE d == [r EXCEPT !.EXT = x, !.PREG = x]
  <2>1. Held(r, d)
    <3>1. Whole(r) => Same(r, d)
      BY DEF Same, Whole, Parts
    <3> QED
      BY <3>1, SameHeld
  <2> HIDE DEF d
  <2>2. Held(d, Step(d, rom))
    BY StepHeld
  <2>3. On(r) = Step(d, rom)
    BY DEF d
  <2> QED
    BY <1>3, <2>1, <2>2, <2>3, HeldThen
<1> HIDE DEF On
<1> DEFINE T == {i \in Nat : i <= n => Held(c, f[i])}
<1>4. 0 \in T
  <2>1. Held(c, Raise(c, "COND"))
    BY FlagsSame, SameHeld
  <2> QED
    BY <1>2, <2>1
<1>5. ASSUME NEW i \in Nat, i \in T, i + 1 <= n PROVE i + 1 \in T
  <2>1. f[i + 1] = f[i] \/ f[i + 1] = On(f[i])
    <3>1. i + 1 \in 1..n /\ (i + 1) - 1 = i
      BY <1>5
    <3> QED
      BY <1>2, <3>1
  <2>2. Held(c, f[i])
    BY <1>5
  <2> QED
    BY <1>3, <2>1, <2>2
<1>6. \A i \in Nat : i \in T => i + 1 \in T
  BY <1>5
<1> HIDE DEF T
<1>7. Nat \subseteq T
  BY <1>4, <1>6, NatSetInduction
<1> QED
  BY <1>1, <1>7 DEF T

--------------------------------------------------------------------------------
(***************************************************************************)
(* The key matrix, which carries the switches of the reader and of the     *)
(* printer beside the keys; resets and the reader's calls.                 *)
(***************************************************************************)
Lines(c, l) == /\ l.trace <=> 2 \in c.key[15]
               /\ l.connected <=> 2 \in c.key[PrinterCol(c.model)]
OfLatch(l) == {"connected", "trace"} \subseteq DOMAIN l /\ l.connected \in BOOLEAN /\ l.trace \in BOOLEAN
Apart(c, d) == d.lib = c.lib /\ d.model = c.model /\ d.card = c.card /\ d.prn = c.prn /\ d.ring = c.ring

\* One line of the matrix.
LEMMA LineSet ==
  ASSUME NEW c, Whole(c), DOMAIN c.key = Pos, NEW col \in Pos, NEW row, NEW on \in BOOLEAN
  PROVE  LET d == SetLine(c, col, row, on)
         IN /\ Whole(d) /\ Apart(c, d) /\ DOMAIN d.key = Pos
            /\ \A i \in Pos : i # col => d.key[i] = c.key[i]
            /\ \A r : r # row => (r \in d.key[col] <=> r \in c.key[col])
            /\ row \in d.key[col] <=> on
<1> DEFINE v == IF on THEN c.key[col] \cup {row} ELSE c.key[col] \ {row}
           d == SetLine(c, col, row, on)
<1>1. d = [c EXCEPT !.key[col] = v]
  BY DEF SetLine
<1>2. row \in v <=> on
  OBVIOUS
<1>3. \A r : r # row => (r \in v <=> r \in c.key[col])
  OBVIOUS
<1> HIDE DEF v, d
<1>4. Whole(d) /\ Apart(c, d) /\ d.key = [c.key EXCEPT ![col] = v]
  BY <1>1 DEF Whole, Parts, Apart
<1>5. DOMAIN d.key = Pos /\ d.key[col] = v /\ \A i \in Pos : i # col => d.key[i] = c.key[i]
  BY <1>4
<1> QED
  BY <1>2, <1>3, <1>4, <1>5 DEF d

\* The reader's switch.
LEMMA SwitchSet ==
  ASSUME NEW c, Whole(c), DOMAIN c.key = Pos, NEW on \in BOOLEAN
  PROVE  LET d == SetLine(c, SwitchCol(c.model), 4, on)
             col == SwitchCol(c.model)
         IN /\ Whole(d) /\ Apart(c, d) /\ DOMAIN d.key = Pos /\ (4 \in d.key[col] <=> on)
            /\ \A i \in Pos : i # col => d.key[i] = c.key[i]
            /\ \A r : r # 4 => (r \in d.key[col] <=> r \in c.key[col])
<1> DEFINE col == SwitchCol(c.model)
<1>1. col \in Pos
  BY SwitchInPos
<1> HIDE DEF col
<1>2. LET d == SetLine(c, col, 4, on)
      IN /\ Whole(d) /\ Apart(c, d) /\ DOMAIN d.key = Pos /\ (4 \in d.key[col] <=> on)
         /\ \A i \in Pos : i # col => d.key[i] = c.key[i]
         /\ \A r : r # 4 => (r \in d.key[col] <=> r \in c.key[col])
  BY <1>1, LineSet
<1> QED
  BY <1>2 DEF col

\* Any other line.
LEMMA LineSound ==
  ASSUME NEW c, Sound(c), NEW col \in Pos, NEW row, row # 4, NEW on \in BOOLEAN
  PROVE  LET d == SetLine(c, col, row, on)
         IN /\ Sound(d) /\ Apart(c, d)
            /\ \A i \in Pos : i # col => (2 \in d.key[i] <=> 2 \in c.key[i])
            /\ row # 2 => (2 \in d.key[col] <=> 2 \in c.key[col])
            /\ row \in d.key[col] <=> on
<1> DEFINE d == SetLine(c, col, row, on)
           s == SwitchCol(c.model)
<1>1. /\ Whole(d) /\ Apart(c, d) /\ DOMAIN d.key = Pos
      /\ \A i \in Pos : i # col => d.key[i] = c.key[i]
      /\ \A r : r # row => (r \in d.key[col] <=> r \in c.key[col])
      /\ row \in d.key[col] <=> on
  BY LineSet DEF Sound
<1> HIDE DEF d
<1>2. 4 \in d.key[s] <=> 4 \in c.key[s]
  <2>1. s \in Pos
    BY SwitchInPos
  <2> HIDE DEF s
  <2>2. CASE s = col
    <3>1. 4 # row
      OBVIOUS
    <3> QED
      BY <1>1, <2>2, <3>1
  <2>3. CASE s # col
    BY <1>1, <2>1, <2>3
  <2> QED
    BY <2>2, <2>3
<1>3. Sound(d)
  BY <1>1, <1>2 DEF Sound, Apart
<1>4. \A i \in Pos : i # col => (2 \in d.key[i] <=> 2 \in c.key[i])
  BY <1>1
<1>5. row # 2 => (2 \in d.key[col] <=> 2 \in c.key[col])
  BY <1>1
<1> QED
  BY <1>1, <1>3, <1>4, <1>5 DEF d

LEMMA PrinterAtStartOk == PrnOk(PrinterAtStart) /\ TextBase(PrinterAtStart) = 0 /\ CodeBase(PrinterAtStart) = 0
<1> DEFINE p == PrinterAtStart
           e == <<>>
<1>1. Len(e) = 0 /\ e \in Seq(Nat) /\ e \in Seq(CodeLines)
  OBVIOUS
<1>2. p.busy = 0 /\ p.serial = 0 /\ p.pending = e /\ p.lines = e /\ p.codes = e /\ {"busy", "serial", "pending", "lines", "codes"} \subseteq DOMAIN p
  BY DEF PrinterAtStart
<1> HIDE DEF p, e
<1>3. TextBase(p) = 0 /\ CodeBase(p) = 0
  <2>1. TextBase(p) = 0 - Len(e) /\ CodeBase(p) = 0 - Len(e) - Len(e)
    BY <1>2 DEF TextBase, CodeBase
  <2> QED
    BY <1>1, <2>1
<1>4. PrnOk(p)
  <2>1. \A i \in 1..Len(e) : FALSE
    BY <1>1
  <2>2. p.busy \in Nat /\ p.serial \in Nat /\ p.lines \in Seq(Nat) /\ p.codes \in Seq(CodeLines) /\ p.pending = <<>>
    BY <1>1, <1>2 DEF e
  <2>3. (\A i \in 1..Len(p.lines) : p.lines[i] = TextBase(p) + i) /\ (\A j \in 1..Len(p.codes) : p.codes[j].line = CodeBase(p) + j)
    BY <1>2, <2>1
  <2> QED
    BY <1>2, <2>2, <2>3 DEF PrnOk
<1> QED
  BY <1>3, <1>4 DEF p

\* The switch pressed and the printer's line set: what a machine starts with.
LEMMA SwitchAndLines ==
  ASSUME NEW c, Whole(c), Headed(c.ring), c.model \in Calculators, PrnOk(c.prn), DOMAIN c.key = Pos,
         {"present", "waiting"} \subseteq DOMAIN c.card, c.card.present = FALSE, NEW a \in BOOLEAN
  PROVE  LET d == SetPrinterConnectedLine(SwitchPressed(c), a)
         IN Sound(d) /\ Apart(c, d) /\ (2 \in d.key[PrinterCol(d.model)] <=> a) /\ (2 \in d.key[15] <=> 2 \in c.key[15])
<1> DEFINE s == SwitchPressed(c)
           d == SetPrinterConnectedLine(s, a)
           col == SwitchCol(c.model)
           at == PrinterCol(c.model)
<1>1. col \in Pos /\ at \in Pos /\ 15 \in Pos /\ at # 15 /\ col # 15
  BY SwitchInPos DEF PrinterCol, SwitchCol
<1> DEFINE on == TRUE
<1>0. on \in BOOLEAN /\ on /\ s = SetLine(c, SwitchCol(c.model), 4, on) /\ Whole(c) /\ DOMAIN c.key = Pos
  BY DEF SwitchPressed
<1> HIDE DEF on, s, d
<1>2. Sound(s) /\ Apart(c, s) /\ s.key[15] = c.key[15]
  <2>1. /\ Whole(s) /\ Apart(c, s) /\ DOMAIN s.key = Pos /\ 4 \in s.key[col]
        /\ \A i \in Pos : i # col => s.key[i] = c.key[i]
        /\ \A r : r # 4 => (r \in s.key[col] <=> r \in c.key[col])
    BY <1>0, SwitchSet
  <2>2. Sound(s)
    BY <2>1 DEF Sound, Apart
  <2> HIDE DEF col
  <2> QED
    BY <1>1, <2>1, <2>2
<1>3. d = SetLine(s, at, 2, a)
  <2>1. s.model = c.model
    BY <1>2 DEF Apart
  <2> QED
    BY <2>1 DEF SetPrinterConnectedLine, d
<1>4. /\ Sound(d) /\ Apart(s, d) /\ (2 \in d.key[at] <=> a)
      /\ \A i \in Pos : i # at => (2 \in d.key[i] <=> 2 \in s.key[i])
  <2> HIDE DEF at
  <2>1. 2 # 4
    OBVIOUS
  <2> QED
    BY <1>1, <1>2, <1>3, <2>1, LineSound
<1>5. d.model = c.model /\ Apart(c, d)
  BY <1>2, <1>4 DEF Apart
<1>6. 2 \in d.key[15] <=> 2 \in c.key[15]
  <2> HIDE DEF at
  <2> QED
    BY <1>1, <1>2, <1>4
<1> QED
  BY <1>4, <1>5, <1>6 DEF s, d

LEMMA TraceLineSet ==
  ASSUME NEW c, Sound(c), NEW b \in BOOLEAN
  PROVE  LET d == SetPrinterTraceLine(c, b)
         IN /\ Sound(d) /\ Apart(c, d) /\ (2 \in d.key[15] <=> b)
            /\ (2 \in d.key[PrinterCol(d.model)] <=> 2 \in c.key[PrinterCol(c.model)])
<1> DEFINE d == SetPrinterTraceLine(c, b)
           at == PrinterCol(c.model)
<1>1. at \in Pos /\ 15 \in Pos /\ at # 15 /\ 2 # 4
  BY SwitchInPos DEF PrinterCol
<1>2. d = SetLine(c, 15, 2, b)
  BY DEF SetPrinterTraceLine
<1> HIDE DEF d, at
<1>3. /\ Sound(d) /\ Apart(c, d) /\ (2 \in d.key[15] <=> b)
      /\ \A i \in Pos : i # 15 => (2 \in d.key[i] <=> 2 \in c.key[i])
  BY <1>1, <1>2, LineSound
<1>4. d.model = c.model
  BY <1>3 DEF Apart
<1> QED
  BY <1>1, <1>3, <1>4 DEF d, at

\* TI59Machine::reset(): no card is in, the lines are those of the latch.
LEMMA MachineResetSound ==
  ASSUME NEW c, Whole(c), Headed(c.ring), c.model \in Calculators, PrnOk(c.prn), NEW l, OfLatch(l)
  PROVE  LET d == MachineReset(c, l)
         IN Sound(d) /\ Alike(c, d) /\ d.card.present = FALSE /\ Lines(d, l)
<1> DEFINE r == CpuReset(c)
           s == SetPrinterConnectedLine(SwitchPressed(r), l.connected)
           d == MachineReset(c, l)
<1>1. d = SetPrinterTraceLine(s, l.trace)
  BY DEF MachineReset
<1>2. /\ Whole(r) /\ r.lib = c.lib /\ r.model = c.model /\ r.prn = PrinterReset(c.prn)
      /\ r.card = ReaderAtStart /\ r.key = PoweredOn.key /\ r.ring = c.ring
  <2>1. Whole(PoweredOn) /\ PoweredOn.card = ReaderAtStart
    BY DEF PoweredOn, Whole, Parts
  <2> QED
    BY <2>1 DEF CpuReset, Whole, Parts
<1>3. DOMAIN r.key = Pos /\ {"present", "waiting"} \subseteq DOMAIN r.card /\ r.card.present = FALSE
  BY <1>2 DEF PoweredOn, ReaderAtStart
<1>4. PrnOk(r.prn) /\ TextBase(r.prn) = TextBase(c.prn) /\ CodeBase(r.prn) = CodeBase(c.prn)
  BY <1>2, ResetKept DEF PrnKept
<1> HIDE DEF r
<1>0. l.connected \in BOOLEAN /\ l.trace \in BOOLEAN
  BY DEF OfLatch
<1>5. Sound(s) /\ Apart(r, s) /\ (2 \in s.key[PrinterCol(s.model)] <=> l.connected)
  BY <1>0, <1>2, <1>3, <1>4, SwitchAndLines
<1> HIDE DEF s, d
<1>6. /\ Sound(d) /\ Apart(s, d) /\ (2 \in d.key[15] <=> l.trace)
      /\ (2 \in d.key[PrinterCol(d.model)] <=> 2 \in s.key[PrinterCol(s.model)])
  BY <1>0, <1>1, <1>5, TraceLineSet
<1> QED
  BY <1>2, <1>3, <1>4, <1>5, <1>6 DEF Alike, Apart, Lines, d

\* A card is put in, or taken out: switch and reader change together.
LEMMA InsertedSound ==
  ASSUME NEW c, Sound(c), NEW data
  PROVE  LET d == [SetLine(c, SwitchCol(c.model), 4, FALSE) EXCEPT !.card = InsertedCard(@, data)]
         IN Sound(d) /\ Alike(c, d) /\ d.card.present /\ \A i \in Pos : 2 \in d.key[i] <=> 2 \in c.key[i]
<1> DEFINE s == SetLine(c, SwitchCol(c.model), 4, FALSE)
           v == InsertedCard(s.card, data)
           d == [s EXCEPT !.card = v]
           col == SwitchCol(c.model)
<1> DEFINE on == FALSE
<1>0. on \in BOOLEAN /\ ~on /\ s = SetLine(c, SwitchCol(c.model), 4, on) /\ Whole(c) /\ DOMAIN c.key = Pos
  BY DEF Sound
<1> HIDE DEF on, s
<1>2. /\ Whole(s) /\ Apart(c, s) /\ DOMAIN s.key = Pos /\ ~(4 \in s.key[col])
      /\ \A i \in Pos : i # col => s.key[i] = c.key[i]
      /\ \A r : r # 4 => (r \in s.key[col] <=> r \in c.key[col])
  BY <1>0, SwitchSet
<1> HIDE DEF col
<1>3. {"present", "waiting"} \subseteq DOMAIN v /\ v.present = TRUE /\ v.waiting = FALSE
  BY <1>2 DEF Apart, Sound, InsertedCard
<1> HIDE DEF v
<1>4. Whole(d) /\ d.lib = s.lib /\ d.model = s.model /\ d.prn = s.prn /\ d.key = s.key /\ d.card = v /\ d.ring = s.ring
  BY <1>2 DEF Whole, Parts
<1> HIDE DEF d
<1>5. Alike(c, d) /\ PrnOk(d.prn) /\ d.model = c.model /\ d.model \in Calculators /\ Headed(d.ring)
  BY <1>2, <1>4 DEF Apart, Alike, Sound
<1>6. Sound(d)
  <2>1. ~(4 \in d.key[SwitchCol(d.model)])
    BY <1>2, <1>4, <1>5 DEF col
  <2> QED
    BY <1>2, <1>3, <1>4, <1>5, <2>1 DEF Sound
<1>7. \A i \in Pos : 2 \in d.key[i] <=> 2 \in c.key[i]
  <2>1. 2 # 4
    OBVIOUS
  <2> QED
    BY <1>2, <1>4, <2>1
<1> QED
  BY <1>3, <1>4, <1>5, <1>6, <1>7 DEF d, v, s

LEMMA EjectedSound ==
  ASSUME NEW c, Sound(c)
  PROVE  LET d == [SwitchPressed(c) EXCEPT !.card = EjectedCard(@)]
         IN Sound(d) /\ Alike(c, d) /\ d.card.present = FALSE /\ \A i \in Pos : 2 \in d.key[i] <=> 2 \in c.key[i]
<1> DEFINE s == SwitchPressed(c)
           v == EjectedCard(s.card)
           d == [s EXCEPT !.card = v]
           col == SwitchCol(c.model)
<1> DEFINE on == TRUE
<1>0. on \in BOOLEAN /\ on /\ s = SetLine(c, SwitchCol(c.model), 4, on) /\ Whole(c) /\ DOMAIN c.key = Pos
  BY DEF Sound, SwitchPressed
<1> HIDE DEF on, s
<1>2. /\ Whole(s) /\ Apart(c, s) /\ DOMAIN s.key = Pos /\ 4 \in s.key[col]
      /\ \A i \in Pos : i # col => s.key[i] = c.key[i]
      /\ \A r : r # 4 => (r \in s.key[col] <=> r \in c.key[col])
  BY <1>0, SwitchSet
<1> HIDE DEF col
<1>3. {"present", "waiting"} \subseteq DOMAIN v /\ v.present = FALSE
  BY <1>2 DEF Apart, Sound, EjectedCard
<1> HIDE DEF v
<1>4. Whole(d) /\ d.lib = s.lib /\ d.model = s.model /\ d.prn = s.prn /\ d.key = s.key /\ d.card = v /\ d.ring = s.ring
  BY <1>2 DEF Whole, Parts
<1> HIDE DEF d
<1>5. Alike(c, d) /\ PrnOk(d.prn) /\ d.model = c.model /\ d.model \in Calculators /\ Headed(d.ring)
  BY <1>2, <1>4 DEF Apart, Alike, Sound
<1>6. Sound(d)
  <2>1. 4 \in d.key[SwitchCol(d.model)]
    BY <1>2, <1>4, <1>5 DEF col
  <2> QED
    BY <1>2, <1>3, <1>4, <1>5, <2>1 DEF Sound
<1>7. \A i \in Pos : 2 \in d.key[i] <=> 2 \in c.key[i]
  <2>1. 2 # 4
    OBVIOUS
  <2> QED
    BY <1>2, <1>4, <2>1
<1> QED
  BY <1>3, <1>4, <1>5, <1>6, <1>7 DEF d, v, s

\* A reset, and what is Held after it.
Cleaned(c, d, l) == Sound(d) /\ Alike(c, d) /\ d.card.present = FALSE /\ Lines(d, l)

LEMMA LinesKept ==
  ASSUME NEW c, Sound(c), NEW l, Lines(c, l), NEW d, Held(c, d)
  PROVE  Sound(d) /\ Lines(d, l)
<1>1. Sound(d) /\ d.model = c.model /\ \A i \in Pos : 2 \in d.key[i] <=> 2 \in c.key[i]
  BY DEF Held, Alike
<1>2. 15 \in Pos /\ PrinterCol(c.model) \in Pos
  BY SwitchInPos
<1> QED
  BY <1>1, <1>2 DEF Lines

LEMMA CleanedThen ==
  ASSUME NEW c, NEW d, NEW e, NEW l, Cleaned(c, d, l), Held(d, e)
  PROVE  Cleaned(c, e, l)
<1>1. Sound(e) /\ Lines(e, l)
  BY LinesKept DEF Cleaned
<1>2. Alike(c, e) /\ e.card.present = FALSE
  BY DEF Cleaned, Held, Alike, Sound
<1> QED
  BY <1>1, <1>2 DEF Cleaned

LEMMA WritesHeld ==
  ASSUME NEW c, NEW steps, NEW registers, NEW stage, NEW was, NEW p, NEW ram
  PROVE  /\ Held(c, WriteProgram(c, steps)) /\ Held(c, WriteRegisters(c, registers)) /\ Held(c, ApplyReload(c, stage))
         /\ Held(c, Restored(c, was)) /\ Held(c, ZeroRam(c)) /\ Held(c, SetPartition(c, p)) /\ Held(c, [c EXCEPT !.ram = ram])
<1>1. Whole(c) => /\ Same(c, WriteProgram(c, steps)) /\ Same(c, WriteRegisters(c, registers)) /\ Same(c, ApplyReload(c, stage))
                  /\ Same(c, Restored(c, was)) /\ Same(c, ZeroRam(c))
                  /\ Same(c, SetPartition(c, p)) /\ Same(c, [c EXCEPT !.ram = ram])
  BY WritesSame, SetPartitionSame, RamSame
<1> QED
  BY <1>1, SameHeld

LEMMA PowerOnHeld == ASSUME NEW c, NEW rom, NEW was PROVE Held(c, PowerOn(c, rom, was))
<1> DEFINE d == RunStartup(c, rom)
<1>1. Held(c, d)
  BY StartupHeld
<1> HIDE DEF d
<1>2. Held(d, Restored(d, was))
  BY WritesHeld
<1>3. Held(c, Restored(d, was))
  BY <1>1, <1>2, HeldThen
<1>4. PowerOn(c, rom, was) = IF HasConstantMemory(c.model) THEN Restored(d, was) ELSE c
  BY DEF PowerOn, d
<1> QED
  BY <1>3, <1>4, HeldItself

LEMMA ResetCleaned ==
  ASSUME NEW c, Sound(c), NEW l, OfLatch(l)
  PROVE  Cleaned(c, MachineReset(c, l), l)
<1>1. Whole(c) /\ Headed(c.ring) /\ c.model \in Calculators /\ PrnOk(c.prn)
  BY DEF Sound
<1> DEFINE d == MachineReset(c, l)
<1>3. Sound(d) /\ Alike(c, d) /\ d.card.present = FALSE /\ Lines(d, l)
  BY <1>1, MachineResetSound
<1> HIDE DEF d
<1>4. Cleaned(c, d, l)
  BY <1>3 DEF Cleaned
<1> QED
  BY <1>4 DEF d

LEMMA SoftResetCleaned ==
  ASSUME NEW c, Sound(c), NEW rom, NEW l, OfLatch(l), NEW was
  PROVE  Cleaned(c, SoftReset(c, rom, l, was), l)
<1> DEFINE d == MachineReset(c, l)
           e == RunStartup(d, rom)
           ram == <<c.ram>>
<1>1. Cleaned(c, d, l)
  BY ResetCleaned
<1>2. SoftReset(c, rom, l, was) \in {Restored(d, was), Restored(e, ram)}
  BY DEF SoftReset
<1> HIDE DEF d
<1>3. Held(d, e)
  BY StartupHeld
<1> HIDE DEF e, ram
<1>4. Held(d, Restored(d, was)) /\ Held(e, Restored(e, ram))
  BY WritesHeld
<1> QED
  BY <1>1, <1>2, <1>3, <1>4, CleanedThen

LEMMA ApplyStateCleaned ==
  ASSUME NEW c, Sound(c), NEW rom, NEW l, OfLatch(l), NEW r
  PROVE  Cleaned(c, ApplyState(c, rom, l, r), l)
<1> DEFINE a == MachineReset(c, l)
           b == RunStartup(a, rom)
           p == DefaultPartition(c.model, r)
           d == SetPartition(b, p)
           upTo == IF HasConstantMemory(c.model) THEN ExtraBase ELSE RamSize
           ram == [i \in DOMAIN d.ram |-> IF i < upTo THEN Zeros ELSE d.ram[i]]
           e == [d EXCEPT !.ram = ram]
           f == WriteProgram(e, r.contents.steps)
           g == WriteRegisters(f, r.contents.registers)
<1>0. ApplyState(c, rom, l, r) = g
  BY DEF ApplyState
<1>1. Cleaned(c, a, l)
  BY ResetCleaned
<1> HIDE DEF a
<1>2. Held(a, b)
  BY StartupHeld
<1> HIDE DEF b, p
<1>3. Held(b, d)
  BY WritesHeld
<1> HIDE DEF d, upTo, ram
<1>4. Held(d, e)
  BY WritesHeld
<1> HIDE DEF e
<1>5. Held(e, f)
  BY WritesHeld
<1> HIDE DEF f
<1>6. Held(f, g)
  BY WritesHeld
<1> HIDE DEF g
<1>7. Cleaned(c, b, l)
  BY <1>1, <1>2, CleanedThen
<1>8. Cleaned(c, d, l)
  BY <1>7, <1>3, CleanedThen
<1>9. Cleaned(c, e, l)
  BY <1>8, <1>4, CleanedThen
<1>10. Cleaned(c, f, l)
  BY <1>9, <1>5, CleanedThen
<1> QED
  BY <1>0, <1>10, <1>6, CleanedThen

LEMMA BeginHeld == ASSUME NEW c, NEW rom PROVE Held(c, BeginNextStep(c, rom))
  BY BeginNextStepSame, SameHeld

LEMMA RunAsmHeld ==
  ASSUME NEW c, NEW rom
  PROVE  Held(c, BeginNextStep(Injected(UntilBoundary(c, rom, KeycodeBudget), rom, Overlay, EntrySteps), rom))
<1> DEFINE d == UntilBoundary(c, rom, KeycodeBudget)
           e == Injected(d, rom, Overlay, EntrySteps)
<1>1. Held(c, d)
  BY UntilHeld, StartupAssumption, BudgetAssumption
<1> HIDE DEF d
<1>2. Held(d, e)
  BY InjectedHeld, StartupAssumption, BudgetAssumption
<1> HIDE DEF e
<1>3. Held(e, BeginNextStep(e, rom))
  BY BeginHeld
<1> QED
  BY <1>1, <1>2, <1>3, HeldThen DEF d, e

LEMMA FieldHeld ==
  ASSUME NEW c, NEW v
  PROVE  /\ Held(c, [c EXCEPT !.trace = v]) /\ Held(c, [c EXCEPT !.breaks = v])
         /\ (Headed(c.ring) => Headed(v)) => Held(c, [c EXCEPT !.ring = v])
         /\ Held(c, [c EXCEPT !.hit = v]) /\ Held(c, [c EXCEPT !.lcd = v]) /\ Held(c, [c EXCEPT !.overlay = v])
         /\ Held(c, LoadDebugOverlay(c, v))
<1>1. Whole(c) => /\ Same(c, [c EXCEPT !.trace = v]) /\ Same(c, [c EXCEPT !.breaks = v])
                  /\ (Headed(c.ring) => Headed(v)) => Same(c, [c EXCEPT !.ring = v])
                  /\ Same(c, [c EXCEPT !.hit = v]) /\ Same(c, [c EXCEPT !.lcd = v]) /\ Same(c, [c EXCEPT !.overlay = v])
  BY DEF Same, Whole, Parts
<1>2. Whole(c) => Same(c, LoadDebugOverlay(c, v))
  BY DEF LoadDebugOverlay, Same, Whole, Parts
<1> QED
  BY <1>1, <1>2, SameHeld

LEMMA MachineStepHeld == ASSUME NEW c, NEW rom PROVE Held(c, [Step(c, rom) EXCEPT !.hit = FALSE])
<1> DEFINE d == Step(c, rom)
<1>1. Held(c, d)
  BY StepHeld
<1> HIDE DEF d
<1>2. Held(d, [d EXCEPT !.hit = FALSE])
  BY FieldHeld
<1> QED
  BY <1>1, <1>2, HeldThen DEF d

--------------------------------------------------------------------------------
(***************************************************************************)
(* The steps that are left of the UI thread's call.                        *)
(***************************************************************************)

\* A sequence, whatever of; what the steps in it do.
AnySeq(u) == \E S : u \in Seq(S)
Due(u) == {e.do : e \in Range(u)}

LEMMA NothingDue == AnySeq(<<>>) /\ Range(<<>>) = {} /\ Due(<<>>) = {}
<1>1. <<>> \in Seq({})
  OBVIOUS
<1>2. Range(<<>>) = {}
  BY DEF Range
<1> QED
  BY <1>1, <1>2 DEF AnySeq, Due

LEMMA OneDue ==
  ASSUME NEW e
  PROVE  AnySeq(<<e>>) /\ Range(<<e>>) = {e} /\ Due(<<e>>) = {e.do} /\ Head(<<e>>) = e /\ Tail(<<e>>) = <<>> /\ <<e>> # <<>>
<1>1. <<e>> \in Seq({e}) /\ Head(<<e>>) = e /\ Tail(<<e>>) = <<>> /\ <<e>> # <<>>
  OBVIOUS
<1>2. Range(<<e>>) = {e}
  BY DEF Range
<1> QED
  BY <1>1, <1>2 DEF AnySeq, Due

LEMMA JoinDue ==
  ASSUME NEW u, NEW v, AnySeq(u), AnySeq(v)
  PROVE  /\ AnySeq(u \o v) /\ Range(u \o v) = Range(u) \cup Range(v) /\ Due(u \o v) = Due(u) \cup Due(v)
         /\ u # <<>> => u \o v # <<>> /\ Head(u \o v) = Head(u) /\ Tail(u \o v) = Tail(u) \o v
         /\ u = <<>> => u \o v = v
<1>1. PICK S, T : u \in Seq(S) /\ v \in Seq(T)
  BY DEF AnySeq
<1> DEFINE X == S \cup T
<1>2. u \in Seq(X) /\ v \in Seq(X)
  BY <1>1
<1> HIDE DEF X
<1>3. u \o v \in Seq(X) /\ Len(u \o v) = Len(u) + Len(v) /\ Len(u) \in Nat /\ Len(v) \in Nat
  BY <1>2
<1>4. /\ \A i \in 1..Len(u) : (u \o v)[i] = u[i]
      /\ \A i \in 1..Len(v) : (u \o v)[Len(u) + i] = v[i]
  BY <1>2
<1>5. Range(u \o v) = Range(u) \cup Range(v)
  <2>1. Range(u \o v) = {(u \o v)[i] : i \in 1..(Len(u) + Len(v))} /\ Range(u) = {u[i] : i \in 1..Len(u)} /\ Range(v) = {v[i] : i \in 1..Len(v)}
    BY <1>2, <1>3 DEF Range
  <2>2. ASSUME NEW i \in 1..(Len(u) + Len(v)) PROVE (u \o v)[i] \in Range(u) \cup Range(v)
    <3>1. CASE i \in 1..Len(u)
      BY <3>1, <1>4, <2>1
    <3>2. CASE i \notin 1..Len(u)
      <4>1. i - Len(u) \in 1..Len(v) /\ Len(u) + (i - Len(u)) = i
        BY <3>2, <1>3
      <4> QED
        BY <4>1, <1>4, <2>1
    <3> QED
      BY <3>1, <3>2
  <2>3. ASSUME NEW i \in 1..Len(u) PROVE u[i] \in Range(u \o v)
    <3>1. i \in 1..(Len(u) + Len(v))
      BY <1>3
    <3> QED
      BY <3>1, <1>4, <2>1
  <2>4. ASSUME NEW i \in 1..Len(v) PROVE v[i] \in Range(u \o v)
    <3>1. Len(u) + i \in 1..(Len(u) + Len(v))
      BY <1>3
    <3> QED
      BY <3>1, <1>4, <2>1
  <2> QED
    BY <2>1, <2>2, <2>3, <2>4
<1>6. Due(u \o v) = Due(u) \cup Due(v)
  BY <1>5 DEF Due
<1>7. u # <<>> => u \o v # <<>> /\ Head(u \o v) = Head(u) /\ Tail(u \o v) = Tail(u) \o v
  BY <1>2
<1>8. u = <<>> => u \o v = v
  BY <1>2
<1>9. AnySeq(u \o v)
  BY <1>3 DEF AnySeq
<1> QED
  BY <1>5, <1>6, <1>7, <1>8, <1>9

LEMMA TailDue ==
  ASSUME NEW u, AnySeq(u), u # <<>>
  PROVE  AnySeq(Tail(u)) /\ Range(u) = {Head(u)} \cup Range(Tail(u)) /\ Due(u) = {Head(u).do} \cup Due(Tail(u))
<1>1. PICK S : u \in Seq(S)
  BY DEF AnySeq
<1>2. Tail(u) \in Seq(S) /\ Len(Tail(u)) = Len(u) - 1 /\ Len(u) \in Nat \ {0} /\ \A i \in 1..Len(Tail(u)) : Tail(u)[i] = u[i + 1]
  <2>1. Len(u) \in Nat \ {0}
    BY <1>1, EmptySeq
  <2>2. Tail(u) \in Seq(S) /\ Len(Tail(u)) = Len(u) - 1 /\ \A i \in 1..Len(Tail(u)) : Tail(u)[i] = u[i + 1]
    BY <1>1, HeadTailProperties
  <2> QED
    BY <2>1, <2>2
<1>3. Head(u) = u[1]
  OBVIOUS
<1>4. Range(u) = {Head(u)} \cup Range(Tail(u))
  <2>1. Range(u) = {u[i] : i \in 1..Len(u)} /\ Range(Tail(u)) = {Tail(u)[i] : i \in 1..(Len(u) - 1)}
    <3> DEFINE t == Tail(u)
    <3>1. t \in Seq(S) /\ Len(t) = Len(u) - 1
      BY <1>2
    <3> HIDE DEF t
    <3>2. DOMAIN u = 1..Len(u) /\ DOMAIN t = 1..(Len(u) - 1)
      BY <1>1, <3>1
    <3>3. Range(u) = {u[i] : i \in 1..Len(u)} /\ Range(t) = {t[i] : i \in 1..(Len(u) - 1)}
      BY <3>2 DEF Range
    <3> QED
      BY <3>3 DEF t
  <2>2. ASSUME NEW i \in 1..Len(u) PROVE u[i] \in {Head(u)} \cup Range(Tail(u))
    <3>1. CASE i = 1
      BY <3>1, <1>3
    <3>2. CASE i # 1
      <4>1. i - 1 \in 1..(Len(u) - 1) /\ (i - 1) + 1 = i
        BY <3>2, <1>2
      <4> QED
        BY <4>1, <1>2, <2>1
    <3> QED
      BY <3>1, <3>2
  <2>3. ASSUME NEW i \in 1..(Len(u) - 1) PROVE Tail(u)[i] \in Range(u)
    <3>1. i + 1 \in 1..Len(u)
      BY <1>2
    <3> QED
      BY <3>1, <1>2, <2>1
  <2>4. Head(u) \in Range(u)
    BY <1>2, <1>3, <2>1
  <2> QED
    BY <2>1, <2>2, <2>3, <2>4
<1>5. Due(u) = {Head(u).do} \cup Due(Tail(u))
  BY <1>4 DEF Due
<1> QED
  BY <1>2, <1>4, <1>5 DEF AnySeq

--------------------------------------------------------------------------------
(***************************************************************************)
(* Every step of the machine and every call from outside of the UI         *)
(* thread's own is Steady.                                                 *)
(***************************************************************************)

\* On the paper, every line and every code line is at its number.
PaperOk(p, q) ==
  /\ {"text", "codes"} \subseteq DOMAIN p
  /\ p.text \in Seq(Nat) /\ Len(p.text) = TextBase(q) /\ \A i \in 1..Len(p.text) : p.text[i] = i
  /\ p.codes \in Seq(CodeLines) /\ Len(p.codes) = CodeBase(q) /\ \A j \in 1..Len(p.codes) : p.codes[j].line = j

\* The switches of the machine are where the program believes them to be.
Physical == Sound(m) /\ OfLatch(latch) /\ Lines(m, latch)

\* What a step of the machine or a call of it leaves as it is.
Steady ==
  /\ Physical' /\ m'.lib = m.lib /\ m'.model = m.model /\ lab' = lab
  /\ "card" \notin lab.calls => (m'.card.present => m.card.present)
  /\ "cut" \notin lab.calls => (PaperOk(paper, m.prn) => PaperOk(paper', m'.prn))

LEMMA PaperStays ==
  ASSUME NEW p, NEW c, NEW d, Alike(c, d), PaperOk(p, c.prn)
  PROVE  PaperOk(p, d.prn)
  BY DEF Alike, PaperOk

LEMMA HeldSteady == ASSUME Physical, Held(m, m'), UNCHANGED <<lab, latch, paper>> PROVE Steady
<1>1. Sound(m') /\ Lines(m', latch)
  BY LinesKept DEF Physical
<1>2. Alike(m, m') /\ (m'.card.present => m.card.present)
  BY DEF Held, Physical
<1>3. PaperOk(paper, m.prn) => PaperOk(paper, m'.prn)
  BY <1>2, PaperStays
<1> QED
  BY <1>1, <1>2, <1>3 DEF Steady, Physical, Alike

LEMMA IdleSteady == ASSUME Physical, UNCHANGED <<lab, m, latch, paper>> PROVE Steady
  BY HeldItself, HeldSteady

\* The lines of a key are none of the others.
LEMMA KeySteady ==
  ASSUME Physical, NEW k \in Keys, NEW on \in BOOLEAN, m' = SetLine(m, k[2], k[1], on), UNCHANGED <<lab, latch, paper>>
  PROVE  Steady
<1>1. k[2] \in Pos /\ k[1] # 4 /\ (k[1] = 2 => k[2] # 15 /\ k[2] # PrinterCol(m.model))
  BY KeysAssumption DEF PrinterCol
<1> DEFINE d == SetLine(m, k[2], k[1], on)
<1>2. /\ Sound(d) /\ Apart(m, d)
      /\ \A i \in Pos : i # k[2] => (2 \in d.key[i] <=> 2 \in m.key[i])
      /\ k[1] # 2 => (2 \in d.key[k[2]] <=> 2 \in m.key[k[2]])
  BY <1>1, LineSound DEF Physical
<1> HIDE DEF d
<1>3. \A i \in Pos : i \in {15, PrinterCol(m.model)} => (2 \in d.key[i] <=> 2 \in m.key[i])
  <2> TAKE i \in Pos
  <2>1. CASE i # k[2]
    BY <1>2, <2>1
  <2>2. CASE i = k[2]
    BY <1>1, <1>2, <2>2
  <2> QED
    BY <2>1, <2>2
<1>4. Lines(d, latch) /\ Alike(m, d) /\ d.card = m.card
  <2>1. 15 \in Pos /\ PrinterCol(m.model) \in Pos
    BY SwitchInPos
  <2> QED
    BY <1>2, <1>3, <2>1 DEF Physical, Lines, Apart, Alike
<1>5. m' = d
  BY DEF d
<1>6. PaperOk(paper, m.prn) => PaperOk(paper, m'.prn)
  BY <1>4, <1>5, PaperStays
<1> QED
  BY <1>2, <1>4, <1>5, <1>6 DEF Steady, Physical, Alike

LEMMA PrinterKeySteady ==
  ASSUME Physical, NEW row, row # 4, NEW on \in BOOLEAN, m' = SetLine(m, 12, row, on), UNCHANGED <<lab, latch, paper>>
  PROVE  Steady
<1>1. 12 \in Pos /\ 12 # 15 /\ 12 # PrinterCol(m.model) /\ 15 \in Pos /\ PrinterCol(m.model) \in Pos
  BY SwitchInPos DEF PrinterCol
<1> DEFINE col == 12
           d == SetLine(m, col, row, on)
<1>0. Sound(m) /\ col \in Pos
  BY <1>1 DEF Physical
<1> HIDE DEF col
<1>2. /\ Sound(d) /\ Apart(m, d)
      /\ \A i \in Pos : i # col => (2 \in d.key[i] <=> 2 \in m.key[i])
  BY <1>0, LineSound
<1> HIDE DEF d
<1> DEFINE at == PrinterCol(m.model)
<1>3. (2 \in d.key[15] <=> 2 \in m.key[15]) /\ (2 \in d.key[at] <=> 2 \in m.key[at])
  <2> at \in Pos /\ at # col /\ col # 15
    BY <1>1 DEF col
  <2> HIDE DEF at
  <2> QED
    BY <1>1, <1>2
<1>4. Lines(d, latch) /\ Alike(m, d) /\ d.card = m.card
  BY <1>2, <1>3 DEF Physical, Lines, Apart, Alike
<1>5. m' = d
  BY DEF d, col
<1>6. PaperOk(paper, m.prn) => PaperOk(paper, m'.prn)
  BY <1>4, <1>5, PaperStays
<1> QED
  BY <1>2, <1>4, <1>5, <1>6 DEF Steady, Physical, Alike

LEMMA PrinterSwitched ==
  ASSUME NEW c, Sound(c), NEW a \in BOOLEAN, NEW b \in BOOLEAN
  PROVE  LET d == SetPrinterTraceLine(SetPrinterConnectedLine(c, a), b)
         IN Sound(d) /\ Apart(c, d) /\ (2 \in d.key[15] <=> b) /\ (2 \in d.key[PrinterCol(d.model)] <=> a)
<1> DEFINE s == SetPrinterConnectedLine(c, a)
           d == SetPrinterTraceLine(s, b)
           at == PrinterCol(c.model)
<1>1. at \in Pos /\ 2 # 4 /\ s = SetLine(c, at, 2, a)
  BY SwitchInPos DEF SetPrinterConnectedLine
<1> HIDE DEF s, d, at
<1>2. Sound(s) /\ Apart(c, s) /\ (2 \in s.key[at] <=> a)
  BY <1>1, LineSound
<1>3. d = SetPrinterTraceLine(s, b)
  BY DEF d
<1>4. /\ Sound(d) /\ Apart(s, d) /\ (2 \in d.key[15] <=> b)
      /\ (2 \in d.key[PrinterCol(d.model)] <=> 2 \in s.key[PrinterCol(s.model)])
  BY <1>2, <1>3, TraceLineSet
<1>5. s.model = c.model /\ PrinterCol(s.model) = at
  BY <1>2 DEF Apart, at
<1> QED
  BY <1>2, <1>4, <1>5 DEF Apart, s, d

\* setPrinterConnected(): both latches.
LEMMA SwitchedPhysical ==
  ASSUME Physical, NEW on \in BOOLEAN, latch' = [connected |-> on, trace |-> FALSE],
         m' = SetPrinterTraceLine(SetPrinterConnectedLine(m, on), FALSE)
  PROVE  Physical' /\ Apart(m, m')
<1> DEFINE off == FALSE
<1>1. off \in BOOLEAN /\ ~off /\ m' = SetPrinterTraceLine(SetPrinterConnectedLine(m, on), off) /\ Sound(m)
  BY DEF Physical
<1> HIDE DEF off
<1>2. Sound(m') /\ Apart(m, m') /\ (2 \in m'.key[15] <=> off) /\ (2 \in m'.key[PrinterCol(m'.model)] <=> on)
  BY <1>1, PrinterSwitched
<1>3. latch'.connected = on /\ latch'.trace = FALSE
  OBVIOUS
<1>4. OfLatch(latch')
  BY <1>3 DEF OfLatch
<1>5. Lines(m', latch')
  BY <1>1, <1>2, <1>3 DEF Lines
<1> QED
  BY <1>2, <1>4, <1>5 DEF Physical

LEMMA ApartAlike == ASSUME NEW c, NEW d, Apart(c, d) PROVE Alike(c, d)
  BY DEF Apart, Alike

LEMMA PrnReplaced ==
  ASSUME NEW c, Sound(c), NEW v, PrnOk(v)
  PROVE  LET d == [c EXCEPT !.prn = v]
         IN Sound(d) /\ d.lib = c.lib /\ d.model = c.model /\ d.key = c.key /\ d.card = c.card /\ d.prn = v
<1> DEFINE d == [c EXCEPT !.prn = v]
<1>1. Whole(d) /\ d.lib = c.lib /\ d.model = c.model /\ d.key = c.key /\ d.card = c.card /\ d.prn = v /\ d.ring = c.ring
  BY DEF Sound, Whole, Parts
<1> HIDE DEF d
<1>2. Sound(d)
  BY <1>1 DEF Sound
<1> QED
  BY <1>1, <1>2 DEF d

\* The sequence of the lines so far goes on where it stopped.
LEMMA GoesOnInt ==
  ASSUME NEW s \in Seq(Nat), NEW t \in Seq(Nat), \A i \in 1..Len(s) : s[i] = i, \A i \in 1..Len(t) : t[i] = Len(s) + i
  PROVE  /\ s \o t \in Seq(Nat) /\ Len(s \o t) = Len(s) + Len(t)
         /\ \A i \in 1..Len(s \o t) : (s \o t)[i] = i
<1>1. s \o t \in Seq(Nat) /\ Len(s \o t) = Len(s) + Len(t) /\ Len(s) \in Nat /\ Len(t) \in Nat
  OBVIOUS
<1>2. ASSUME NEW i \in 1..Len(s \o t) PROVE (s \o t)[i] = i
  <2>1. CASE i <= Len(s)
    <3>1. (s \o t)[i] = s[i] /\ i \in 1..Len(s)
      BY <1>1, <2>1
    <3> QED
      BY <3>1
  <2>2. CASE ~(i <= Len(s))
    <3>1. (s \o t)[i] = t[i - Len(s)] /\ i - Len(s) \in 1..Len(t) /\ Len(s) + (i - Len(s)) = i
      BY <1>1, <2>2
    <3> QED
      BY <3>1
  <2> QED
    BY <2>1, <2>2
<1> QED
  BY <1>1, <1>2

LEMMA GoesOnCodes ==
  ASSUME NEW s \in Seq(CodeLines), NEW t \in Seq(CodeLines),
         \A i \in 1..Len(s) : s[i].line = i, \A i \in 1..Len(t) : t[i].line = Len(s) + i
  PROVE  /\ s \o t \in Seq(CodeLines) /\ Len(s \o t) = Len(s) + Len(t)
         /\ \A i \in 1..Len(s \o t) : (s \o t)[i].line = i
<1>1. s \o t \in Seq(CodeLines) /\ Len(s \o t) = Len(s) + Len(t) /\ Len(s) \in Nat /\ Len(t) \in Nat
  OBVIOUS
<1>2. ASSUME NEW i \in 1..Len(s \o t) PROVE (s \o t)[i].line = i
  <2>1. CASE i <= Len(s)
    <3>1. (s \o t)[i] = s[i] /\ i \in 1..Len(s)
      BY <1>1, <2>1
    <3> QED
      BY <3>1
  <2>2. CASE ~(i <= Len(s))
    <3>1. (s \o t)[i] = t[i - Len(s)] /\ i - Len(s) \in 1..Len(t) /\ Len(s) + (i - Len(s)) = i
      BY <1>1, <2>2
    <3> QED
      BY <3>1
  <2> QED
    BY <2>1, <2>2
<1> QED
  BY <1>1, <1>2

\* The host takes lines: what it appends goes on where the paper ends.
LEMMA TextDrained ==
  ASSUME NEW q, PrnOk(q)
  PROVE  LET r == [q EXCEPT !.lines = <<>>]
         IN PrnOk(r) /\ \A p : PaperOk(p, q) => PaperOk([p EXCEPT !.text = @ \o q.lines], r)
<1> DEFINE e == <<>>
           r == [q EXCEPT !.lines = e]
<1>1. /\ Queues \subseteq DOMAIN r /\ r.busy = q.busy /\ r.serial = q.serial /\ r.pending = q.pending
      /\ r.lines = e /\ r.codes = q.codes
  BY DEF PrnOk, Queues
<1>2. e \in Seq(Nat) /\ Len(e) = 0
  OBVIOUS
<1> HIDE DEF e, r
<1>3. CodeBase(r) = CodeBase(q) /\ TextBase(r) = q.serial
  <2>1. TextBase(r) = q.serial - Len(e)
    BY <1>1 DEF TextBase
  <2>2. q.serial \in Nat
    BY DEF PrnOk
  <2>3. TextBase(r) = q.serial
    BY <1>2, <2>1, <2>2
  <2> QED
    BY <1>1, <2>3 DEF CodeBase
<1>4. PrnOk(r)
  <2>1. \A i \in 1..Len(r.lines) : r.lines[i] = TextBase(r) + i
    BY <1>1, <1>2
  <2> QED
    BY <1>1, <1>2, <1>3, <2>1 DEF PrnOk, Queues
<1>5. ASSUME NEW p, PaperOk(p, q) PROVE PaperOk([p EXCEPT !.text = @ \o q.lines], r)
  <2> DEFINE n == [p EXCEPT !.text = @ \o q.lines]
  <2>1. {"text", "codes"} \subseteq DOMAIN n /\ n.text = p.text \o q.lines /\ n.codes = p.codes
    BY <1>5 DEF PaperOk
  <2> HIDE DEF n
  <2>2. /\ p.text \in Seq(Nat) /\ q.lines \in Seq(Nat) /\ \A i \in 1..Len(p.text) : p.text[i] = i
        /\ \A i \in 1..Len(q.lines) : q.lines[i] = Len(p.text) + i
        /\ Len(p.text) = q.serial - Len(q.lines) /\ q.serial \in Nat
    BY <1>5 DEF PaperOk, PrnOk, TextBase
  <2>3. /\ n.text \in Seq(Nat) /\ Len(n.text) = Len(p.text) + Len(q.lines)
        /\ \A i \in 1..Len(n.text) : n.text[i] = i
    BY <2>1, <2>2, GoesOnInt
  <2>4. Len(n.text) = q.serial
    <3>1. Len(q.lines) \in Nat
      BY <2>2
    <3> QED
      BY <3>1, <2>2, <2>3
  <2> QED
    BY <1>3, <1>5, <2>1, <2>3, <2>4 DEF PaperOk, n
<1> QED
  BY <1>4, <1>5 DEF r, e

LEMMA CodesDrained ==
  ASSUME NEW q, PrnOk(q)
  PROVE  LET r == [q EXCEPT !.codes = <<>>]
         IN PrnOk(r) /\ \A p : PaperOk(p, q) => PaperOk([p EXCEPT !.codes = @ \o q.codes], r)
<1> DEFINE e == <<>>
           r == [q EXCEPT !.codes = e]
<1>1. /\ Queues \subseteq DOMAIN r /\ r.busy = q.busy /\ r.serial = q.serial /\ r.pending = q.pending
      /\ r.lines = q.lines /\ r.codes = e
  BY DEF PrnOk, Queues
<1>2. e \in Seq(CodeLines) /\ Len(e) = 0
  OBVIOUS
<1> HIDE DEF e, r
<1>3. TextBase(r) = TextBase(q) /\ CodeBase(r) = q.serial - Len(q.pending)
  <2>1. CodeBase(r) = q.serial - Len(q.pending) - Len(e)
    BY <1>1 DEF CodeBase
  <2>2. q.serial \in Nat /\ Len(q.pending) \in {0, 1}
    BY PrnFacts DEF PrnOk
  <2>3. CodeBase(r) = q.serial - Len(q.pending)
    BY <1>2, <2>1, <2>2
  <2> QED
    BY <1>1, <2>3 DEF TextBase
<1>4. PrnOk(r)
  <2>1. \A i \in 1..Len(r.codes) : r.codes[i].line = CodeBase(r) + i
    BY <1>1, <1>2
  <2> QED
    BY <1>1, <1>2, <1>3, <2>1 DEF PrnOk, Queues
<1>5. ASSUME NEW p, PaperOk(p, q) PROVE PaperOk([p EXCEPT !.codes = @ \o q.codes], r)
  <2> DEFINE n == [p EXCEPT !.codes = @ \o q.codes]
  <2>1. {"text", "codes"} \subseteq DOMAIN n /\ n.codes = p.codes \o q.codes /\ n.text = p.text
    BY <1>5 DEF PaperOk
  <2> HIDE DEF n
  <2>2. /\ p.codes \in Seq(CodeLines) /\ q.codes \in Seq(CodeLines) /\ \A i \in 1..Len(p.codes) : p.codes[i].line = i
        /\ \A i \in 1..Len(q.codes) : q.codes[i].line = Len(p.codes) + i
        /\ Len(p.codes) = q.serial - Len(q.pending) - Len(q.codes) /\ q.serial \in Nat
    BY <1>5 DEF PaperOk, PrnOk, CodeBase
  <2>3. /\ n.codes \in Seq(CodeLines) /\ Len(n.codes) = Len(p.codes) + Len(q.codes)
        /\ \A i \in 1..Len(n.codes) : n.codes[i].line = i
    BY <2>1, <2>2, GoesOnCodes
  <2>4. Len(n.codes) = q.serial - Len(q.pending)
    <3>1. Len(q.codes) \in Nat /\ Len(q.pending) \in {0, 1}
      BY PrnFacts
    <3> QED
      BY <3>1, <2>2, <2>3
  <2> QED
    BY <1>3, <1>5, <2>1, <2>3, <2>4 DEF PaperOk, n
<1> QED
  BY <1>4, <1>5 DEF r, e

LEMMA PrinterDrained ==
  ASSUME Physical, NEW v, PrnOk(v), Held([m EXCEPT !.prn = v], m'), UNCHANGED <<lab, latch>>,
         PaperOk(paper, m.prn) => PaperOk(paper', v)
  PROVE  Steady
<1> DEFINE d == [m EXCEPT !.prn = v]
<1>1. Sound(d) /\ d.lib = m.lib /\ d.model = m.model /\ d.key = m.key /\ d.card = m.card /\ d.prn = v
  BY PrnReplaced DEF Physical
<1>2. Held(d, m')
  OBVIOUS
<1> HIDE DEF d
<1>3. Lines(d, latch)
  BY <1>1 DEF Physical, Lines
<1>4. Sound(m') /\ Lines(m', latch) /\ Alike(d, m') /\ (m'.card.present => d.card.present)
  BY <1>1, <1>2, <1>3, LinesKept DEF Held
<1>5. PaperOk(paper', v) => PaperOk(paper', m'.prn)
  BY <1>1, <1>4, PaperStays
<1> QED
  BY <1>1, <1>4, <1>5 DEF Steady, Physical, Alike

LEMMA TickTextSteady == ASSUME Physical, TickText PROVE Steady
<1> DEFINE v == [m.prn EXCEPT !.lines = <<>>]
           e == <<>>
<1>1. m' = [m EXCEPT !.prn = v] /\ paper' = [paper EXCEPT !.text = @ \o m.prn.lines] /\ UNCHANGED <<lab, latch>>
  BY DEF TickText
<1>2. PrnOk(v) /\ (PaperOk(paper, m.prn) => PaperOk(paper', v))
  BY <1>1, TextDrained DEF Physical, Sound
<1> HIDE DEF v
<1>3. Held([m EXCEPT !.prn = v], m')
  BY <1>1, HeldItself
<1> QED
  BY <1>1, <1>2, <1>3, PrinterDrained

LEMMA TickCodesSteady == ASSUME Physical, TickCodes PROVE Steady
<1> DEFINE v == [m.prn EXCEPT !.codes = <<>>]
           d == [m EXCEPT !.prn = v]
           w == TakeDisplay(m.lcd)
<1>1. m' = [m EXCEPT !.prn = v, !.lcd = w] /\ paper' = [paper EXCEPT !.codes = @ \o m.prn.codes] /\ UNCHANGED <<lab, latch>>
  BY DEF TickCodes
<1>2. PrnOk(v) /\ (PaperOk(paper, m.prn) => PaperOk(paper', v))
  BY <1>1, CodesDrained DEF Physical, Sound
<1>3. m' = [d EXCEPT !.lcd = w]
  <2> HIDE DEF v, w
  <2> QED
    BY <1>1
<1>4. Held(d, [d EXCEPT !.lcd = w])
  <2> HIDE DEF d, w
  <2> QED
    BY FieldHeld
<1>5. Held([m EXCEPT !.prn = v], m')
  BY <1>3, <1>4
<1> HIDE DEF v, d, w
<1> QED
  BY <1>1, <1>2, <1>5, PrinterDrained

LEMMA CutSteady == ASSUME Physical, CutPaper PROVE Steady
<1>1. "cut" \in lab.calls /\ UNCHANGED <<lab, m, latch>>
  BY DEF CutPaper, May
<1> QED
  BY <1>1 DEF Steady, Physical

LEMMA CardCallsSteady == ASSUME Physical, (\E d \in Media : InsertCard(d)) \/ CardEject PROVE Steady
<1>0. "card" \in lab.calls /\ UNCHANGED <<lab, latch, paper>>
  BY DEF InsertCard, CardEject, May
<1>1. Sound(m') /\ Alike(m, m') /\ \A i \in Pos : 2 \in m'.key[i] <=> 2 \in m.key[i]
  <2>0. Sound(m)
    BY DEF Physical
  <2>1. CASE \E d \in Media : InsertCard(d)
    <3>1. PICK data : m' = [SetLine(m, SwitchCol(m.model), 4, FALSE) EXCEPT !.card = InsertedCard(@, data)]
      BY <2>1 DEF InsertCard
    <3> QED
      BY <2>0, <3>1, InsertedSound
  <2>2. CASE CardEject
    <3>1. m' = [SwitchPressed(m) EXCEPT !.card = EjectedCard(@)]
      BY <2>2 DEF CardEject
    <3> QED
      BY <2>0, <3>1, EjectedSound
  <2> QED
    BY <2>1, <2>2
<1>2. 15 \in Pos /\ PrinterCol(m.model) \in Pos
  BY SwitchInPos
<1>3. Lines(m', latch)
  BY <1>1, <1>2 DEF Physical, Lines, Alike
<1>4. PaperOk(paper, m.prn) => PaperOk(paper, m'.prn)
  BY <1>1, PaperStays
<1> QED
  BY <1>0, <1>1, <1>3, <1>4 DEF Steady, Physical, Alike

LEMMA ResetSteady ==
  ASSUME Physical, m' = MachineReset(m, latch), UNCHANGED <<lab, latch, paper>>
  PROVE  Steady /\ m'.card.present = FALSE
<1>1. Cleaned(m, m', latch)
  BY ResetCleaned DEF Physical
<1>2. PaperOk(paper, m.prn) => PaperOk(paper, m'.prn)
  BY <1>1, PaperStays DEF Cleaned
<1> QED
  BY <1>1, <1>2 DEF Cleaned, Steady, Physical, Alike

LEMMA PrinterCallsSteady ==
  ASSUME Physical, NEW on \in BOOLEAN, SetPrinterConnected(on) \/ SetPrinterTrace(on) \/ PressPrinterKeys(on)
  PROVE  Steady
<1>1. CASE SetPrinterConnected(on)
  <2>1. Physical' /\ Apart(m, m') /\ UNCHANGED <<lab, paper>>
    BY <1>1, SwitchedPhysical DEF SetPrinterConnected
  <2>2. PaperOk(paper, m.prn) => PaperOk(paper, m'.prn)
    BY <2>1, ApartAlike, PaperStays
  <2> QED
    BY <2>1, <2>2 DEF Steady, Apart
<1>2. CASE SetPrinterTrace(on)
  <2>1. m' = SetPrinterTraceLine(m, on) /\ latch' = [latch EXCEPT !.trace = on] /\ UNCHANGED <<lab, paper>> /\ Sound(m)
    BY <1>2 DEF SetPrinterTrace, Physical
  <2>2. Sound(m') /\ Apart(m, m') /\ (2 \in m'.key[15] <=> on) /\ (2 \in m'.key[PrinterCol(m'.model)] <=> 2 \in m.key[PrinterCol(m.model)])
    BY <2>1, TraceLineSet
  <2>3. PaperOk(paper, m.prn) => PaperOk(paper, m'.prn)
    BY <2>2, ApartAlike, PaperStays
  <2>4. latch'.connected = latch.connected /\ latch'.trace \in BOOLEAN /\ (latch'.trace <=> on)
    BY <2>1 DEF Physical, OfLatch
  <2>5. OfLatch(latch')
    BY <2>1, <2>4 DEF Physical, OfLatch
  <2>6. Lines(m', latch')
    BY <2>2, <2>4 DEF Physical, Lines
  <2> QED
    BY <2>1, <2>2, <2>3, <2>5, <2>6 DEF Steady, Apart, Physical
<1>3. CASE PressPrinterKeys(on)
  <2>1. PICK row \in {0, 2} : m' = SetLine(m, 12, row, on) /\ UNCHANGED <<lab, latch, paper>>
    BY <1>3 DEF PressPrinterKeys, PressPrinterPrint, PressPrinterAdv
  <2>2. row # 4
    OBVIOUS
  <2> QED
    BY <2>1, <2>2, PrinterKeySteady
<1> QED
  BY <1>1, <1>2, <1>3

LEMMA TraceCallsSteady == ASSUME Physical, TraceCalls PROVE Steady
<1>0. UNCHANGED <<lab, latch, paper>>
  BY DEF TraceCalls, TickTrace, TraceKey, SetManualTrace, SetCpuPanelVisible, ScriptedTrace, TraceCall, TellLimit,
         Drain, WriteManual, WriteScripted, DrainEnds, ApplyTraceFlags, CloseTrace, OpenTrace, TraceDone
<1>1. CASE \E t \in {"ui", "script"} : Drain(t) \/ DrainEnds(t) \/ ApplyTraceFlags(t)
  <2>1. \E v : m' = m \/ ((Headed(m.ring) => Headed(v)) /\ m' = [m EXCEPT !.ring = v]) \/ m' = [m EXCEPT !.trace = v]
    <3>1. CASE \E t \in {"ui", "script"} : Drain(t)
      <4>1. m' = [m EXCEPT !.ring = Drained(m.ring).ring]
        BY <3>1, Zenon DEF Drain
      <4> QED
        BY <4>1, RingHeaded
    <3>2. CASE \E t \in {"ui", "script"} : DrainEnds(t) \/ ApplyTraceFlags(t)
      <4> DEFINE v == IF file.panel \/ file.manual.open \/ file.scripted.open THEN {"REGS"} ELSE {}
      <4>1. WithFlags = [m EXCEPT !.trace = v]
        BY DEF WithFlags
      <4>2. m' \in {m, WithFlags}
        BY <3>2 DEF DrainEnds, ApplyTraceFlags
      <4> HIDE DEF v
      <4> QED
        BY <4>1, <4>2
    <3> QED
      BY <1>1, <3>1, <3>2
  <2>2. Held(m, m')
    <3>1. PICK v : m' = m \/ ((Headed(m.ring) => Headed(v)) /\ m' = [m EXCEPT !.ring = v]) \/ m' = [m EXCEPT !.trace = v]
      BY <2>1
    <3>2. Held(m, m) /\ ((Headed(m.ring) => Headed(v)) => Held(m, [m EXCEPT !.ring = v])) /\ Held(m, [m EXCEPT !.trace = v])
      BY FieldHeld, HeldItself
    <3> QED
      BY <3>1, <3>2
  <2> QED
    BY <1>0, <2>2, HeldSteady
<1>2. CASE ~(\E t \in {"ui", "script"} : Drain(t) \/ DrainEnds(t) \/ ApplyTraceFlags(t))
  <2>1. TickTrace \/ TraceKey \/ TellLimit => m' = m
    BY DEF TickTrace, TraceKey, TraceCall, TellLimit
  <2>2. (\E on \in BOOLEAN : SetManualTrace(on) \/ SetCpuPanelVisible(on) \/ ScriptedTrace(on)) => m' = m
    BY DEF SetManualTrace, SetCpuPanelVisible, ScriptedTrace, TraceCall
  <2>3. (\E t \in {"ui", "script"} : WriteManual(t) \/ WriteScripted(t) \/ CloseTrace(t) \/ OpenTrace(t)) => m' = m
    BY DEF WriteManual, WriteScripted, CloseTrace, OpenTrace
  <2>4. m' = m
    BY <1>2, <2>1, <2>2, <2>3, Zenon DEF TraceCalls
  <2> QED
    BY <1>0, <2>4, IdleSteady
<1> QED
  BY <1>1, <1>2

LEMMA StepsSteady ==
  ASSUME Physical,
         \/ MachineStep \/ StepUntilNextKeycode(KeycodeBudget) \/ BeginNext \/ RunAsm(KeycodeBudget, EntrySteps)
         \/ \E l \in Listings : LoadAsm(l)
         \/ \E f \in {{}, {"REGS"}, {"REGS", "BREAKPOINTS"}} : SetTraceFlags(f)
         \/ \E b \in {{}, {1}} : SetBreakpoints(b)
  PROVE  Steady
<1>0. UNCHANGED <<lab, latch, paper>>
  BY DEF MachineStep, StepUntilNextKeycode, BeginNext, RunAsm, LoadAsm, SetTraceFlags, SetBreakpoints
<1>1. CASE MachineStep
  BY <1>0, <1>1, MachineStepHeld, HeldSteady DEF MachineStep
<1>2. CASE StepUntilNextKeycode(KeycodeBudget)
  BY <1>0, <1>2, UntilHeld, BudgetAssumption, HeldSteady DEF StepUntilNextKeycode
<1>3. CASE BeginNext
  BY <1>0, <1>3, BeginHeld, HeldSteady DEF BeginNext
<1>4. CASE RunAsm(KeycodeBudget, EntrySteps)
  BY <1>0, <1>4, RunAsmHeld, HeldSteady DEF RunAsm
<1>5. CASE \E l \in Listings : LoadAsm(l)
  <2>1. PICK words : m' = IF words = <<>> THEN m ELSE LoadDebugOverlay(m, words)
    BY <1>5 DEF LoadAsm
  <2> QED
    BY <1>0, <2>1, FieldHeld, HeldItself, HeldSteady
<1>6. CASE \E f \in {{}, {"REGS"}, {"REGS", "BREAKPOINTS"}} : SetTraceFlags(f)
  <2>1. PICK f : m' = [m EXCEPT !.trace = f]
    BY <1>6 DEF SetTraceFlags
  <2> QED
    BY <1>0, <2>1, FieldHeld, HeldSteady
<1>7. CASE \E b \in {{}, {1}} : SetBreakpoints(b)
  <2>1. PICK b : m' = [m EXCEPT !.breaks = b]
    BY <1>7 DEF SetBreakpoints
  <2> QED
    BY <1>0, <2>1, FieldHeld, HeldSteady
<1> QED
  BY <1>1, <1>2, <1>3, <1>4, <1>5, <1>6, <1>7

\* Whatever the machine does and whoever calls it.
LEMMA MachineSteady == ASSUME Physical, MachineStep \/ Calls \/ Rest PROVE Steady
<1>1. CASE Reset
  BY <1>1, ResetSteady DEF Reset
<1>2. CASE \E k \in Keys : PressKey(k) \/ ReleaseKey(k)
  <2>1. PICK k \in Keys, on \in BOOLEAN : m' = SetLine(m, k[2], k[1], on) /\ UNCHANGED <<lab, latch, paper>>
    BY <1>2 DEF PressKey, ReleaseKey
  <2> QED
    BY <2>1, KeySteady
<1>3. CASE TickHeat \/ ClearHeatmap
  BY <1>3, IdleSteady DEF TickHeat, ClearHeatmap
<1>4. CASE Rest
  BY <1>4, IdleSteady DEF Rest, vars
<1>5. CASE \E on \in BOOLEAN : SetPrinterConnected(on) \/ SetPrinterTrace(on) \/ PressPrinterKeys(on)
  BY <1>5, PrinterCallsSteady
<1> QED
  BY <1>1, <1>2, <1>3, <1>4, <1>5, StepsSteady, CardCallsSteady, TraceCallsSteady, TickTextSteady, TickCodesSteady, CutSteady DEF Calls

--------------------------------------------------------------------------------
(***************************************************************************)
(* The UI thread's call: which steps may be left of it, and in which       *)
(* order.                                                                  *)
(***************************************************************************)

\* The steps after which no card is in, and those that come before them.
Moves == {"loadSaved", "softReset", "resetCpu"}
First == {"beginReset", "library"}
Alone == {"machine", "reload"}

\* What a step carries; a preset and another machine only where the lab has
\* these calls.
StepOk(e, calls) ==
  /\ e.do = "adopt" => e.printer \subseteq BOOLEAN
  /\ e.do = "apply" => e.r.printer \subseteq BOOLEAN /\ "load" \in calls
  /\ e.do = "machine" => e.model \in Calculators /\ calls \cap {"load", "model"} # {}

\* beginReset and library come first or not at all, and a step that clears the
\* reader follows beginReset.  A new machine, and a reload, are calls of their own.
UiOk(u, calls) ==
  /\ AnySeq(u)
  /\ \A e \in Range(u) : StepOk(e, calls)
  /\ "machine" \in Due(u) => Due(u) \subseteq {"persist", "machine", "apply"}
  /\ "reload" \in Due(u) => Due(u) = {"reload"}
  /\ u # <<>> => /\ Due(Tail(u)) \cap First = {}
                 /\ Head(u).do = "beginReset" => Due(Tail(u)) \cap Moves # {}

\* A call's steps, or those that one of them puts before the rest.
Portion(x, calls) ==
  /\ AnySeq(x) /\ x # <<>> /\ Due(Tail(x)) \cap First = {} /\ Due(x) \cap Alone = {}
  /\ \A e \in Range(x) : StepOk(e, calls)

LEMMA UiEmpty == ASSUME NEW calls PROVE UiOk(<<>>, calls)
  BY NothingDue DEF UiOk

LEMMA UiTail == ASSUME NEW u, NEW calls, UiOk(u, calls), u # <<>> PROVE UiOk(Tail(u), calls)
<1>1. AnySeq(u) /\ AnySeq(Tail(u)) /\ Range(u) = {Head(u)} \cup Range(Tail(u)) /\ Due(u) = {Head(u).do} \cup Due(Tail(u))
  BY TailDue DEF UiOk
<1> DEFINE t == Tail(u)
<1>2. t # <<>> => Due(t) = {Head(t).do} \cup Due(Tail(t))
  BY <1>1, TailDue
<1>3. Due(t) \cap First = {} /\ "beginReset" \in First
  BY DEF UiOk, First
<1> HIDE DEF t
<1>4. t # <<>> => /\ Due(Tail(t)) \cap First = {}
                  /\ Head(t).do # "beginReset"
  BY <1>2, <1>3
<1>5. "reload" \in Due(t) => Due(t) = {"reload"}
  <2> SUFFICES ASSUME "reload" \in Due(t) PROVE Due(t) = {"reload"}
    OBVIOUS
  <2>1. Due(u) = {"reload"}
    BY <1>1 DEF UiOk, t
  <2> QED
    BY <1>1, <2>1 DEF t
<1> QED
  BY <1>1, <1>4, <1>5 DEF UiOk, t

LEMMA PortionOk ==
  ASSUME NEW x, NEW calls, Portion(x, calls), Head(x).do = "beginReset" => Due(Tail(x)) \cap Moves # {}
  PROVE  UiOk(x, calls)
  BY DEF Portion, UiOk, Alone

LEMMA UiPush ==
  ASSUME NEW u, NEW calls, UiOk(u, calls), u # <<>>, Head(u).do \notin {"persist", "machine", "apply", "reload"},
         NEW x, Portion(x, calls), Head(x).do = "beginReset" => Due(Tail(x)) \cap Moves # {}
  PROVE  UiOk(x \o Tail(u), calls) /\ Due(x \o Tail(u)) = Due(x) \cup Due(Tail(u))
<1> DEFINE t == Tail(u)
<1>1. AnySeq(u) /\ AnySeq(t) /\ Range(u) = {Head(u)} \cup Range(t) /\ Due(u) = {Head(u).do} \cup Due(t)
  BY TailDue DEF UiOk
<1> HIDE DEF t
<1>2. /\ AnySeq(x \o t) /\ Range(x \o t) = Range(x) \cup Range(t) /\ Due(x \o t) = Due(x) \cup Due(t)
      /\ x \o t # <<>> /\ Head(x \o t) = Head(x) /\ Tail(x \o t) = Tail(x) \o t
  BY <1>1, JoinDue DEF Portion
<1>3. Due(Tail(x) \o t) = Due(Tail(x)) \cup Due(t)
  <2>1. AnySeq(Tail(x))
    BY TailDue DEF Portion
  <2> QED
    BY <1>1, <2>1, JoinDue
<1>4. "machine" \notin Due(u) /\ "reload" \notin Due(u) /\ Due(t) \cap First = {}
  BY <1>1 DEF UiOk, t
<1>5. "machine" \notin Due(x \o t) /\ "reload" \notin Due(x \o t)
  BY <1>1, <1>2, <1>4 DEF Portion, Alone
<1>6. \A e \in Range(x \o t) : StepOk(e, calls)
  BY <1>1, <1>2 DEF Portion, UiOk
<1>7. Due(Tail(x \o t)) \cap First = {} /\ (Head(x \o t).do = "beginReset" => Due(Tail(x \o t)) \cap Moves # {})
  BY <1>2, <1>3, <1>4 DEF Portion
<1>8. UiOk(x \o t, calls)
  BY <1>2, <1>5, <1>6, <1>7 DEF UiOk
<1> QED
  BY <1>2, <1>8 DEF t

LEMMA PortionOne ==
  ASSUME NEW e, NEW calls, StepOk(e, calls), e.do \notin Alone
  PROVE  Portion(<<e>>, calls) /\ Due(<<e>>) = {e.do} /\ Head(<<e>>) = e /\ Due(Tail(<<e>>)) = {}
<1>1. Due(Tail(<<e>>)) = {}
  BY OneDue, NothingDue
<1> QED
  BY <1>1, OneDue DEF Portion

LEMMA PortionDo ==
  ASSUME NEW what, what \notin {"adopt", "apply", "machine", "reload"}, NEW calls
  PROVE  /\ Portion(Do(what), calls) /\ Due(Do(what)) = {what} /\ Head(Do(what)).do = what /\ Due(Tail(Do(what))) = {}
         /\ Tail(Do(what)) = <<>>
<1> DEFINE e == [do |-> what]
<1>1. StepOk(e, calls) /\ e.do \notin Alone /\ e.do = what
  BY DEF StepOk, Alone
<1> HIDE DEF e
<1>2. Portion(<<e>>, calls) /\ Due(<<e>>) = {e.do} /\ Head(<<e>>) = e /\ Due(Tail(<<e>>)) = {} /\ Tail(<<e>>) = <<>>
  BY <1>1, PortionOne, OneDue
<1> QED
  BY <1>1, <1>2 DEF Do, e

LEMMA PortionJoin ==
  ASSUME NEW x, NEW y, NEW calls, Portion(x, calls), Portion(y, calls), Due(y) \cap First = {}
  PROVE  /\ Portion(x \o y, calls) /\ Due(x \o y) = Due(x) \cup Due(y) /\ Head(x \o y) = Head(x)
         /\ Due(Tail(x \o y)) = Due(Tail(x)) \cup Due(y)
<1>1. /\ AnySeq(x \o y) /\ Range(x \o y) = Range(x) \cup Range(y) /\ Due(x \o y) = Due(x) \cup Due(y)
      /\ x \o y # <<>> /\ Head(x \o y) = Head(x) /\ Tail(x \o y) = Tail(x) \o y
  BY JoinDue DEF Portion
<1>2. Due(Tail(x) \o y) = Due(Tail(x)) \cup Due(y)
  <2>1. AnySeq(Tail(x)) /\ AnySeq(y)
    BY TailDue DEF Portion
  <2> QED
    BY <2>1, JoinDue
<1> QED
  BY <1>1, <1>2 DEF Portion

--------------------------------------------------------------------------------
(***************************************************************************)
(* The inductive invariant, and what keeps it.                             *)
(***************************************************************************)
OfLab == \E l \in Labs : lab.calls = l.calls /\ lab.desk = l.desk

\* A cut, a preset and another calculator set the paper or the numbers of its
\* lines back while lines may still be queued.
PaperInv == lab.calls \cap {"cut", "load", "model"} = {} => PaperOk(paper, m.prn)

\* Of the machine; of the card in the reader, whose pass may be over while the
\* reset that takes it out is still to come; of the cue card, which a preset's own
\* is about to replace; of the library, which a module's is about to replace.
Core == OfLab /\ Physical /\ PaperInv
CardOk == "frame" \in lab.calls => (m.card.present => pass # <<>> \/ Due(ui) \cap Moves # {})
CueOk ==
  /\ {"user", "preset", "program", "module", "cards", "shown"} \subseteq DOMAIN cue
  /\ cue.cards = CardsOf[cue.module]
  /\ cue.shown = CueOf(cue, fitted) \/ "adopt" \in Due(ui)
LibraryOk ==
  /\ "image" \in DOMAIN panel
  /\ lab.desk.module # "" /\ "library" \notin Due(ui)
     => m.lib = ImageOf[cue.module] /\ panel.image = ParseImage(m.lib)

\* The inductive invariant.
DeskInv == Core /\ UiOk(ui, lab.calls) /\ CardOk /\ CueOk /\ LibraryOk

\* What keeps the machine's part.
LEMMA CoreSteady == ASSUME Core, Steady PROVE Core'
  BY DEF Core, Steady, OfLab, PaperInv

LEMMA CoreSame == ASSUME Core, UNCHANGED <<lab, m, latch, paper>> PROVE Core'
  BY IdleSteady, CoreSteady DEF Core

\* The machine and its calls, between the UI thread's own.
LEMMA MachineKeeps ==
  ASSUME DeskInv, Steady, UNCHANGED <<pass, fitted, cue, panel, ui>>
  PROVE  DeskInv'
<1>1. Core'
  BY CoreSteady DEF DeskInv
<1>2. lab' = lab /\ m'.lib = m.lib /\ ("card" \notin lab.calls => (m'.card.present => m.card.present))
  BY DEF Steady
<1>3. "frame" \in lab.calls => "card" \notin lab.calls
  BY LabAssumption DEF DeskInv, Core, OfLab
<1>4. CardOk'
  BY <1>2, <1>3 DEF DeskInv, CardOk
<1>5. UiOk(ui, lab.calls)' /\ CueOk' /\ LibraryOk'
  BY <1>2 DEF DeskInv, CueOk, LibraryOk, CueOf, UserOrFitted, FittedCue
<1> QED
  BY <1>1, <1>4, <1>5 DEF DeskInv

LEMMA SameKeeps ==
  ASSUME DeskInv, UNCHANGED <<lab, m, latch, paper, pass, fitted, cue, panel, ui>>
  PROVE  DeskInv'
  BY IdleSteady, MachineKeeps DEF DeskInv, Core

\* A call of the UI thread begins.
LEMMA CallKeeps ==
  ASSUME DeskInv, ui = <<>>, UiOk(ui', lab.calls), UNCHANGED <<lab, m, latch, paper, pass, fitted, cue, panel>>
  PROVE  DeskInv'
<1>1. Core'
  BY CoreSame DEF DeskInv
<1>2. Due(ui) = {}
  BY NothingDue
<1> QED
  BY <1>1, <1>2 DEF DeskInv, CardOk, CueOk, LibraryOk, CueOf, UserOrFitted, FittedCue

\* A step of it that the theorems are not about.
LEMMA StepKeeps ==
  ASSUME DeskInv, ui # <<>>, UiOk(ui', lab.calls), UNCHANGED <<lab, m, latch, paper, pass, fitted, cue, panel>>,
         Head(ui).do \notin Moves \cup {"adopt", "library"}, Due(Tail(ui)) \subseteq Due(ui')
  PROVE  DeskInv'
<1>1. Core'
  BY CoreSame DEF DeskInv
<1>2. Due(ui) = {Head(ui).do} \cup Due(Tail(ui))
  BY TailDue DEF DeskInv, UiOk
<1>3. Due(ui) \cap Moves \subseteq Due(ui') /\ ("adopt" \in Due(ui) => "adopt" \in Due(ui')) /\ ("library" \in Due(ui) => "library" \in Due(ui'))
  BY <1>2
<1> QED
  BY <1>1, <1>3 DEF DeskInv, CardOk, CueOk, LibraryOk, CueOf, UserOrFitted, FittedCue

\* refreshCueCard().
LEMMA RefreshedShows ==
  ASSUME NEW c, {"user", "preset", "program", "module", "cards", "shown"} \subseteq DOMAIN c, NEW f
  PROVE  LET d == Refreshed(c, f)
         IN /\ {"user", "preset", "program", "module", "cards", "shown"} \subseteq DOMAIN d
            /\ d.cards = c.cards /\ d.module = c.module /\ d.shown = CueOf(d, f)
<1> DEFINE v == CueOf(c, f)
           d == [c EXCEPT !.shown = v]
<1>1. /\ {"user", "preset", "program", "module", "cards", "shown"} \subseteq DOMAIN d
      /\ d.cards = c.cards /\ d.module = c.module /\ d.shown = v /\ d.program = c.program /\ d.user = c.user
  <2> HIDE DEF v
  <2> QED
    OBVIOUS
<1> HIDE DEF d
<1>2. CueOf(d, f) = v
  BY <1>1 DEF CueOf, UserOrFitted, v
<1> QED
  BY <1>1, <1>2 DEF Refreshed, d

LEMMA PanelAttachedImage ==
  ASSUME NEW raw
  PROVE  "image" \in DOMAIN PanelAttached(raw) /\ PanelAttached(raw).image = ParseImage(raw)
<1> DEFINE v == ParseImage(raw)
<1>1. PanelAttached(raw) = [image |-> v, live |-> <<>>, listing |-> <<>>, source |-> "UserProgram", told |-> NoStep]
  BY DEF PanelAttached
<1> HIDE DEF v
<1>2. "image" \in DOMAIN PanelAttached(raw) /\ PanelAttached(raw).image = v
  BY <1>1
<1> QED
  BY <1>2 DEF v

\* It holds in the beginning.
LEMMA InitKeeps == ASSUME DeskInit PROVE DeskInv
<1>1. PICK l \in Labs : /\ lab = [field \in DOMAIN l \ {"start"} |-> l[field]]
                        /\ m = SetPrinterConnectedLine(SwitchPressed(l.start), FALSE)
  BY DEF DeskInit, Init
<1>2. lab.calls = l.calls /\ lab.desk = l.desk
  <2>1. {"calls", "desk"} \subseteq DOMAIN l
    BY LabAssumption
  <2> QED
    BY <1>1, <2>1
<1> DEFINE c == l.start
           off == FALSE
<1>3. /\ Whole(c) /\ Headed(c.ring) /\ c.model \in Calculators /\ PrnOk(c.prn) /\ TextBase(c.prn) = 0 /\ CodeBase(c.prn) = 0 /\ DOMAIN c.key = Pos
      /\ {"present", "waiting"} \subseteq DOMAIN c.card /\ c.card.present = FALSE /\ 2 \notin c.key[15]
  <2>1. DOMAIN PoweredOn \subseteq DOMAIN c /\ c.ring = RingAtStart /\ c.model \in Calculators /\ c.key = PoweredOn.key /\ c.card = ReaderAtStart /\ c.prn = PrinterAtStart
    BY LabAssumption
  <2>2. PoweredOn.key = [i \in Pos |-> {}] /\ 15 \in Pos
    BY SwitchInPos DEF PoweredOn
  <2>3. {"present", "waiting"} \subseteq DOMAIN c.card /\ c.card.present = FALSE
    BY <2>1 DEF ReaderAtStart
  <2>4. Parts \subseteq DOMAIN c
    <3>1. Parts \subseteq DOMAIN PoweredOn
      BY DEF PoweredOn, Parts
    <3> QED
      BY <2>1, <3>1
  <2>5. Headed(c.ring)
    BY <2>1, StartHeaded
  <2> QED
    BY <2>1, <2>2, <2>3, <2>4, <2>5, PrinterAtStartOk DEF Whole
<1>4. c.lib = ImageOf[lab.desk.module] \/ lab.desk.module = ""
  BY <1>2, LabAssumption
<1>5. off \in BOOLEAN /\ ~off /\ m = SetPrinterConnectedLine(SwitchPressed(c), off)
  BY <1>1
<1> HIDE DEF c, off
<1>6. Sound(m) /\ Apart(c, m) /\ (2 \in m.key[PrinterCol(m.model)] <=> off) /\ (2 \in m.key[15] <=> 2 \in c.key[15])
  BY <1>3, <1>5, SwitchAndLines
<1>7. latch = [connected |-> FALSE, trace |-> FALSE] /\ paper = [text |-> <<>>, codes |-> <<>>] /\ ui = <<>>
  BY DEF DeskInit, Init
<1>8. Physical
  BY <1>3, <1>5, <1>6, <1>7 DEF Physical, OfLatch, Lines
<1>9. PaperOk(paper, m.prn)
  <2> DEFINE e == <<>>
  <2>1. e \in Seq(Nat) /\ e \in Seq(CodeLines) /\ Len(e) = 0
    OBVIOUS
  <2>2. {"text", "codes"} \subseteq DOMAIN paper /\ paper.text = e /\ paper.codes = e
    BY <1>7
  <2>3. TextBase(m.prn) = 0 /\ CodeBase(m.prn) = 0
    BY <1>3, <1>6 DEF Apart
  <2> HIDE DEF e
  <2>4. \A i \in 1..Len(e) : FALSE
    BY <2>1
  <2> QED
    BY <2>1, <2>2, <2>3, <2>4 DEF PaperOk
<1>10. Core
  BY <1>2, <1>8, <1>9 DEF Core, OfLab, PaperInv
<1>11. CardOk
  BY <1>3, <1>6 DEF CardOk, Apart
<1>12. CueOk
  <2> DEFINE v == CardsOf[lab.desk.module]
  <2>1. fitted = <<>> /\ cue = [user |-> <<>>, preset |-> <<>>, program |-> 0, module |-> lab.desk.module, cards |-> v, shown |-> <<>>]
    BY DEF DeskInit
  <2> HIDE DEF v
  <2>2. /\ {"user", "preset", "program", "module", "cards", "shown"} \subseteq DOMAIN cue
        /\ cue.cards = v /\ cue.module = lab.desk.module /\ cue.program = 0 /\ cue.user = <<>> /\ cue.shown = <<>>
    BY <2>1
  <2>3. UserOrFitted(cue, fitted) = <<>>
    BY <2>1, <2>2 DEF UserOrFitted
  <2>4. \A a, b : ResolveCueCard(0, a, b, <<>>) = <<>>
    BY DEF ResolveCueCard
  <2>5. CueOf(cue, fitted) = <<>>
    BY <2>2, <2>3, <2>4 DEF CueOf
  <2> QED
    BY <2>2, <2>5 DEF CueOk, v
<1>13. LibraryOk
  <2>1. panel = PanelAttached(ImageOf[lab.desk.module]) /\ cue.module = lab.desk.module
    BY DEF DeskInit
  <2>2. m.lib = c.lib
    BY <1>6 DEF Apart
  <2> QED
    BY <1>4, <2>1, <2>2, PanelAttachedImage DEF LibraryOk
<1> QED
  BY <1>7, <1>10, <1>11, <1>12, <1>13, UiEmpty DEF DeskInv

--------------------------------------------------------------------------------
(***************************************************************************)
(* The steps of a frame, and those that only change what no theorem here   *)
(* is about.                                                               *)
(***************************************************************************)

LEMMA UiCallIs == ASSUME NEW call, UiCall(call) PROVE ui = <<>> /\ call \in lab.calls
  BY DEF UiCall, UiIdle, May

LEMMA DoingIs == ASSUME NEW what, Doing(what), DeskInv
                 PROVE ui # <<>> /\ Head(ui).do = what /\ UiOk(ui, lab.calls) /\ UiOk(Tail(ui), lab.calls)
                       /\ Due(ui) = {what} \cup Due(Tail(ui)) /\ Head(ui) \in Range(ui)
<1>1. ui # <<>> /\ Head(ui).do = what /\ UiOk(ui, lab.calls)
  BY DEF Doing, DeskInv
<1>2. AnySeq(ui)
  BY <1>1 DEF UiOk
<1>3. UiOk(Tail(ui), lab.calls)
  BY <1>1, UiTail
<1>4. Range(ui) = {Head(ui)} \cup Range(Tail(ui)) /\ Due(ui) = {Head(ui).do} \cup Due(Tail(ui))
  BY <1>1, <1>2, TailDue
<1> QED
  BY <1>1, <1>3, <1>4

\* A step that is done, or puts others before the rest of its call.
LEMMA StepGoesOn ==
  ASSUME DeskInv, NEW what, Doing(what), what \notin {"reload", "machine", "apply"},
         ui' = Tail(ui) \/ (what # "persist" /\ \E x : /\ Portion(x, lab.calls) /\ ui' = x \o Tail(ui)
                                                     /\ Head(x).do # "beginReset")
  PROVE  UiOk(ui', lab.calls) /\ Due(Tail(ui)) \subseteq Due(ui')
<1>1. ui # <<>> /\ Head(ui).do = what /\ UiOk(ui, lab.calls) /\ UiOk(Tail(ui), lab.calls)
  BY DoingIs
<1>2. CASE ui' = Tail(ui)
  BY <1>1, <1>2
<1>3. CASE what # "persist" /\ \E x : Portion(x, lab.calls) /\ ui' = x \o Tail(ui) /\ Head(x).do # "beginReset"
  <2>1. PICK x : Portion(x, lab.calls) /\ ui' = x \o Tail(ui) /\ Head(x).do # "beginReset"
    BY <1>3
  <2>2. Head(ui).do \notin {"persist", "machine", "apply", "reload"}
    BY <1>1, <1>3
  <2>3. UiOk(x \o Tail(ui), lab.calls) /\ Due(x \o Tail(ui)) = Due(x) \cup Due(Tail(ui))
    BY <1>1, <2>1, <2>2, UiPush
  <2> QED
    BY <2>1, <2>3
<1> QED
  BY <1>2, <1>3

LEMMA QuietStep ==
  ASSUME DeskInv, NEW what, Doing(what), what \notin {"reload", "machine", "apply", "adopt", "library"} \cup Moves,
         ui' = Tail(ui) \/ (what # "persist" /\ \E x : /\ Portion(x, lab.calls) /\ ui' = x \o Tail(ui)
                                                     /\ Head(x).do # "beginReset"),
         UNCHANGED <<lab, m, latch, paper, pass, fitted, cue, panel>>
  PROVE  DeskInv'
<1>1. UiOk(ui', lab.calls) /\ Due(Tail(ui)) \subseteq Due(ui')
  BY StepGoesOn
<1>2. ui # <<>> /\ Head(ui).do = what
  BY DoingIs
<1>3. Head(ui).do \notin Moves \cup {"adopt", "library"}
  BY <1>2
<1> QED
  BY <1>1, <1>2, <1>3, StepKeeps

LEMMA PushOne ==
  ASSUME NEW what, what \notin {"adopt", "apply", "machine", "reload", "beginReset"}, ui' = Do(what) \o Tail(ui)
  PROVE  \E x : Portion(x, lab.calls) /\ ui' = x \o Tail(ui) /\ Head(x).do # "beginReset"
<1> DEFINE x == Do(what)
<1>1. Portion(x, lab.calls) /\ Head(x).do = what
  BY PortionDo
<1> HIDE DEF x
<1>2. ui' = x \o Tail(ui) /\ Head(x).do # "beginReset"
  BY <1>1 DEF x
<1> QED
  BY <1>1, <1>2

LEMMA NothingPushed == ASSUME DeskInv, ui # <<>> PROVE <<>> \o Tail(ui) = Tail(ui)
<1>1. AnySeq(Tail(ui)) /\ AnySeq(<<>>)
  BY TailDue, NothingDue DEF DeskInv, UiOk
<1> QED
  BY <1>1, JoinDue

LEMMA FrameStepsKeep ==
  ASSUME DeskInv, Sample \/ Look \/ Save \/ Persist \/ HostDoneCalled \/ PlayKeystrokes \/ ResetBaseline \/ StopLoop
  PROVE  DeskInv'
<1>1. CASE Sample
  <2>1. Doing("sample") /\ UNCHANGED <<lab, m, latch, paper, pass, fitted, cue, panel>>
    BY <1>1 DEF Sample, vars
  <2>2. ui' = Do("eject") \o Tail(ui) \/ ui' = <<>> \o Tail(ui)
    BY <1>1 DEF Sample
  <2>3. ui # <<>>
    BY <2>1, DoingIs
  <2>4. ui' = Tail(ui) \/ \E x : Portion(x, lab.calls) /\ ui' = x \o Tail(ui) /\ Head(x).do # "beginReset"
    BY <2>2, <2>3, NothingPushed, PushOne
  <2> QED
    BY <2>1, <2>4, QuietStep DEF Moves
<1>2. CASE Look
  <2> DEFINE e == [do |-> "take", pc |-> m.addr]
  <2>1. Doing("look") /\ UNCHANGED <<lab, m, latch, paper, pass, fitted, cue, panel>>
    BY <1>2 DEF Look, vars
  <2>2. ui' = <<e>> \o Tail(ui) \/ ui' = <<>> \o Tail(ui)
    BY <1>2 DEF Look
  <2>3. ui # <<>>
    BY <2>1, DoingIs
  <2>4. StepOk(e, lab.calls) /\ e.do \notin Alone /\ e.do = "take"
    BY DEF StepOk, Alone
  <2> HIDE DEF e
  <2>5. Portion(<<e>>, lab.calls) /\ Head(<<e>>).do # "beginReset"
    BY <2>4, PortionOne
  <2>6. ui' = Tail(ui) \/ \E x : Portion(x, lab.calls) /\ ui' = x \o Tail(ui) /\ Head(x).do # "beginReset"
    BY <2>2, <2>3, <2>5, NothingPushed
  <2> QED
    BY <2>1, <2>6, QuietStep DEF Moves
<1>3. CASE Save
  <2>1. Doing("save") /\ UNCHANGED <<lab, m, latch, paper, pass, fitted, cue, panel>>
    BY <1>3 DEF Save, vars
  <2>2. ui' = Do("persist") \o Tail(ui) \/ ui' = Tail(ui)
    BY <1>3 DEF Save, Done
  <2>3. ui' = Tail(ui) \/ \E x : Portion(x, lab.calls) /\ ui' = x \o Tail(ui) /\ Head(x).do # "beginReset"
    BY <2>2, PushOne
  <2> QED
    BY <2>1, <2>3, QuietStep DEF Moves
<1>4. CASE Persist \/ HostDoneCalled \/ PlayKeystrokes \/ ResetBaseline \/ StopLoop
  <2>1. PICK what \in {"persist", "hostDone", "play", "baseline", "stop"} : Doing(what)
    BY <1>4 DEF Persist, HostDoneCalled, PlayKeystrokes, ResetBaseline, StopLoop
  <2>2. ui' = Tail(ui) /\ UNCHANGED <<lab, m, latch, paper, pass, fitted, cue, panel>>
    BY <1>4 DEF Persist, HostDoneCalled, PlayKeystrokes, ResetBaseline, StopLoop, Done, vars
  <2>3. what \notin {"reload", "machine", "apply", "adopt", "library"} \cup Moves
    BY DEF Moves
  <2> QED
    BY <2>1, <2>2, <2>3, QuietStep
<1> QED
  BY <1>1, <1>2, <1>3, <1>4

--------------------------------------------------------------------------------
(***************************************************************************)
(* The calls that begin.                                                   *)
(***************************************************************************)

LEMMA BeginsKeep ==
  ASSUME DeskInv, ui = <<>>, Portion(ui', lab.calls), Head(ui').do = "beginReset" => Due(Tail(ui')) \cap Moves # {},
         UNCHANGED <<lab, m, latch, paper, pass, fitted, cue, panel>>
  PROVE  DeskInv'
<1>1. UiOk(ui', lab.calls)
  BY PortionOk
<1> QED
  BY <1>1, CallKeeps

LEMMA DoThen ==
  ASSUME NEW x, NEW calls, Portion(x, calls), NEW what, what \notin {"adopt", "apply", "machine", "reload"} \cup First
  PROVE  /\ Portion(x \o Do(what), calls) /\ Due(x \o Do(what)) = Due(x) \cup {what} /\ Head(x \o Do(what)) = Head(x)
         /\ Due(Tail(x \o Do(what))) = Due(Tail(x)) \cup {what}
<1> DEFINE y == Do(what)
<1>1. Portion(y, calls) /\ Due(y) = {what}
  BY PortionDo
<1> HIDE DEF y
<1>2. Due(y) \cap First = {}
  BY <1>1
<1>3. /\ Portion(x \o y, calls) /\ Due(x \o y) = Due(x) \cup Due(y) /\ Head(x \o y) = Head(x)
      /\ Due(Tail(x \o y)) = Due(Tail(x)) \cup Due(y)
  BY <1>1, <1>2, PortionJoin
<1> QED
  BY <1>1, <1>3 DEF y

LEMMA SimpleCallsKeep ==
  ASSUME DeskInv, PressEject \/ Frame \/ ResetMachine \/ CleanResetMachine \/ Suspend
  PROVE  DeskInv'
<1>1. ui = <<>> /\ UNCHANGED <<lab, m, latch, paper, pass, fitted, cue, panel>>
  BY UiCallIs DEF PressEject, Frame, ResetMachine, CleanResetMachine, Suspend, UiIdle, vars
<1>2. CASE PressEject
  <2>1. ui' = Do("eject")
    BY <1>2 DEF PressEject
  <2> QED
    BY <1>1, <2>1, PortionDo, BeginsKeep
<1>3. CASE Frame
  <2> DEFINE a == Do("sample")
             b == a \o Do("look")
             c == b \o Do("save")
             d == c \o Do("program")
  <2>0. ui' = d
    BY <1>3 DEF Frame
  <2>1. Portion(a, lab.calls) /\ Head(a).do = "sample"
    BY PortionDo
  <2> HIDE DEF a
  <2>2. Portion(b, lab.calls) /\ Head(b) = Head(a)
    BY <2>1, DoThen DEF First
  <2> HIDE DEF b
  <2>3. Portion(c, lab.calls) /\ Head(c) = Head(b)
    BY <2>2, DoThen DEF First
  <2> HIDE DEF c
  <2>4. Portion(d, lab.calls) /\ Head(d) = Head(c)
    BY <2>3, DoThen DEF First
  <2> HIDE DEF d
  <2> QED
    BY <1>1, <2>0, <2>1, <2>2, <2>3, <2>4, BeginsKeep
<1>4. CASE ResetMachine
  <2> DEFINE a == Do("beginReset")
             b == a \o Do("loadSaved")
             c == b \o Do("baseline")
  <2>0. ui' = c
    BY <1>4 DEF ResetMachine
  <2>1. Portion(a, lab.calls) /\ Due(Tail(a)) = {}
    BY PortionDo
  <2> HIDE DEF a
  <2>2. Portion(b, lab.calls) /\ Due(Tail(b)) = Due(Tail(a)) \cup {"loadSaved"}
    BY <2>1, DoThen DEF First
  <2> HIDE DEF b
  <2>3. Portion(c, lab.calls) /\ Due(Tail(c)) = Due(Tail(b)) \cup {"baseline"}
    BY <2>2, DoThen DEF First
  <2> HIDE DEF c
  <2>4. Due(Tail(c)) \cap Moves # {}
    BY <2>2, <2>3 DEF Moves
  <2> QED
    BY <1>1, <2>0, <2>3, <2>4, BeginsKeep
<1>5. CASE CleanResetMachine
  <2> DEFINE a == Do("beginReset")
             b == a \o Do("zeroRam")
             c == b \o Do("resetCpu")
             d == c \o Do("baseline")
             e == d \o Do("persist")
  <2>0. ui' = e
    BY <1>5 DEF CleanResetMachine
  <2>1. Portion(a, lab.calls) /\ Due(Tail(a)) = {}
    BY PortionDo
  <2> HIDE DEF a
  <2>2. Portion(b, lab.calls)
    BY <2>1, DoThen DEF First
  <2> HIDE DEF b
  <2>3. Portion(c, lab.calls) /\ Due(Tail(c)) = Due(Tail(b)) \cup {"resetCpu"}
    BY <2>2, DoThen DEF First
  <2> HIDE DEF c
  <2>4. Portion(d, lab.calls) /\ Due(Tail(d)) = Due(Tail(c)) \cup {"baseline"}
    BY <2>3, DoThen DEF First
  <2> HIDE DEF d
  <2>5. Portion(e, lab.calls) /\ Due(Tail(e)) = Due(Tail(d)) \cup {"persist"}
    BY <2>4, DoThen DEF First
  <2> HIDE DEF e
  <2>6. Due(Tail(e)) \cap Moves # {}
    BY <2>3, <2>4, <2>5 DEF Moves
  <2> QED
    BY <1>1, <2>0, <2>5, <2>6, BeginsKeep
<1>6. CASE Suspend
  <2> DEFINE a == Do("persist")
             b == a \o Do("stop")
  <2>0. ui' = b
    BY <1>6 DEF Suspend
  <2>1. Portion(a, lab.calls) /\ Head(a).do = "persist"
    BY PortionDo
  <2> HIDE DEF a
  <2>2. Portion(b, lab.calls) /\ Head(b) = Head(a)
    BY <2>1, DoThen DEF First
  <2> HIDE DEF b
  <2> QED
    BY <1>1, <2>0, <2>1, <2>2, BeginsKeep
<1> QED
  BY <1>2, <1>3, <1>4, <1>5, <1>6

LEMMA ChangeModuleKeeps == ASSUME DeskInv, NEW id, ChangeModule(id) PROVE DeskInv'
<1> DEFINE e == [do |-> "select", id |-> id, reset |-> TRUE]
<1>1. ui = <<>> /\ UNCHANGED <<lab, m, latch, paper, pass, fitted, cue, panel>> /\ ui' = <<e>>
  BY UiCallIs DEF ChangeModule, Selecting
<1>2. StepOk(e, lab.calls) /\ e.do \notin Alone /\ e.do = "select"
  BY DEF StepOk, Alone
<1> HIDE DEF e
<1>3. Portion(<<e>>, lab.calls) /\ Head(<<e>>) = e
  BY <1>2, PortionOne
<1> QED
  BY <1>1, <1>2, <1>3, BeginsKeep

LEMMA ReloadKeeps == ASSUME DeskInv, Reload PROVE DeskInv'
<1> DEFINE e == [do |-> "reload", stage |-> Head(queue.posted)]
<1>1. ui = <<>> /\ UNCHANGED <<lab, m, latch, paper, pass, fitted, cue, panel>> /\ ui' = <<e>>
  BY DEF Reload, UiIdle, vars
<1>2. StepOk(e, lab.calls) /\ e.do = "reload"
  BY DEF StepOk
<1> HIDE DEF e
<1>3. AnySeq(<<e>>) /\ Range(<<e>>) = {e} /\ Due(<<e>>) = {e.do} /\ Head(<<e>>) = e /\ Tail(<<e>>) = <<>>
  BY OneDue
<1>4. Due(Tail(<<e>>)) = {}
  BY <1>3, NothingDue
<1>5. UiOk(<<e>>, lab.calls)
  BY <1>2, <1>3, <1>4 DEF UiOk
<1> QED
  BY <1>1, <1>5, CallKeeps

LEMMA OthersKeep ==
  ASSUME DeskInv, \/ BatchDone \/ ScriptStep \/ ResumeAfterSuspend
                  \/ \E path \in DOMAIN folder : \E raw \in lab.desk.changes : FileChanges(path, raw)
  PROVE  DeskInv'
<1>1. UNCHANGED <<lab, m, latch, paper, pass, fitted, cue, panel, ui>>
  BY DEF BatchDone, ScriptStep, ResumeAfterSuspend, FileChanges, vars
<1> QED
  BY <1>1, SameKeeps

LEMMA ShowPanelKeeps == ASSUME DeskInv, NEW frozen, ShowPanel(frozen) PROVE DeskInv'
<1>1. UNCHANGED <<lab, m, latch, paper, pass, fitted, cue, ui>> /\ panel' = RebuildLive(panel, m, frozen)
  BY DEF ShowPanel
<1>2. Core'
  BY <1>1, CoreSame DEF DeskInv
<1>3. "image" \in DOMAIN panel' /\ panel'.image = panel.image
  <2> DEFINE s == Snapshot(m, panel.image)
             codes == SourceCodes(m, CalcViewState(m), panel.image)
             told == IF s.mismatch = <<>> THEN panel.told ELSE s.mismatch[1]
             list == ProgramListing(codes, s.step)
             live == [panel EXCEPT !.live = <<s>>, !.told = told]
  <2>1. panel' \in {live, [live EXCEPT !.listing = list, !.source = s.source]}
    BY <1>1 DEF RebuildLive
  <2> HIDE DEF told, s, list
  <2> QED
    BY <2>1 DEF DeskInv, LibraryOk
<1> QED
  BY <1>1, <1>2, <1>3 DEF DeskInv, CardOk, CueOk, LibraryOk, CueOf, UserOrFitted, FittedCue

LEMMA TwoDue ==
  ASSUME NEW a, NEW b
  PROVE  LET u == <<a>> \o <<b>>
         IN AnySeq(u) /\ Range(u) = {a, b} /\ Due(u) = {a.do, b.do} /\ Head(u) = a /\ Due(Tail(u)) = {b.do} /\ u # <<>>
<1> DEFINE x == <<a>>
           y == <<b>>
<1>1. AnySeq(x) /\ Range(x) = {a} /\ Due(x) = {a.do} /\ Head(x) = a /\ Tail(x) = <<>> /\ x # <<>>
  BY OneDue
<1>2. AnySeq(y) /\ Range(y) = {b} /\ Due(y) = {b.do}
  BY OneDue
<1> HIDE DEF x, y
<1>3. /\ AnySeq(x \o y) /\ Range(x \o y) = Range(x) \cup Range(y) /\ Due(x \o y) = Due(x) \cup Due(y)
      /\ x \o y # <<>> /\ Head(x \o y) = Head(x) /\ Tail(x \o y) = Tail(x) \o y
  BY <1>1, <1>2, JoinDue
<1>4. Tail(x) \o y = y
  <2> DEFINE t == Tail(x)
  <2>1. AnySeq(t) /\ t = <<>>
    BY <1>1, NothingDue
  <2> HIDE DEF t
  <2>2. t \o y = y
    BY <1>2, <2>1, JoinDue
  <2> QED
    BY <2>2 DEF t
<1>5. /\ AnySeq(x \o y) /\ Range(x \o y) = {a, b} /\ Due(x \o y) = {a.do, b.do} /\ x \o y # <<>> /\ Head(x \o y) = a
      /\ Tail(x \o y) = y
  BY <1>1, <1>2, <1>3, <1>4
<1>6. Due(Tail(x \o y)) = {b.do}
  BY <1>2, <1>5
<1> QED
  BY <1>5, <1>6 DEF x, y

LEMMA StartMachineKeeps == ASSUME DeskInv, NEW d \in Calculators, StartMachine(d) PROVE DeskInv'
<1> DEFINE a == [do |-> "persist"]
           b == [do |-> "machine", model |-> d]
<1>1. /\ ui = <<>> /\ "model" \in lab.calls /\ UNCHANGED <<lab, m, latch, paper, pass, fitted, cue, panel>>
      /\ ui' = <<a>> \o <<b>>
  BY UiCallIs DEF StartMachine, Do
<1>2. StepOk(a, lab.calls) /\ a.do = "persist" /\ StepOk(b, lab.calls) /\ b.do = "machine"
  BY <1>1 DEF StepOk
<1> HIDE DEF a, b
<1> DEFINE u == <<a>> \o <<b>>
<1>3. AnySeq(u) /\ Range(u) = {a, b} /\ Due(u) = {a.do, b.do} /\ Head(u) = a /\ Due(Tail(u)) = {b.do}
  BY TwoDue
<1> HIDE DEF u
<1>4. UiOk(u, lab.calls)
  BY <1>2, <1>3 DEF UiOk, First
<1> QED
  BY <1>1, <1>4, CallKeeps DEF u

LEMMA LoadStateFileKeeps ==
  ASSUME DeskInv, NEW lines \in lab.desk.presets, LoadStateFile(lines)
  PROVE  DeskInv'
<1> DEFINE target == StateFileModel(lines, m.model)
           r == ParseStateFile(lines, MaxStep(target), HasConstantMemory(target))
           c == [do |-> "apply", r |-> ForReader(target, r)]
           a == [do |-> "persist"]
           b == [do |-> "machine", model |-> target]
<1>1. /\ ui = <<>> /\ "load" \in lab.calls /\ UNCHANGED <<lab, m, latch, paper, pass, fitted, cue, panel>>
      /\ ui' = <<>> \o <<c>> \/ ui' = (<<a>> \o <<b>>) \o <<c>>
  BY UiCallIs DEF LoadStateFile, Do
<1>2. target \in Calculators /\ "printer" \in DOMAIN r /\ r.printer \subseteq BOOLEAN
  <2>1. m.model \in Calculators
    BY DEF DeskInv, Core, Physical, Sound
  <2>2. PICK l \in Labs : lines \in l.desk.presets
    BY DEF DeskInv, Core, OfLab
  <2>3. target \in Calculators
    BY <2>1, <2>2, PresetAssumption
  <2> HIDE DEF target
  <2> QED
    BY <2>2, <2>3, PresetAssumption
<1> HIDE DEF target, r
<1>3. ForReader(target, r).printer = r.printer
  <2>1. \A v : [r EXCEPT !.keystrokes = v].printer = r.printer
    BY <1>2
  <2> QED
    BY <2>1 DEF ForReader
<1>4. StepOk(a, lab.calls) /\ a.do = "persist" /\ StepOk(b, lab.calls) /\ b.do = "machine" /\ StepOk(c, lab.calls) /\ c.do = "apply"
  BY <1>1, <1>2, <1>3 DEF StepOk
<1> HIDE DEF a, b, c
<1> DEFINE u == <<a>> \o <<b>>
           v == <<c>>
<1>5. AnySeq(u) /\ Range(u) = {a, b} /\ Due(u) = {a.do, b.do} /\ Head(u) = a /\ Due(Tail(u)) = {b.do} /\ u # <<>>
  BY TwoDue
<1>6. AnySeq(v) /\ Range(v) = {c} /\ Due(v) = {c.do} /\ Head(v) = c /\ Tail(v) = <<>> /\ v # <<>> /\ Due(Tail(v)) = {}
  BY OneDue, NothingDue
<1>7. ui' = <<>> \o v \/ ui' = u \o v
  BY <1>1
<1> HIDE DEF u, v
<1>8. <<>> \o v = v
  BY <1>6, NothingDue, JoinDue
<1>9. UiOk(v, lab.calls)
  BY <1>4, <1>6 DEF UiOk, First
<1>10. UiOk(u \o v, lab.calls)
  <2>1. /\ AnySeq(u \o v) /\ Range(u \o v) = Range(u) \cup Range(v) /\ Due(u \o v) = Due(u) \cup Due(v)
        /\ u \o v # <<>> /\ Head(u \o v) = Head(u) /\ Tail(u \o v) = Tail(u) \o v
    BY <1>5, <1>6, JoinDue
  <2>2. Due(Tail(u) \o v) = Due(Tail(u)) \cup Due(v)
    BY <1>5, <1>6, TailDue, JoinDue
  <2> QED
    BY <1>4, <1>5, <1>6, <2>1, <2>2 DEF UiOk, First
<1> QED
  BY <1>1, <1>7, <1>8, <1>9, <1>10, CallKeeps

\* A card is fitted: only the cue card changes.
LEMMA FittedKeeps ==
  ASSUME DeskInv, cue' = Refreshed(cue, fitted'), UNCHANGED <<lab, m, latch, paper, pass, panel, ui>>
  PROVE  DeskInv'
<1>1. Core'
  BY CoreSame DEF DeskInv
<1>2. {"user", "preset", "program", "module", "cards", "shown"} \subseteq DOMAIN cue
  BY DEF DeskInv, CueOk
<1>3. /\ {"user", "preset", "program", "module", "cards", "shown"} \subseteq DOMAIN cue'
      /\ cue'.cards = cue.cards /\ cue'.module = cue.module /\ cue'.shown = CueOf(cue', fitted')
  BY <1>2, RefreshedShows
<1>4. CueOk'
  BY <1>3 DEF DeskInv, CueOk, CueOf, UserOrFitted, FittedCue
<1>5. LibraryOk' /\ CardOk'
  BY <1>3 DEF DeskInv, LibraryOk, CardOk
<1> QED
  BY <1>1, <1>4, <1>5 DEF DeskInv

LEMMA FitKeeps == ASSUME DeskInv, NEW path, FitCard(path) \/ FitBlankCard(path) PROVE DeskInv'
<1>1. UNCHANGED <<lab, m, latch, paper, pass, panel, ui>>
  BY DEF FitCard, FitBlankCard
<1>2. UNCHANGED <<fitted, cue>> \/ cue' = Refreshed(cue, fitted')
  BY DEF FitCard, FitBlankCard
<1> QED
  BY <1>1, <1>2, FittedKeeps, SameKeeps

LEMMA InsertedKeeps ==
  ASSUME Core, NEW data, m' = Inserted(data), UNCHANGED <<lab, latch, paper>>
  PROVE  Core' /\ m'.lib = m.lib /\ m'.model = m.model
<1>1. Sound(m') /\ Alike(m, m') /\ \A i \in Pos : 2 \in m'.key[i] <=> 2 \in m.key[i]
  BY InsertedSound DEF Inserted, Core, Physical
<1>2. 15 \in Pos /\ PrinterCol(m.model) \in Pos
  BY SwitchInPos
<1>3. Lines(m', latch) /\ Physical'
  BY <1>1, <1>2 DEF Core, Physical, Lines, Alike
<1>4. PaperOk(paper, m.prn) => PaperOk(paper, m'.prn)
  BY <1>1, PaperStays
<1> QED
  BY <1>1, <1>3, <1>4 DEF Core, PaperInv, OfLab, Alike

LEMMA FeedKeeps == ASSUME DeskInv, NEW side, FeedSide(side) PROVE DeskInv'
<1>1. PICK data, p : m' = Inserted(data) /\ pass' = <<p>>
  BY DEF FeedSide, StartSwipe
<1>2. UNCHANGED <<lab, latch, paper, fitted, cue, panel, ui>>
  BY DEF FeedSide
<1>3. Core' /\ m'.lib = m.lib
  BY <1>1, <1>2, InsertedKeeps DEF DeskInv
<1>4. pass' # <<>>
  BY <1>1
<1> QED
  BY <1>2, <1>3, <1>4 DEF DeskInv, CardOk, CueOk, LibraryOk, CueOf, UserOrFitted, FittedCue

--------------------------------------------------------------------------------
(***************************************************************************)
(* The steps that move a card, the cue card or the library.                *)
(***************************************************************************)
Fields == {"user", "preset", "program", "module", "cards", "shown"}

LEMMA CoreAlike ==
  ASSUME Core, Sound(m'), Alike(m, m'), OfLatch(latch'), Lines(m', latch'), UNCHANGED <<lab, paper>>
  PROVE  Core' /\ m'.lib = m.lib
<1>1. Physical'
  BY DEF Physical
<1>2. PaperOk(paper, m.prn) => PaperOk(paper, m'.prn)
  BY PaperStays
<1> QED
  BY <1>1, <1>2 DEF Core, PaperInv, OfLab, Alike

LEMMA CoreHeld ==
  ASSUME Core, Held(m, m'), UNCHANGED <<lab, latch, paper>>
  PROVE  Core' /\ m'.lib = m.lib /\ (m'.card.present => m.card.present)
<1>1. Sound(m') /\ Lines(m', latch) /\ Alike(m, m')
  BY LinesKept DEF Core, Physical, Held
<1>2. OfLatch(latch') /\ Lines(m', latch')
  BY <1>1 DEF Core, Physical
<1>3. Core' /\ m'.lib = m.lib
  BY <1>1, <1>2, CoreAlike
<1> QED
  BY <1>3 DEF Held, Core, Physical

LEMMA CoreCleaned ==
  ASSUME Core, Cleaned(m, m', latch), UNCHANGED <<lab, latch, paper>>
  PROVE  Core' /\ m'.lib = m.lib /\ m'.card.present = FALSE
<1>1. OfLatch(latch') /\ Lines(m', latch')
  BY DEF Core, Physical, Cleaned
<1> QED
  BY <1>1, CoreAlike DEF Cleaned

\* What the cue card shows after refreshCueCard().
LEMMA CueIsShown ==
  ASSUME NEW c, Fields \subseteq DOMAIN c, c.cards = CardsOf[c.module], cue' = Refreshed(c, fitted')
  PROVE  CueOk' /\ cue'.module = c.module
<1>1. /\ {"user", "preset", "program", "module", "cards", "shown"} \subseteq DOMAIN cue'
      /\ cue'.cards = c.cards /\ cue'.module = c.module /\ cue'.shown = CueOf(cue', fitted')
  BY RefreshedShows DEF Fields
<1> QED
  BY <1>1 DEF CueOk, CueOf, UserOrFitted, FittedCue

LEMMA CueStays ==
  ASSUME CueOk, UNCHANGED <<cue, fitted>>, "adopt" \in Due(ui) => "adopt" \in Due(ui')
  PROVE  CueOk' /\ cue'.module = cue.module
  BY DEF CueOk, CueOf, UserOrFitted, FittedCue

LEMMA LibraryStays ==
  ASSUME LibraryOk, UNCHANGED <<lab, panel>>, m'.lib = m.lib, cue'.module = cue.module,
         "library" \in Due(ui) => "library" \in Due(ui')
  PROVE  LibraryOk'
  BY DEF LibraryOk

LEMMA OfCue ==
  ASSUME DeskInv
  PROVE  Fields \subseteq DOMAIN cue /\ cue.cards = CardsOf[cue.module] /\ CueOk /\ LibraryOk /\ CardOk /\ Core
  BY DEF DeskInv, CueOk, Fields

\* A step that is done.
LEMMA StepDone ==
  ASSUME DeskInv, NEW what, Doing(what), Done
  PROVE  /\ UiOk(ui', lab.calls) /\ Due(ui) = {what} \cup Due(ui') /\ ui # <<>>
         /\ what # "adopt" => ("adopt" \in Due(ui) => "adopt" \in Due(ui'))
         /\ what # "library" => ("library" \in Due(ui) => "library" \in Due(ui'))
         /\ what \notin Moves => Due(ui) \cap Moves \subseteq Due(ui')
<1>1. ui # <<>> /\ UiOk(Tail(ui), lab.calls) /\ Due(ui) = {what} \cup Due(Tail(ui)) /\ ui' = Tail(ui)
  BY DoingIs DEF Done
<1> QED
  BY <1>1

LEMMA TheWhole ==
  ASSUME Core', UiOk(ui', lab.calls), lab' = lab, CardOk', CueOk', LibraryOk'
  PROVE  DeskInv'
  BY DEF DeskInv

\* ejectCard(): the reader is empty when the pass is over.
LEMMA EjectCardKeeps == ASSUME DeskInv, EjectCard PROVE DeskInv'
<1>1. Doing("eject") /\ Done /\ UNCHANGED <<panel, lab, latch, paper>>
  BY DEF EjectCard
<1>2. /\ UiOk(ui', lab.calls) /\ Due(ui) = {"eject"} \cup Due(ui')
      /\ ("adopt" \in Due(ui) => "adopt" \in Due(ui')) /\ ("library" \in Due(ui) => "library" \in Due(ui'))
      /\ Due(ui) \cap Moves \subseteq Due(ui')
  BY <1>1, StepDone DEF Moves
<1>3. CASE pass = <<>>
  <2>1. UNCHANGED <<m, pass, fitted, cue>>
    BY <1>3 DEF EjectCard, NothingWritten
  <2>2. Core'
    BY <1>1, <2>1, CoreSame, OfCue
  <2>3. CueOk' /\ LibraryOk'
    BY <1>1, <1>2, <2>1, CueStays, LibraryStays, OfCue
  <2>4. CardOk'
    BY <1>1, <1>2, <2>1 DEF CardOk, DeskInv
  <2> QED
    BY <1>1, <1>2, <2>2, <2>3, <2>4, TheWhole
<1>4. CASE pass # <<>>
  <2>1. m' = [SwitchPressed(m) EXCEPT !.card = EjectedCard(@)] /\ pass' = <<>>
    BY <1>4 DEF EjectCard
  <2>2. UNCHANGED <<fitted, cue>> \/ cue' = Refreshed(cue, fitted')
    BY <1>4 DEF EjectCard, NothingWritten, WriteBack
  <2>3. Sound(m') /\ Alike(m, m') /\ m'.card.present = FALSE /\ \A i \in Pos : 2 \in m'.key[i] <=> 2 \in m.key[i]
    BY <2>1, EjectedSound DEF DeskInv, Core, Physical
  <2>4. 15 \in Pos /\ PrinterCol(m.model) \in Pos
    BY SwitchInPos
  <2>5. OfLatch(latch') /\ Lines(m', latch')
    BY <1>1, <2>3, <2>4 DEF DeskInv, Core, Physical, Lines, Alike
  <2>6. Core' /\ m'.lib = m.lib
    BY <1>1, <2>3, <2>5, OfCue, CoreAlike
  <2>7. CueOk' /\ cue'.module = cue.module
    BY <1>2, <2>2, CueStays, CueIsShown, OfCue
  <2>8. LibraryOk'
    BY <1>1, <1>2, <2>6, <2>7, LibraryStays, OfCue
  <2>9. CardOk'
    BY <2>3 DEF CardOk
  <2> QED
    BY <1>1, <1>2, <2>6, <2>7, <2>8, <2>9, TheWhole
<1> QED
  BY <1>3, <1>4

LEMMA SwipedKeeps ==
  ASSUME DeskInv, NEW data, NEW p, StartSwipe(data, p), UiOk(ui', lab.calls), UNCHANGED <<lab, latch, paper, panel>>,
         "library" \in Due(ui) => "library" \in Due(ui'), CueOk', cue'.module = cue.module
  PROVE  DeskInv'
<1>1. m' = Inserted(data) /\ pass' = <<p>>
  BY DEF StartSwipe
<1>2. Core' /\ m'.lib = m.lib
  BY <1>1, InsertedKeeps, OfCue
<1>3. LibraryOk'
  BY <1>2, LibraryStays, OfCue
<1>4. CardOk'
  BY <1>1 DEF CardOk
<1> QED
  BY <1>2, <1>3, <1>4, TheWhole

\* feedQueuedCard(): whatever card is taken, it has a pass.
LEMMA TakeKeeps == ASSUME DeskInv, Take PROVE DeskInv'
<1>1. Doing("take") /\ Done /\ UNCHANGED <<panel, lab, latch, paper>>
  BY DEF Take
<1>2. /\ UiOk(ui', lab.calls) /\ ("adopt" \in Due(ui) => "adopt" \in Due(ui'))
      /\ ("library" \in Due(ui) => "library" \in Due(ui')) /\ Due(ui) \cap Moves \subseteq Due(ui')
  BY <1>1, StepDone DEF Moves
<1>3. \/ UNCHANGED <<fitted, cue, pass, m>>
      \/ \E e, q : TakeMemoryCard(e, q) \/ TakeCardFile(e, q)
  BY DEF Take
<1>4. CASE UNCHANGED <<fitted, cue, pass, m>>
  <2>2. Core'
    BY <1>1, <1>4, CoreSame, OfCue
  <2>3. CueOk' /\ LibraryOk'
    BY <1>1, <1>2, <1>4, CueStays, LibraryStays, OfCue
  <2>4. CardOk'
    BY <1>1, <1>2, <1>4 DEF CardOk, DeskInv
  <2> QED
    BY <1>1, <1>2, <2>2, <2>3, <2>4, TheWhole
<1>5. ASSUME NEW e, NEW q, TakeMemoryCard(e, q) PROVE DeskInv'
  <2>1. PICK card, data, p : /\ cue' = Refreshed([cue EXCEPT !.user = card], <<>>) /\ fitted' = <<>>
                             /\ StartSwipe(data, p)
    <3> DEFINE key == e.card[2]
               known == key \in DOMAIN memory
               built == BuildCardBank(e.definition[1], PartitionProgramRegs(m))
               card == CASE known -> memory[key].cue
                         [] ~known /\ e.definition # <<>> -> e.definition[1].cue
                         [] OTHER -> <<>>
               v == IF card = <<>> THEN cue.user ELSE card
               data == CASE known -> [b \in {0} |-> memory[key].bank]
                         [] ~known /\ e.definition # <<>> -> [b \in {0} |-> built]
                         [] OTHER -> [b \in {} |-> NoBank]
               p == [side |-> 0, queued |-> FALSE, key |-> key]
    <3>1. cue' = Refreshed([cue EXCEPT !.user = IF card = <<>> THEN @ ELSE card], <<>>) /\ fitted' = <<>> /\ StartSwipe(data, p)
      BY <1>5, Zenon DEF TakeMemoryCard
    <3>2. [cue EXCEPT !.user = IF card = <<>> THEN @ ELSE card] = [cue EXCEPT !.user = v]
      <4> HIDE DEF card
      <4> QED
        OBVIOUS
    <3>3. cue' = Refreshed([cue EXCEPT !.user = v], <<>>)
      BY <3>1, <3>2, Zenon
    <3> HIDE DEF v, data, p, card
    <3> QED
      BY <3>1, <3>3, Zenon
  <2> DEFINE c == [cue EXCEPT !.user = card]
  <2>2. Fields \subseteq DOMAIN c /\ c.cards = CardsOf[c.module] /\ c.module = cue.module
    BY OfCue DEF Fields
  <2>3. cue' = Refreshed(c, fitted')
    BY <2>1
  <2> HIDE DEF c
  <2>4. CueOk' /\ cue'.module = cue.module
    BY <2>2, <2>3, CueIsShown
  <2> QED
    BY <1>1, <1>2, <2>1, <2>4, SwipedKeeps
<1>6. ASSUME NEW e, NEW q, TakeCardFile(e, q), ~UNCHANGED <<fitted, cue, pass, m>> PROVE DeskInv'
  <2>1. PICK data, p : cue' = Refreshed(cue, fitted') /\ StartSwipe(data, p)
    BY <1>6 DEF TakeCardFile
  <2>2. CueOk' /\ cue'.module = cue.module
    BY <2>1, CueIsShown, OfCue
  <2> QED
    BY <1>1, <1>2, <2>1, <2>2, SwipedKeeps
<1> QED
  BY <1>3, <1>4, <1>5, <1>6

LEMMA CheckProgramKeeps == ASSUME DeskInv, CheckProgram PROVE DeskInv'
<1>1. Doing("program") /\ Done /\ UNCHANGED <<panel, lab, m, latch, paper, pass, fitted>>
  BY DEF CheckProgram, vars
<1>2. /\ UiOk(ui', lab.calls) /\ ("adopt" \in Due(ui) => "adopt" \in Due(ui'))
      /\ ("library" \in Due(ui) => "library" \in Due(ui')) /\ Due(ui) \cap Moves \subseteq Due(ui')
  BY <1>1, StepDone DEF Moves
<1> DEFINE v == ActiveLibraryProgram(m.SCOM[9])
           c == [cue EXCEPT !.program = v]
<1>3. UNCHANGED cue \/ cue' = Refreshed(c, fitted')
  BY <1>1 DEF CheckProgram
<1> HIDE DEF v
<1>4. Fields \subseteq DOMAIN c /\ c.cards = CardsOf[c.module] /\ c.module = cue.module
  BY OfCue DEF Fields
<1> HIDE DEF c
<1>5. CueOk' /\ cue'.module = cue.module
  BY <1>1, <1>2, <1>3, <1>4, CueStays, CueIsShown, OfCue
<1>6. Core' /\ LibraryOk'
  BY <1>1, <1>2, <1>5, CoreSame, LibraryStays, OfCue
<1>7. CardOk'
  BY <1>1, <1>2 DEF CardOk, DeskInv
<1> QED
  BY <1>1, <1>2, <1>5, <1>6, <1>7, TheWhole

LEMMA ApplyReloadStageKeeps == ASSUME DeskInv, ApplyReloadStage PROVE DeskInv'
<1>1. Doing("reload") /\ UNCHANGED <<panel, lab, latch, paper, pass, fitted, cue>>
  BY DEF ApplyReloadStage
<1>2. Due(ui) = {"reload"}
  BY <1>1, DoingIs DEF UiOk
<1> DEFINE stage == Head(ui).stage
           e == [do |-> "adopt", cue |-> stage.cue, printer |-> {}]
           z == <<>>
           p == Do("persist")
           h == Do("hostDone")
<1>3. \/ ui' = h /\ m' = m
      \/ /\ m' = ApplyReload(m, stage)
         /\ ui' = z \o p \o h \/ ui' = <<e>> \o p \o h
  BY <1>1 DEF ApplyReloadStage
<1> HIDE DEF stage
<1>4. Portion(p, lab.calls) /\ Portion(h, lab.calls) /\ Due(p) = {"persist"} /\ Due(h) = {"hostDone"} /\ Head(p).do = "persist" /\ Head(h).do = "hostDone"
  BY PortionDo
<1>5. Portion(<<e>>, lab.calls) /\ Head(<<e>>).do = "adopt"
  <2>1. StepOk(e, lab.calls) /\ e.do \notin Alone /\ e.do = "adopt"
    BY DEF StepOk, Alone
  <2> HIDE DEF e
  <2> QED
    BY <2>1, PortionOne
<1>6. z \o p = p
  <2>1. AnySeq(z) /\ z = <<>> /\ AnySeq(p)
    BY <1>4, NothingDue DEF Portion
  <2> HIDE DEF z, p
  <2> QED
    BY <2>1, JoinDue
<1> HIDE DEF e, p, h, z
<1>7. Portion(p \o h, lab.calls) /\ Head(p \o h).do = "persist"
  <2>1. Due(h) \cap First = {}
    BY <1>4 DEF First
  <2> QED
    BY <1>4, <2>1, PortionJoin
<1>8. Portion(<<e>> \o p \o h, lab.calls) /\ Head(<<e>> \o p \o h).do = "adopt"
  <2>1. Due(h) \cap First = {} /\ Due(p) \cap First = {}
    BY <1>4 DEF First
  <2>2. Portion(<<e>> \o p, lab.calls) /\ Head(<<e>> \o p).do = "adopt"
    BY <1>4, <1>5, <2>1, PortionJoin
  <2> QED
    BY <1>4, <2>1, <2>2, PortionJoin
<1>9. UiOk(ui', lab.calls)
  <2>1. ui' \in {h, p \o h, <<e>> \o p \o h}
    BY <1>3, <1>6
  <2>2. Portion(ui', lab.calls) /\ Head(ui').do # "beginReset"
    BY <1>4, <1>7, <1>8, <2>1
  <2> QED
    BY <2>2, PortionOk
<1>10. Held(m, m')
  BY <1>3, WritesHeld, HeldItself
<1>11. Core' /\ m'.lib = m.lib /\ (m'.card.present => m.card.present)
  BY <1>1, <1>10, CoreHeld, OfCue
<1>12. "adopt" \notin Due(ui) /\ "library" \notin Due(ui) /\ Due(ui) \cap Moves = {}
  BY <1>2 DEF Moves
<1>13. CueOk' /\ LibraryOk'
  BY <1>1, <1>11, <1>12, CueStays, LibraryStays, OfCue
<1>14. CardOk'
  BY <1>1, <1>11, <1>12 DEF CardOk, DeskInv
<1> QED
  BY <1>1, <1>9, <1>11, <1>13, <1>14, TheWhole

LEMMA AdoptPresetCueKeeps == ASSUME DeskInv, AdoptPresetCue PROVE DeskInv'
<1>1. Doing("adopt") /\ Done /\ UNCHANGED <<panel, lab, paper, pass>> /\ fitted' = <<>> /\ cue' = Adopted(cue, Head(ui).cue)
  BY DEF AdoptPresetCue
<1>2. /\ UiOk(ui', lab.calls)
      /\ ("library" \in Due(ui) => "library" \in Due(ui')) /\ Due(ui) \cap Moves \subseteq Due(ui')
  BY <1>1, StepDone DEF Moves
<1> DEFINE v == Head(ui).cue
           c == [cue EXCEPT !.user = v, !.preset = v]
<1>3. cue' = Refreshed(c, fitted')
  BY <1>1 DEF Adopted
<1> HIDE DEF v
<1>4. Fields \subseteq DOMAIN c /\ c.cards = CardsOf[c.module] /\ c.module = cue.module
  BY OfCue DEF Fields
<1> HIDE DEF c
<1>5. CueOk' /\ cue'.module = cue.module
  BY <1>3, <1>4, CueIsShown
<1>6. Core' /\ m'.lib = m.lib /\ m'.card = m.card
  <2>1. CASE UNCHANGED <<m, latch>>
    BY <1>1, <2>1, CoreSame, OfCue
  <2>2. CASE ~UNCHANGED <<m, latch>>
    <3>1. PICK on \in Head(ui).printer : /\ latch' = [connected |-> on, trace |-> FALSE]
                                         /\ m' = SetPrinterTraceLine(SetPrinterConnectedLine(m, on), FALSE)
      BY <2>2 DEF AdoptPresetCue
    <3>2. on \in BOOLEAN
      <4>1. StepOk(Head(ui), lab.calls) /\ Head(ui).do = "adopt"
        BY <1>1, DoingIs DEF UiOk
      <4> QED
        BY <3>1, <4>1 DEF StepOk
    <3>3. Physical' /\ Apart(m, m')
      BY <3>1, <3>2, SwitchedPhysical DEF DeskInv, Core
    <3>4. Sound(m') /\ Alike(m, m') /\ OfLatch(latch') /\ Lines(m', latch')
      BY <3>3, ApartAlike DEF Physical
    <3>5. Core' /\ m'.lib = m.lib
      BY <1>1, <3>4, CoreAlike, OfCue
    <3> QED
      BY <3>3, <3>5 DEF Apart
  <2> QED
    BY <2>1, <2>2
<1>7. LibraryOk'
  BY <1>1, <1>2, <1>5, <1>6, LibraryStays, OfCue
<1>8. CardOk'
  BY <1>1, <1>2, <1>6 DEF CardOk, DeskInv
<1> QED
  BY <1>1, <1>2, <1>5, <1>6, <1>7, <1>8, TheWhole

\* The pass is over before the card is out: a step of Moves is still to come.
LEMMA BeginResetKeeps == ASSUME DeskInv, BeginReset PROVE DeskInv'
<1>1. Doing("beginReset") /\ Done /\ UNCHANGED <<panel, lab, m, latch, paper>> /\ fitted' = <<>> /\ pass' = <<>>
  BY DEF BeginReset, vars, NoCard
<1>2. /\ UiOk(ui', lab.calls) /\ ("library" \in Due(ui) => "library" \in Due(ui'))
  BY <1>1, StepDone
<1> DEFINE c == [cue EXCEPT !.user = <<>>, !.preset = <<>>, !.program = 0]
<1>3. cue' = Refreshed(c, fitted')
  BY <1>1 DEF BeginReset
<1>4. Fields \subseteq DOMAIN c /\ c.cards = CardsOf[c.module] /\ c.module = cue.module
  BY OfCue DEF Fields
<1> HIDE DEF c
<1>5. CueOk' /\ cue'.module = cue.module
  BY <1>3, <1>4, CueIsShown
<1>6. Core' /\ LibraryOk'
  BY <1>1, <1>2, <1>5, CoreSame, LibraryStays, OfCue
<1>7. Due(ui') \cap Moves # {}
  BY <1>1, DoingIs DEF UiOk, Done
<1>8. CardOk'
  BY <1>7 DEF CardOk
<1> QED
  BY <1>1, <1>2, <1>5, <1>6, <1>8, TheWhole

LEMMA LoadSavedKeeps == ASSUME DeskInv, LoadSaved PROVE DeskInv'
<1>1. Doing("loadSaved") /\ UNCHANGED <<panel, lab, m, latch, paper, pass, fitted>>
  BY DEF LoadSaved, vars
<1> DEFINE c == IF HasConstantMemory(m.model) THEN FileRam ELSE <<>>
           ram == IF c = <<>> THEN <<>> ELSE <<c[1].ram>>
           e == [do |-> "softReset", ram |-> ram]
           v == c[1].cue
           d == [cue EXCEPT !.user = v]
<1>2. ui' = <<e>> \o Tail(ui) /\ (cue' = cue \/ cue' = Refreshed(d, fitted'))
  BY <1>1 DEF LoadSaved
<1> HIDE DEF c, v, ram
<1>3. StepOk(e, lab.calls) /\ e.do \notin Alone /\ e.do = "softReset"
  BY DEF StepOk, Alone
<1>4. Fields \subseteq DOMAIN d /\ d.cards = CardsOf[d.module] /\ d.module = cue.module
  BY OfCue DEF Fields
<1> HIDE DEF e, d
<1>5. Portion(<<e>>, lab.calls) /\ Due(<<e>>) = {e.do} /\ Head(<<e>>) = e
  BY <1>3, PortionOne
<1>6. ui # <<>> /\ Head(ui).do = "loadSaved" /\ UiOk(ui, lab.calls) /\ Due(ui) = {"loadSaved"} \cup Due(Tail(ui))
  BY <1>1, DoingIs
<1> DEFINE x == <<e>>
<1>7. Portion(x, lab.calls) /\ Due(x) = {"softReset"} /\ Head(x).do # "beginReset" /\ ui' = x \o Tail(ui)
  BY <1>2, <1>3, <1>5
<1> HIDE DEF x
<1>8. UiOk(ui', lab.calls) /\ Due(ui') = Due(x) \cup Due(Tail(ui))
  BY <1>6, <1>7, UiPush
<1>9. /\ ("adopt" \in Due(ui) => "adopt" \in Due(ui')) /\ ("library" \in Due(ui) => "library" \in Due(ui'))
      /\ Due(ui') \cap Moves # {}
  BY <1>6, <1>7, <1>8 DEF Moves
<1>10. CueOk' /\ cue'.module = cue.module
  BY <1>1, <1>2, <1>4, <1>9, CueStays, CueIsShown, OfCue
<1>11. Core' /\ LibraryOk'
  BY <1>1, <1>9, <1>10, CoreSame, LibraryStays, OfCue
<1>12. CardOk'
  BY <1>9 DEF CardOk
<1> QED
  BY <1>1, <1>8, <1>10, <1>11, <1>12, TheWhole

LEMMA ResetsKeep ==
  ASSUME DeskInv, SoftResetStopped \/ CleanResetRam \/ CleanResetCpu
  PROVE  DeskInv'
<1>1. PICK what \in {"softReset", "zeroRam", "resetCpu"} : Doing(what)
  BY DEF SoftResetStopped, CleanResetRam, CleanResetCpu
<1>2. Done /\ UNCHANGED <<panel, lab, latch, paper, pass, fitted, cue>>
  BY DEF SoftResetStopped, CleanResetRam, CleanResetCpu
<1>3. /\ UiOk(ui', lab.calls) /\ ("adopt" \in Due(ui) => "adopt" \in Due(ui'))
      /\ ("library" \in Due(ui) => "library" \in Due(ui'))
      /\ what = "zeroRam" => Due(ui) \cap Moves \subseteq Due(ui')
  <2>1. what # "adopt" /\ what # "library" /\ (what = "zeroRam" => what \notin Moves)
    BY DEF Moves
  <2> QED
    BY <1>1, <1>2, <2>1, StepDone
<1>4. Core' /\ m'.lib = m.lib /\ CardOk'
  <2>1. CASE SoftResetStopped
    <3>1. Cleaned(m, m', latch)
      BY <2>1, SoftResetCleaned DEF SoftResetStopped, DeskInv, Core, Physical
    <3> QED
      BY <1>2, <3>1, CoreCleaned, OfCue DEF CardOk
  <2>2. CASE CleanResetCpu
    <3>1. Cleaned(m, m', latch)
      BY <2>2, ResetCleaned DEF CleanResetCpu, DeskInv, Core, Physical
    <3> QED
      BY <1>2, <3>1, CoreCleaned, OfCue DEF CardOk
  <2>3. CASE CleanResetRam
    <3>1. Held(m, m')
      BY <2>3, WritesHeld DEF CleanResetRam
    <3>2. Core' /\ m'.lib = m.lib /\ (m'.card.present => m.card.present)
      BY <1>2, <3>1, CoreHeld, OfCue
    <3>3. Head(ui).do = "zeroRam" /\ Head(ui).do = what
      BY <1>1, <2>3 DEF CleanResetRam, Doing
    <3> QED
      BY <1>2, <1>3, <3>2, <3>3 DEF CardOk, DeskInv
  <2> QED
    BY <2>1, <2>2, <2>3
<1>5. CueOk' /\ LibraryOk'
  BY <1>2, <1>3, <1>4, CueStays, LibraryStays, OfCue
<1> QED
  BY <1>2, <1>3, <1>4, <1>5, TheWhole

LEMMA SelectModuleKeeps == ASSUME DeskInv, SelectModule PROVE DeskInv'
<1>1. Doing("select") /\ UNCHANGED <<panel, lab, latch, paper, pass, fitted, cue>>
  BY DEF SelectModule
<1> DEFINE e == [do |-> "library", id |-> Head(ui).id, reset |-> Head(ui).reset]
<1>2. \/ Done /\ m' = m
      \/ ui' = <<e>> \o Tail(ui) /\ m' = Cleared(m)
  BY DEF SelectModule
<1>3. StepOk(e, lab.calls) /\ e.do \notin Alone /\ e.do = "library"
  BY DEF StepOk, Alone
<1> HIDE DEF e
<1>4. CASE Done /\ m' = m
  <2>1. /\ UiOk(ui', lab.calls) /\ ("adopt" \in Due(ui) => "adopt" \in Due(ui'))
        /\ ("library" \in Due(ui) => "library" \in Due(ui')) /\ Due(ui) \cap Moves \subseteq Due(ui')
    BY <1>1, <1>4, StepDone DEF Moves
  <2>2. Core'
    BY <1>1, <1>4, CoreSame, OfCue
  <2>3. CueOk' /\ LibraryOk'
    BY <1>1, <1>4, <2>1, CueStays, LibraryStays, OfCue
  <2>4. CardOk'
    BY <1>1, <1>4, <2>1 DEF CardOk, DeskInv
  <2> QED
    BY <1>1, <2>1, <2>2, <2>3, <2>4, TheWhole
<1>5. CASE ui' = <<e>> \o Tail(ui) /\ m' = Cleared(m)
  <2> DEFINE x == <<e>>
  <2>1. Portion(x, lab.calls) /\ Due(x) = {"library"} /\ Head(x).do # "beginReset" /\ ui' = x \o Tail(ui)
    BY <1>3, <1>5, PortionOne
  <2> HIDE DEF x
  <2>2. ui # <<>> /\ Head(ui).do = "select" /\ UiOk(ui, lab.calls) /\ Due(ui) = {"select"} \cup Due(Tail(ui))
    BY <1>1, DoingIs
  <2>3. UiOk(ui', lab.calls) /\ Due(ui') = Due(x) \cup Due(Tail(ui))
    BY <2>1, <2>2, UiPush
  <2>4. /\ ("adopt" \in Due(ui) => "adopt" \in Due(ui')) /\ "library" \in Due(ui') /\ Due(ui) \cap Moves \subseteq Due(ui')
    BY <2>1, <2>2, <2>3 DEF Moves
  <2>5. Whole(m') /\ m'.model = m.model /\ m'.key = m.key /\ m'.card = m.card /\ m'.prn = m.prn /\ m'.ring = m.ring
    BY <1>5 DEF Cleared, DeskInv, Core, Physical, Sound, Whole, Parts
  <2>6. Physical'
    BY <1>1, <2>5 DEF DeskInv, Core, Physical, Sound, Lines
  <2>7. Core'
    BY <1>1, <2>5, <2>6 DEF DeskInv, Core, PaperInv, OfLab
  <2>8. CueOk'
    BY <1>1, <2>4, CueStays, OfCue
  <2>9. LibraryOk' /\ CardOk'
    BY <1>1, <2>4, <2>5 DEF DeskInv, LibraryOk, CardOk
  <2> QED
    BY <1>1, <2>3, <2>7, <2>8, <2>9, TheWhole
<1> QED
  BY <1>2, <1>4, <1>5

\* selectModule(), with the reset that may follow.
LEMMA LoadLibraryKeeps == ASSUME DeskInv, LoadLibrary PROVE DeskInv'
<1> DEFINE id == Head(ui).id
           cards == CardsOf[id]
           image == ImageOf[id]
           c == [cue EXCEPT !.module = id, !.cards = cards]
           a == Do("beginReset")
           b == Do("loadSaved")
           x == a \o b
<1>1. Doing("library") /\ UNCHANGED <<lab, latch, paper, pass, fitted>>
  BY DEF LoadLibrary
<1>2. m' = LibraryLoaded(m, image) /\ cue' = Refreshed(c, fitted') /\ panel' = ModuleChanged(panel, image)
  BY DEF LoadLibrary
<1>3. ui' = x \o Tail(ui) \/ ui' = <<>> \o Tail(ui)
  BY DEF LoadLibrary
<1>4. Fields \subseteq DOMAIN c /\ c.cards = cards /\ c.module = id
  <2>1. Fields \subseteq DOMAIN cue
    BY OfCue
  <2> HIDE DEF id, cards
  <2> QED
    BY <2>1 DEF Fields
<1>5. c.cards = CardsOf[c.module] /\ image = ImageOf[c.module]
  BY <1>4
<1>6. Portion(x, lab.calls) /\ Due(x) = {"beginReset", "loadSaved"} /\ Due(Tail(x)) = {"loadSaved"}
  <2>1. Portion(a, lab.calls) /\ Due(a) = {"beginReset"} /\ Due(Tail(a)) = {}
    BY PortionDo
  <2> HIDE DEF a
  <2>2. Portion(a \o b, lab.calls) /\ Due(a \o b) = Due(a) \cup {"loadSaved"} /\ Due(Tail(a \o b)) = Due(Tail(a)) \cup {"loadSaved"}
    BY <2>1, DoThen DEF First
  <2> QED
    BY <2>1, <2>2
<1> HIDE DEF x, c, image, cards, id
<1>7. ui # <<>> /\ Head(ui).do = "library" /\ UiOk(ui, lab.calls) /\ UiOk(Tail(ui), lab.calls) /\ Due(ui) = {"library"} \cup Due(Tail(ui))
  BY <1>1, DoingIs
<1>8. UiOk(ui', lab.calls) /\ Due(Tail(ui)) \subseteq Due(ui')
  <2>1. CASE ui' = x \o Tail(ui)
    <3>1. Due(Tail(x)) \cap Moves # {}
      BY <1>6 DEF Moves
    <3>2. UiOk(x \o Tail(ui), lab.calls) /\ Due(x \o Tail(ui)) = Due(x) \cup Due(Tail(ui))
      BY <1>6, <1>7, <3>1, UiPush
    <3> QED
      BY <2>1, <3>2
  <2>2. CASE ui' = <<>> \o Tail(ui)
    BY <1>7, <2>2, NothingPushed
  <2> QED
    BY <1>3, <2>1, <2>2
<1>9. Due(ui) \cap Moves \subseteq Due(ui')
  BY <1>7, <1>8 DEF Moves
<1>10. CueOk' /\ cue'.module = c.module
  BY <1>2, <1>4, <1>5, CueIsShown
<1>11. Whole(m') /\ m'.lib = image /\ m'.model = m.model /\ m'.key = m.key /\ m'.card = m.card /\ m'.prn = m.prn /\ m'.ring = m.ring
  BY <1>2 DEF LibraryLoaded, DeskInv, Core, Physical, Sound, Whole, Parts
<1>12. Physical'
  BY <1>1, <1>11 DEF DeskInv, Core, Physical, Sound, Lines
<1>13. Core'
  BY <1>1, <1>11, <1>12 DEF DeskInv, Core, PaperInv, OfLab
<1>14. CardOk'
  BY <1>1, <1>9, <1>11 DEF DeskInv, CardOk
<1>15. "image" \in DOMAIN panel' /\ panel'.image = ParseImage(image)
  <2> DEFINE v == ParseImage(image)
  <2>1. panel' = [panel EXCEPT !.image = v] /\ "image" \in DOMAIN panel
    BY <1>2 DEF ModuleChanged, DeskInv, LibraryOk
  <2> HIDE DEF v
  <2>2. "image" \in DOMAIN panel' /\ panel'.image = v
    BY <2>1
  <2> QED
    BY <2>2 DEF v
<1>16. LibraryOk'
  BY <1>5, <1>10, <1>11, <1>15 DEF LibraryOk
<1> QED
  BY <1>1, <1>8, <1>10, <1>13, <1>14, <1>16, TheWhole

LEMMA KeepMachineKeeps == ASSUME DeskInv, KeepMachine PROVE DeskInv'
<1>1. Doing("machine") /\ UNCHANGED <<lab, m, latch, paper, pass, fitted, cue, panel>> /\ ui' = <<>>
  BY DEF KeepMachine, vars
<1>2. "adopt" \notin Due(ui) /\ "library" \notin Due(ui) /\ Due(ui) \cap Moves = {}
  <2>1. Due(ui) \subseteq {"persist", "machine", "apply"}
    BY <1>1, DoingIs DEF UiOk
  <2> QED
    BY <2>1 DEF Moves
<1>3. UiOk(ui', lab.calls)
  BY <1>1, UiEmpty
<1>4. Core' /\ CueOk' /\ LibraryOk'
  BY <1>1, <1>2, CoreSame, CueStays, LibraryStays, OfCue
<1>5. CardOk'
  BY <1>1, <1>2 DEF CardOk, DeskInv
<1> QED
  BY <1>1, <1>3, <1>4, <1>5, TheWhole

\* startMachine(): everything is new but the overlay, the latch and the paper.
LEMMA NewMachineKeeps == ASSUME DeskInv, NewMachine PROVE DeskInv'
<1>1. Doing("machine") /\ Done /\ UNCHANGED <<lab, paper>> /\ latch' = [latch EXCEPT !.trace = FALSE] /\ fitted' = <<>>
      /\ panel' = PanelAttached(ImageOf[cue.module])
  BY DEF NewMachine, NoCard
<1> DEFINE d == Head(ui).model
           c == IF HasConstantMemory(d) THEN FileRam ELSE <<>>
           was == IF c = <<>> THEN <<>> ELSE <<c[1].ram>>
           image == ImageOf[cue.module]
           over == m.overlay
           start == [PoweredOn EXCEPT !.model = d, !.lib = image, !.overlay = over]
           fresh == MachineReset(start, latch')
           user == IF c = <<>> THEN <<>> ELSE c[1].cue
           cards == CardsOf[cue.module]
           shown == [cue EXCEPT !.user = user, !.preset = <<>>, !.program = 0, !.cards = cards]
<1>2. m' = PowerOn(fresh, lab.rom, was) /\ cue' = Refreshed(shown, fitted')
  BY <1>1 DEF NewMachine
<1>3. UiOk(ui', lab.calls) /\ Due(ui) = {"machine"} \cup Due(ui')
  BY <1>1, StepDone
<1>4. d \in Calculators /\ lab.calls \cap {"load", "model"} # {}
  <2>1. StepOk(Head(ui), lab.calls) /\ Head(ui).do = "machine"
    BY <1>1, DoingIs DEF UiOk
  <2> QED
    BY <2>1 DEF StepOk
<1> HIDE DEF d, c, was, image, over, user, cards
<1>5. Whole(start) /\ start.lib = image /\ start.model = d /\ start.prn = PrinterAtStart /\ start.ring = RingAtStart
  BY DEF PoweredOn, Whole, Parts
<1>6. PrnOk(start.prn) /\ Headed(start.ring)
  BY <1>5, PrinterAtStartOk, StartHeaded
<1>7. OfLatch(latch')
  BY <1>1 DEF OfLatch, DeskInv, Core, Physical
<1> HIDE DEF start
<1>8. Sound(fresh) /\ Alike(start, fresh) /\ fresh.card.present = FALSE /\ Lines(fresh, latch')
  BY <1>4, <1>5, <1>6, <1>7, MachineResetSound
<1> HIDE DEF fresh
<1>9. Held(fresh, m')
  BY <1>2, PowerOnHeld
<1>10. Sound(m') /\ Lines(m', latch') /\ m'.lib = image /\ m'.card.present = FALSE
  <2>1. Sound(m') /\ Lines(m', latch')
    BY <1>8, <1>9, LinesKept
  <2>2. Alike(fresh, m') /\ (m'.card.present => fresh.card.present) /\ m'.card.present \in BOOLEAN
    BY <1>8, <1>9, <2>1 DEF Held, Sound
  <2> QED
    BY <1>5, <1>8, <2>1, <2>2 DEF Alike
<1>11. Core'
  BY <1>1, <1>4, <1>7, <1>10 DEF DeskInv, Core, Physical, PaperInv, OfLab
<1>12. Fields \subseteq DOMAIN shown /\ shown.cards = cards /\ shown.module = cue.module
  BY OfCue DEF Fields
<1>13. shown.cards = CardsOf[shown.module]
  BY <1>12 DEF cards
<1> HIDE DEF shown
<1>14. CueOk' /\ cue'.module = cue.module
  BY <1>2, <1>12, <1>13, CueIsShown
<1>15. LibraryOk'
  BY <1>1, <1>10, <1>14, PanelAttachedImage DEF LibraryOk, image
<1>16. CardOk'
  BY <1>10 DEF CardOk
<1> QED
  BY <1>1, <1>3, <1>11, <1>14, <1>15, <1>16, TheWhole

--------------------------------------------------------------------------------
(***************************************************************************)
(* A preset is applied; every step.                                        *)
(***************************************************************************)

\* applyState(): the cue card is adopted by a later step of the same call.
LEMMA ApplyStateFileKeeps == ASSUME DeskInv, ApplyStateFile PROVE DeskInv'
<1>1. Doing("apply") /\ UNCHANGED <<panel, lab, latch, pass, fitted>>
  BY DEF ApplyStateFile
<1> DEFINE r == Head(ui).r
           s == [do |-> "select", id |-> r.module[1], reset |-> FALSE]
           a == [do |-> "adopt", cue |-> r.contents.cue, printer |-> r.printer]
           p == Do("persist")
           k == [do |-> "play", keystrokes |-> r.keystrokes, stages |-> r.stages]
           z == <<>>
<1>2. ui # <<>> /\ Head(ui).do = "apply" /\ UiOk(ui, lab.calls) /\ UiOk(Tail(ui), lab.calls) /\ Due(ui) = {"apply"} \cup Due(Tail(ui)) /\ Head(ui) \in Range(ui)
  BY <1>1, DoingIs
<1>3. r.printer \subseteq BOOLEAN /\ "load" \in lab.calls
  BY <1>2 DEF UiOk, StepOk
<1>4. \/ Done /\ UNCHANGED <<m, paper, cue>>
      \/ /\ m' = ApplyState(m, lab.rom, latch, r) /\ cue' = [cue EXCEPT !.program = 0]
         /\ ui' = z \o <<a>> \o p \o <<k>> \/ ui' = <<s>> \o <<a>> \o p \o <<k>>
  BY DEF ApplyStateFile, Selecting
<1> HIDE DEF r
<1>5. /\ StepOk(s, lab.calls) /\ s.do \notin Alone /\ s.do = "select"
      /\ StepOk(a, lab.calls) /\ a.do \notin Alone /\ a.do = "adopt"
      /\ StepOk(k, lab.calls) /\ k.do \notin Alone /\ k.do = "play"
  BY <1>3 DEF StepOk, Alone
<1> HIDE DEF s, a, k
<1>6. CASE Done /\ UNCHANGED <<m, paper, cue>>
  <2>1. /\ UiOk(ui', lab.calls) /\ ("adopt" \in Due(ui) => "adopt" \in Due(ui'))
        /\ ("library" \in Due(ui) => "library" \in Due(ui')) /\ Due(ui) \cap Moves \subseteq Due(ui')
    BY <1>1, <1>6, StepDone DEF Moves
  <2>2. Core'
    BY <1>1, <1>6, CoreSame, OfCue
  <2>3. CueOk' /\ LibraryOk'
    BY <1>1, <1>6, <2>1, CueStays, LibraryStays, OfCue
  <2>4. CardOk'
    BY <1>1, <1>6, <2>1 DEF CardOk, DeskInv
  <2> QED
    BY <1>1, <2>1, <2>2, <2>3, <2>4, TheWhole
<1>7. CASE /\ m' = ApplyState(m, lab.rom, latch, r) /\ cue' = [cue EXCEPT !.program = 0]
           /\ ui' = z \o <<a>> \o p \o <<k>> \/ ui' = <<s>> \o <<a>> \o p \o <<k>>
  <2> DEFINE x == <<s>>
             y == <<a>>
             w == <<k>>
  <2>1. /\ Portion(x, lab.calls) /\ Due(x) = {"select"} /\ Head(x).do = "select"
        /\ Portion(y, lab.calls) /\ Due(y) = {"adopt"} /\ Head(y).do = "adopt"
        /\ Portion(w, lab.calls) /\ Due(w) = {"play"} /\ Portion(p, lab.calls) /\ Due(p) = {"persist"}
    BY <1>5, PortionOne, PortionDo
  <2>2. ui' = z \o y \o p \o w \/ ui' = x \o y \o p \o w
    BY <1>7
  <2>3. z \o y = y
    <3>1. AnySeq(z) /\ z = <<>> /\ AnySeq(y)
      BY <2>1, NothingDue DEF Portion
    <3> HIDE DEF z, y
    <3> QED
      BY <3>1, JoinDue
  <2> HIDE DEF x, y, w, z, p
  <2>4. Due(y) \cap First = {} /\ Due(p) \cap First = {} /\ Due(w) \cap First = {}
    BY <2>1 DEF First
  <2>5. Portion(x \o y, lab.calls) /\ Due(x \o y) = Due(x) \cup Due(y) /\ Head(x \o y) = Head(x)
    BY <2>1, <2>4, PortionJoin
  <2> DEFINE t == IF ui' = x \o y \o p \o w THEN x \o y ELSE y
  <2>6. Portion(t, lab.calls) /\ "adopt" \in Due(t) /\ Head(t).do # "beginReset" /\ ui' = t \o p \o w
    BY <2>1, <2>2, <2>3, <2>5
  <2> HIDE DEF t
  <2>7. Portion(t \o p, lab.calls) /\ Due(t \o p) = Due(t) \cup Due(p) /\ Head(t \o p) = Head(t)
    BY <2>1, <2>4, <2>6, PortionJoin
  <2>8. Portion(t \o p \o w, lab.calls) /\ Due(t \o p \o w) = Due(t \o p) \cup Due(w) /\ Head(t \o p \o w) = Head(t \o p)
    BY <2>1, <2>4, <2>7, PortionJoin
  <2>9. UiOk(ui', lab.calls) /\ "adopt" \in Due(ui')
    BY <2>6, <2>7, <2>8, PortionOk
  <2>10. Cleaned(m, m', latch)
    BY <1>7, ApplyStateCleaned DEF DeskInv, Core, Physical
  <2>11. OfLatch(latch') /\ Lines(m', latch') /\ Sound(m') /\ Alike(m, m') /\ m'.card.present = FALSE
    BY <1>1, <2>10 DEF DeskInv, Core, Physical, Cleaned
  <2>12. Core' /\ m'.lib = m.lib
    BY <1>1, <1>3, <2>11 DEF DeskInv, Core, Physical, PaperInv, OfLab, Alike
  <2>13. CueOk' /\ cue'.module = cue.module
    BY <1>7, <2>9, OfCue DEF CueOk, Fields
  <2>14. "library" \notin Due(ui)
    BY <1>2 DEF UiOk, First
  <2>15. LibraryOk'
    BY <1>1, <2>12, <2>13, <2>14, LibraryStays, OfCue
  <2>16. CardOk'
    BY <2>11 DEF CardOk
  <2> QED
    BY <1>1, <2>9, <2>12, <2>13, <2>15, <2>16, TheWhole
<1> QED
  BY <1>4, <1>6, <1>7

LEMMA UserCallsKeep == ASSUME DeskInv, UserCalls PROVE DeskInv'
<1>1. CASE \E path \in DOMAIN folder : FitCard(path) \/ FitBlankCard(path)
  BY <1>1, FitKeeps
<1>2. CASE \E side \in {0, 1} : FeedSide(side)
  BY <1>2, FeedKeeps
<1>3. CASE \E lines \in lab.desk.presets : LoadStateFile(lines)
  BY <1>3, LoadStateFileKeeps
<1>4. CASE \E i \in DOMAIN ModuleMenu : ChangeModule(ModuleMenu[i].id)
  BY <1>4, ChangeModuleKeeps
<1>5. CASE \E frozen \in BOOLEAN : ShowPanel(frozen)
  BY <1>5, ShowPanelKeeps
<1>6. CASE \E d \in Calculators : StartMachine(d)
  BY <1>6, StartMachineKeeps
<1>7. CASE PressEject \/ Frame \/ ResetMachine \/ CleanResetMachine \/ Suspend
  BY <1>7, SimpleCallsKeep
<1>8. CASE ResumeAfterSuspend
  BY <1>8, OthersKeep
<1> QED
  BY <1>1, <1>2, <1>3, <1>4, <1>5, <1>6, <1>7, <1>8 DEF UserCalls

LEMMA UiStepsKeep == ASSUME DeskInv, UiSteps PROVE DeskInv'
<1>1. CASE Sample \/ Look \/ Save \/ Persist \/ HostDoneCalled \/ PlayKeystrokes \/ ResetBaseline \/ StopLoop
  BY <1>1, FrameStepsKeep
<1>2. CASE EjectCard \/ Take \/ CheckProgram \/ Reload \/ ApplyReloadStage
  BY <1>2, EjectCardKeeps, TakeKeeps, CheckProgramKeeps, ReloadKeeps, ApplyReloadStageKeeps
<1>3. CASE AdoptPresetCue \/ ApplyStateFile \/ BeginReset \/ LoadSaved
  BY <1>3, AdoptPresetCueKeeps, ApplyStateFileKeeps, BeginResetKeeps, LoadSavedKeeps
<1>4. CASE SelectModule \/ LoadLibrary \/ KeepMachine \/ NewMachine
  BY <1>4, SelectModuleKeeps, LoadLibraryKeeps, KeepMachineKeeps, NewMachineKeeps
<1>5. CASE SoftResetStopped \/ CleanResetRam \/ CleanResetCpu
  BY <1>5, ResetsKeep
<1> QED
  BY <1>1, <1>2, <1>3, <1>4, <1>5 DEF UiSteps

\* Every step keeps the invariant.
LEMMA DeskNextKeeps == ASSUME DeskInv, [DeskNext]_deskState PROVE DeskInv'
<1>1. Physical
  BY DEF DeskInv, Core
<1>2. CASE DeskStep \/ ((Calls \/ Rest) /\ UNCHANGED deskVars)
  <2>1. (MachineStep \/ Calls \/ Rest) /\ UNCHANGED <<pass, fitted, cue, panel, ui>>
    BY <1>2 DEF DeskStep, deskVars
  <2>2. Steady
    BY <1>1, <2>1, MachineSteady
  <2> QED
    BY <2>1, <2>2, MachineKeeps
<1>3. CASE UNCHANGED deskState
  <2>1. UNCHANGED <<lab, m, latch, paper, pass, fitted, cue, panel, ui>>
    BY <1>3 DEF deskState, deskVars, vars
  <2> QED
    BY <2>1, SameKeeps
<1>4. CASE BatchDone \/ ScriptStep \/ \E path \in DOMAIN folder : \E raw \in lab.desk.changes : FileChanges(path, raw)
  BY <1>4, OthersKeep
<1>5. CASE UserCalls \/ UiSteps
  BY <1>5, UserCallsKeep, UiStepsKeep
<1> QED
  BY <1>2, <1>3, <1>4, <1>5 DEF DeskNext

(***************************************************************************)
(* The inductive invariant holds in every behaviour of the desk.           *)
(***************************************************************************)
THEOREM DeskInvariant == DeskSpec => []DeskInv
<1>1. DeskInit => DeskInv
  BY InitKeeps
<1>2. DeskInv /\ [DeskNext]_deskState => DeskInv'
  BY DeskNextKeeps
<1> QED
  BY <1>1, <1>2, PTL DEF DeskSpec

(***************************************************************************)
(* Between two calls of the UI thread a card that is in the reader has its *)
(* pass, the one that SessionController::ejectCard() will end: whatever    *)
(* was reset, loaded, fed or ejected in between, none is left in there.    *)
(***************************************************************************)
THEOREM CardPasses == DeskSpec => []NoOrphanCard
<1>1. DeskInv => NoOrphanCard
  <2>1. UiIdle => Due(ui) = {}
    BY NothingDue DEF UiIdle
  <2> QED
    BY <2>1 DEF DeskInv, CardOk, NoOrphanCard
<1> QED
  BY <1>1, DeskInvariant, PTL

(***************************************************************************)
(* Between two calls of the UI thread the cue card on show is the one that *)
(* refreshCueCard() would show, of the module selected, and the machine's  *)
(* library and the panel's are that module's: none of the calls that       *)
(* change what it depends on forgets to refresh.                           *)
(***************************************************************************)
THEOREM CueCardShown == DeskSpec => []CueShown
<1>1. DeskInv => CueShown
  <2> SUFFICES ASSUME DeskInv, UiIdle PROVE CueShown
    BY DEF CueShown
  <2>1. Due(ui) = {}
    BY NothingDue DEF UiIdle
  <2>2. cue.shown = CueOf(cue, fitted) /\ cue.cards = CardsOf[cue.module]
    BY <2>1 DEF DeskInv, CueOk
  <2> QED
    BY <2>1, <2>2 DEF DeskInv, LibraryOk, CueShown, CueOf
<1> QED
  BY <1>1, DeskInvariant, PTL

(***************************************************************************)
(* At every step, of the machine or of a call, the card switch of the key  *)
(* matrix is down if no card is in, and the printer's lines are those of   *)
(* the latch (TI59Machine), which every reset has to set again.            *)
(***************************************************************************)
THEOREM LinesOfSwitches == DeskSpec => []PhysicalLines
<1>1. DeskInv => PhysicalLines
  <2> SUFFICES ASSUME DeskInv PROVE PhysicalLines
    OBVIOUS
  <2> QED
    BY DEF DeskInv, Core, Physical, Sound, Lines, PhysicalLines
<1> QED
  BY <1>1, DeskInvariant, PTL

(***************************************************************************)
(* A line of the paper and the code line beside it are the same line,      *)
(* although the two are queued at different times and drained separately   *)
(* (drainPrinterLines, drainPrinterCodeLines), for as long as nobody sets  *)
(* the paper back.                                                         *)
(***************************************************************************)
THEOREM PaperInOrder == DeskSpec => []PaperAligned
<1>1. DeskInv => PaperAligned
  <2> SUFFICES ASSUME DeskInv PROVE PaperAligned
    OBVIOUS
  <2> QED
    BY DEF DeskInv, Core, PaperInv, PaperOk, PaperAligned
<1> QED
  BY <1>1, DeskInvariant, PTL

--------------------------------------------------------------------------------
(***************************************************************************)
(* beginNextStep() before a step that begins with it itself: what it       *)
(* writes is there already when the step writes it again.                  *)
(***************************************************************************)
Fcn(f) == f = [x \in DOMAIN f |-> f[x]]

LEMMA SameFcn ==
  ASSUME NEW f, NEW g, Fcn(f), Fcn(g), DOMAIN f = DOMAIN g, \A x \in DOMAIN f : f[x] = g[x]
  PROVE  f = g
  BY DEF Fcn

LEMMA Excepted == ASSUME NEW f, NEW k, NEW v PROVE Fcn([f EXCEPT ![k] = v]) /\ DOMAIN [f EXCEPT ![k] = v] = DOMAIN f
  BY DEF Fcn

LEMMA ThereAlready ==
  ASSUME NEW f, Fcn(f), NEW k, NEW v, k \in DOMAIN f => f[k] = v
  PROVE  [f EXCEPT ![k] = v] = f
<1>1. \A x \in DOMAIN f : [f EXCEPT ![k] = v][x] = f[x]
  OBVIOUS
<1> QED
  BY <1>1, Excepted, SameFcn

\* A frame is captured: the last one is finished, the one at the head pends.
LEMMA CapturedTwice ==
  ASSUME NEW r, Headed(r), NEW pc
  PROVE  Captured(Patched(Captured(Patched(r), pc)), pc) = Captured(Patched(r), pc)
<1> DEFINE k == Slot(r.head)
           j == Slot(r.head - 1)
           s == Patched(r).slots
           v == [s[k] EXCEPT !.pc = pc, !.post = FALSE]
           t == [s EXCEPT ![k] = v]
           q == Captured(Patched(r), pc)
<1>1. Headed(Patched(r)) /\ Patched(r).head = r.head
  BY RingHeaded DEF Patched, Headed
<1>2. q = [Patched(r) EXCEPT !.slots = t]
  BY <1>1 DEF Captured, Headed
<1>3. q.head = r.head /\ q.slots = t /\ Fcn(q)
  BY <1>1, <1>2, Excepted DEF Headed
<1>4. Patched(q) = q
  <2>1. CASE r.head = 0
    BY <1>3, <2>1 DEF Patched
  <2>2. CASE r.head # 0
    <3> DEFINE w == [t[j] EXCEPT !.post = TRUE]
    <3>1. j # k
      BY <2>2, SlotsDiffer, RingAssumption DEF Headed, RingAssumption
    <3>2. Patched(q) = [q EXCEPT !.slots = [t EXCEPT ![j] = w]]
      BY <1>3, <2>2 DEF Patched
    <3>3. j \in DOMAIN t => t[j] = w
      <4>1. s = [r.slots EXCEPT ![j] = [r.slots[j] EXCEPT !.post = TRUE]]
        BY <2>2 DEF Patched, Headed
      <4>2. SUFFICES ASSUME j \in DOMAIN t PROVE t[j] = w
        OBVIOUS
      <4>3. t[j] = s[j] /\ j \in DOMAIN r.slots
        BY <3>1, <4>1, <4>2
      <4>4. s[j] = [r.slots[j] EXCEPT !.post = TRUE]
        BY <4>1, <4>3
      <4> DEFINE e == r.slots[j]
      <4>5. t[j] = [e EXCEPT !.post = TRUE]
        BY <4>3, <4>4
      <4> HIDE DEF e
      <4>6. [[e EXCEPT !.post = TRUE] EXCEPT !.post = TRUE] = [e EXCEPT !.post = TRUE]
        BY Excepted, ThereAlready
      <4> QED
        BY <4>5, <4>6
    <3> HIDE DEF w, t, j
    <3>4. Fcn(t)
      BY Excepted DEF t
    <3>5. [t EXCEPT ![j] = w] = t
      BY <3>3, <3>4, ThereAlready
    <3> QED
      BY <1>3, <3>2, <3>5, ThereAlready
  <2> QED
    BY <2>1, <2>2
<1>5. Captured(q, pc) = q
  <2> DEFINE w == [t[k] EXCEPT !.pc = pc, !.post = FALSE]
  <2>1. Captured(q, pc) = [q EXCEPT !.slots = [t EXCEPT ![k] = w]]
    BY <1>3 DEF Captured
  <2>2. k \in DOMAIN t => t[k] = w
    <3> DEFINE e == s[k]
    <3>1. k \in DOMAIN t => t[k] = [e EXCEPT !.pc = pc, !.post = FALSE]
      OBVIOUS
    <3> HIDE DEF e
    <3> DEFINE x == [e EXCEPT !.pc = pc]
               y == [x EXCEPT !.post = FALSE]
    <3>2. [y EXCEPT !.pc = pc] = y
      <4>1. "pc" \in DOMAIN y => y.pc = pc
        BY Excepted
      <4>2. Fcn(y)
        BY Excepted
      <4> HIDE DEF y
      <4> QED
        BY <4>1, <4>2, ThereAlready
    <3>3. [y EXCEPT !.post = FALSE] = y
      <4>1. ("post" \in DOMAIN y => y.post = FALSE) /\ Fcn(y)
        BY Excepted
      <4> HIDE DEF y
      <4> QED
        BY <4>1, ThereAlready
    <3>4. k \in DOMAIN t => t[k] = y
      BY <3>1
    <3>5. k \in DOMAIN t => w = [[y EXCEPT !.pc = pc] EXCEPT !.post = FALSE]
      BY <3>4
    <3> QED
      BY <3>2, <3>3, <3>4, <3>5
  <2> HIDE DEF t, k, w
  <2>3. Fcn(t)
    BY Excepted DEF t
  <2>4. [t EXCEPT ![k] = w] = t
    BY <2>2, <2>3, ThereAlready
  <2> QED
    BY <1>3, <2>1, <2>4, ThereAlready
<1> QED
  BY <1>4, <1>5

\* beginNextStep() as what it writes, and where.
Again(c, rom) == ~IsBranch(Opcode(c, rom, c.addr)) /\ Has(c, "JUMP")
Hit(c) == c.hit \/ ("BREAKPOINTS" \in c.trace /\ c.addr \in c.breaks)
Restarted(c, rom) == IF Again(c, rom) THEN Raise(Drop(c, "JUMP"), "COND") ELSE c
Ticked(c) == [DropIf(c, "BUSY", c.prn.busy = 1) EXCEPT !.prn = BusyTick(@)]

LEMMA RestartedIs ==
  ASSUME NEW c, Whole(c), NEW rom
  PROVE  LET n == Restarted(c, rom)
         IN /\ DOMAIN n = DOMAIN c /\ \A x \in DOMAIN c \ {"flags"} : n[x] = c[x]
            /\ n.flags = IF Again(c, rom) THEN (c.flags \ {"JUMP"}) \cup {"COND"} ELSE c.flags
            /\ Fcn(c) => Fcn(n)
<1> DEFINE e == [c EXCEPT !.flags = c.flags \ {"JUMP"}]
           n == [e EXCEPT !.flags = e.flags \cup {"COND"}]
<1>1. DOMAIN e = DOMAIN c /\ e.flags = c.flags \ {"JUMP"} /\ \A x \in DOMAIN c \ {"flags"} : e[x] = c[x]
  BY DEF Whole, Parts
<1>2. Raise(Drop(c, "JUMP"), "COND") = n
  BY DEF Raise, Drop
<1>3. DOMAIN n = DOMAIN e /\ n.flags = e.flags \cup {"COND"} /\ (\A x \in DOMAIN e \ {"flags"} : n[x] = e[x]) /\ Fcn(n)
  <2>1. "flags" \in DOMAIN e
    BY <1>1 DEF Whole, Parts
  <2> HIDE DEF e
  <2> QED
    BY <2>1, Excepted
<1> HIDE DEF e, n
<1>4. CASE Again(c, rom)
  BY <1>1, <1>2, <1>3, <1>4 DEF Restarted
<1>5. CASE ~Again(c, rom)
  BY <1>5 DEF Restarted
<1> QED
  BY <1>4, <1>5

LEMMA BeginIs ==
  ASSUME NEW c, Whole(c), NEW rom
  PROVE  BeginNextStep(c, rom) = IF c.trace = {} THEN Restarted(c, rom)
                                 ELSE [Restarted(c, rom) EXCEPT !.ring = Captured(Patched(c.ring), c.addr), !.hit = Hit(c)]
<1> DEFINE n == Restarted(c, rom)
<1>1. n.ring = c.ring /\ n.hit = c.hit
  BY RestartedIs DEF Whole, Parts
<1>2. BeginNextStep(c, rom) = IF c.trace = {} THEN n
                              ELSE [n EXCEPT !.ring = Captured(Patched(n.ring), c.addr),
                                             !.hit = n.hit \/ ("BREAKPOINTS" \in c.trace /\ c.addr \in c.breaks)]
  BY DEF BeginNextStep, Restarted, Again
<1> HIDE DEF n
<1> QED
  BY <1>1, <1>2 DEF Hit, n

\* The same by its fields.
LEMMA BeginFields ==
  ASSUME NEW c, Whole(c), NEW rom
  PROVE  LET d == BeginNextStep(c, rom)
         IN /\ DOMAIN d = DOMAIN c /\ Whole(d) /\ \A x \in DOMAIN c \ {"flags", "ring", "hit"} : d[x] = c[x]
            /\ d.flags = Restarted(c, rom).flags
            /\ d.ring = IF c.trace = {} THEN c.ring ELSE Captured(Patched(c.ring), c.addr)
            /\ d.hit = IF c.trace = {} THEN c.hit ELSE Hit(c)
            /\ Fcn(c) => Fcn(d)
            /\ c.trace # {} => Fcn(d)
<1> DEFINE n == Restarted(c, rom)
           v == Captured(Patched(c.ring), c.addr)
           w == Hit(c)
           d == BeginNextStep(c, rom)
<1>1. /\ DOMAIN n = DOMAIN c /\ (\A x \in DOMAIN c \ {"flags"} : n[x] = c[x]) /\ (Fcn(c) => Fcn(n))
      /\ "ring" \in DOMAIN c /\ "hit" \in DOMAIN c /\ "flags" \in DOMAIN c
  BY RestartedIs DEF Whole, Parts
<1>2. d = IF c.trace = {} THEN n ELSE [n EXCEPT !.ring = v, !.hit = w]
  BY BeginIs
<1> HIDE DEF n, v, w, d
<1>3. CASE c.trace = {}
  <2>1. d = n /\ Whole(d)
    BY <1>1, <1>2, <1>3 DEF Whole
  <2> QED
    BY <1>1, <1>3, <2>1 DEF d, n
<1>4. CASE c.trace # {}
  <2> DEFINE e == [n EXCEPT !.ring = v]
  <2>1. d = [e EXCEPT !.hit = w]
    BY <1>2, <1>4
  <2>2. DOMAIN e = DOMAIN n /\ e.ring = v /\ \A x \in DOMAIN n \ {"ring"} : e[x] = n[x]
    BY <1>1
  <2> HIDE DEF e
  <2>3. DOMAIN d = DOMAIN n /\ d.hit = w /\ d.ring = v /\ (\A x \in DOMAIN n \ {"ring", "hit"} : d[x] = n[x]) /\ Fcn(d)
    BY <1>1, <2>1, <2>2, Excepted
  <2>4. Whole(d)
    BY <1>1, <2>3 DEF Whole
  <2> QED
    BY <1>1, <1>4, <2>3, <2>4 DEF d, n, v, w
<1> QED
  BY <1>3, <1>4

\* Once is as good as twice.
LEMMA BeginTwice ==
  ASSUME NEW c, Whole(c), Headed(c.ring), NEW rom
  PROVE  BeginNextStep(BeginNextStep(c, rom), rom) = BeginNextStep(c, rom)
<1> DEFINE d == BeginNextStep(c, rom)
<1>1. /\ Whole(d) /\ DOMAIN d = DOMAIN c /\ d.flags = Restarted(c, rom).flags
      /\ d.addr = c.addr /\ d.overlay = c.overlay /\ d.trace = c.trace /\ d.breaks = c.breaks
      /\ d.ring = IF c.trace = {} THEN c.ring ELSE Captured(Patched(c.ring), c.addr)
      /\ d.hit = IF c.trace = {} THEN c.hit ELSE Hit(c)
      /\ c.trace # {} => Fcn(d)
  BY BeginFields DEF Whole, Parts
<1>2. Opcode(d, rom, d.addr) = Opcode(c, rom, c.addr)
  <2> HIDE DEF d
  <2> QED
    BY <1>1, Zenon DEF Opcode
<1>3. d.flags = IF Again(c, rom) THEN (c.flags \ {"JUMP"}) \cup {"COND"} ELSE c.flags
  BY <1>1, RestartedIs
<1> HIDE DEF d
<1>4. ~Again(d, rom)
  BY <1>2, <1>3 DEF Again, Has
<1>5. Restarted(d, rom) = d
  BY <1>4 DEF Restarted
<1>6. CASE c.trace = {}
  <2>1. BeginNextStep(d, rom) = d
    BY <1>1, <1>5, <1>6, BeginIs
  <2> QED
    BY <2>1 DEF d
<1>7. CASE c.trace # {}
  <2> DEFINE v == Captured(Patched(d.ring), d.addr)
             w == Hit(d)
  <2>1. d.ring = v
    BY <1>1, <1>7, CapturedTwice
  <2>2. d.hit = w
    BY <1>1, <1>7 DEF Hit
  <2>3. BeginNextStep(d, rom) = [d EXCEPT !.ring = v, !.hit = w]
    BY <1>1, <1>5, <1>7, BeginIs
  <2> HIDE DEF v, w
  <2>4. [d EXCEPT !.ring = v] = d
    BY <1>1, <1>7, <2>1, ThereAlready
  <2>5. [d EXCEPT !.hit = w] = d
    BY <1>1, <1>7, <2>2, ThereAlready
  <2> QED
    BY <2>3, <2>4, <2>5 DEF d
<1> QED
  BY <1>6, <1>7

\* The printer's countdown and the look do not get into each other's way.
LEMMA TickedIs ==
  ASSUME NEW c, Whole(c)
  PROVE  LET t == Ticked(c)
         IN /\ Whole(t) /\ Fcn(t) /\ DOMAIN t = DOMAIN c /\ \A x \in DOMAIN c \ {"flags", "prn"} : t[x] = c[x]
            /\ t.flags = IF c.prn.busy = 1 THEN c.flags \ {"BUSY"} ELSE c.flags
            /\ t.prn = BusyTick(c.prn)
<1> DEFINE e == DropIf(c, "BUSY", c.prn.busy = 1)
           t == Ticked(c)
<1>1. /\ DOMAIN e = DOMAIN c /\ (\A x \in DOMAIN c \ {"flags"} : e[x] = c[x]) /\ "prn" \in DOMAIN c
      /\ e.flags = IF c.prn.busy = 1 THEN c.flags \ {"BUSY"} ELSE c.flags
  <2>1. DropIf(c, "BUSY", c.prn.busy = 1) = IF c.prn.busy = 1 THEN [c EXCEPT !.flags = c.flags \ {"BUSY"}] ELSE c
    BY DEF DropIf, Drop
  <2> QED
    BY <2>1 DEF Whole, Parts
<1>2. t = [e EXCEPT !.prn = BusyTick(e.prn)]
  BY DEF Ticked
<1> HIDE DEF e, t
<1>3. e.prn = c.prn
  BY <1>1
<1>4. DOMAIN t = DOMAIN e /\ t.prn = BusyTick(e.prn) /\ (\A x \in DOMAIN e \ {"prn"} : t[x] = e[x]) /\ Fcn(t)
  BY <1>1, <1>2, Excepted
<1>5. Whole(t)
  BY <1>1, <1>4 DEF Whole
<1> QED
  BY <1>1, <1>3, <1>4, <1>5 DEF t, Whole, Parts

LEMMA TickedBegun ==
  ASSUME NEW c, Whole(c), NEW rom
  PROVE  Ticked(BeginNextStep(c, rom)) = BeginNextStep(Ticked(c), rom)
<1> DEFINE b == BeginNextStep(c, rom)
           t == Ticked(c)
           x == Ticked(b)
           y == BeginNextStep(t, rom)
<1>1. /\ Whole(b) /\ DOMAIN b = DOMAIN c /\ (\A f \in DOMAIN c \ {"flags", "ring", "hit"} : b[f] = c[f])
      /\ b.flags = IF Again(c, rom) THEN (c.flags \ {"JUMP"}) \cup {"COND"} ELSE c.flags
      /\ b.ring = IF c.trace = {} THEN c.ring ELSE Captured(Patched(c.ring), c.addr)
      /\ b.hit = IF c.trace = {} THEN c.hit ELSE Hit(c)
  BY BeginFields, RestartedIs
<1>2. /\ Whole(t) /\ Fcn(t) /\ DOMAIN t = DOMAIN c /\ (\A f \in DOMAIN c \ {"flags", "prn"} : t[f] = c[f])
      /\ t.flags = IF c.prn.busy = 1 THEN c.flags \ {"BUSY"} ELSE c.flags
      /\ t.prn = BusyTick(c.prn)
  BY TickedIs
<1> HIDE DEF b, t
<1>3. /\ Fcn(x) /\ DOMAIN x = DOMAIN b /\ (\A f \in DOMAIN b \ {"flags", "prn"} : x[f] = b[f])
      /\ x.flags = IF b.prn.busy = 1 THEN b.flags \ {"BUSY"} ELSE b.flags
      /\ x.prn = BusyTick(b.prn)
  BY <1>1, TickedIs
<1>4. /\ Fcn(y) /\ DOMAIN y = DOMAIN t /\ (\A f \in DOMAIN t \ {"flags", "ring", "hit"} : y[f] = t[f])
      /\ y.flags = IF Again(t, rom) THEN (t.flags \ {"JUMP"}) \cup {"COND"} ELSE t.flags
      /\ y.ring = IF t.trace = {} THEN t.ring ELSE Captured(Patched(t.ring), t.addr)
      /\ y.hit = IF t.trace = {} THEN t.hit ELSE Hit(t)
  <2>1. /\ Fcn(y) /\ DOMAIN y = DOMAIN t /\ (\A f \in DOMAIN t \ {"flags", "ring", "hit"} : y[f] = t[f])
        /\ y.flags = Restarted(t, rom).flags
        /\ y.ring = IF t.trace = {} THEN t.ring ELSE Captured(Patched(t.ring), t.addr)
        /\ y.hit = IF t.trace = {} THEN t.hit ELSE Hit(t)
    BY <1>2, BeginFields
  <2>2. Restarted(t, rom).flags = IF Again(t, rom) THEN (t.flags \ {"JUMP"}) \cup {"COND"} ELSE t.flags
    BY <1>2, RestartedIs
  <2> HIDE DEF y
  <2> QED
    BY <2>1, <2>2
<1> HIDE DEF x, y
<1>5. /\ t.addr = c.addr /\ t.overlay = c.overlay /\ t.trace = c.trace /\ t.breaks = c.breaks
      /\ t.ring = c.ring /\ t.hit = c.hit /\ b.prn = c.prn
  BY <1>1, <1>2 DEF Whole, Parts
<1>6. Opcode(t, rom, t.addr) = Opcode(c, rom, c.addr)
  BY <1>5, Zenon DEF Opcode
<1>7. Again(t, rom) <=> Again(c, rom)
  <2>1. "JUMP" \in t.flags <=> "JUMP" \in c.flags
    BY <1>2
  <2> QED
    BY <1>6, <2>1 DEF Again, Has
<1>8. Hit(t) = Hit(c)
  BY <1>5, Zenon DEF Hit
<1>9. x.flags = y.flags
  <2>1. ((c.flags \ {"JUMP"}) \cup {"COND"}) \ {"BUSY"} = ((c.flags \ {"BUSY"}) \ {"JUMP"}) \cup {"COND"}
    OBVIOUS
  <2>2. CASE Again(c, rom) /\ c.prn.busy = 1
    BY <1>1, <1>2, <1>3, <1>4, <1>5, <1>7, <2>1, <2>2
  <2>3. CASE ~(Again(c, rom) /\ c.prn.busy = 1)
    BY <1>1, <1>2, <1>3, <1>4, <1>5, <1>7, <2>3
  <2> QED
    BY <2>2, <2>3
<1>10. x.prn = y.prn
  <2>1. y.prn = t.prn
    BY <1>2, <1>4 DEF Whole, Parts
  <2> QED
    BY <1>2, <1>3, <1>5, <2>1
<1>11. x.ring = y.ring /\ x.hit = y.hit
  <2>1. x.ring = b.ring /\ x.hit = b.hit
    BY <1>1, <1>3 DEF Whole, Parts
  <2>2. b.ring = y.ring
    BY <1>1, <1>4, <1>5
  <2>3. b.hit = y.hit
    BY <1>1, <1>4, <1>5, <1>8, Zenon
  <2> QED
    BY <2>1, <2>2, <2>3
<1>12. DOMAIN x = DOMAIN c /\ DOMAIN y = DOMAIN c
  BY <1>1, <1>2, <1>3, <1>4
<1>13. ASSUME NEW f \in DOMAIN c, f \notin {"flags", "prn", "ring", "hit"} PROVE x[f] = y[f]
  <2>1. x[f] = b[f] /\ b[f] = c[f]
    BY <1>1, <1>3, <1>13
  <2>2. y[f] = t[f] /\ t[f] = c[f]
    BY <1>2, <1>4, <1>13
  <2> QED
    BY <2>1, <2>2
<1>14. \A f \in DOMAIN x : x[f] = y[f]
  BY <1>9, <1>10, <1>11, <1>12, <1>13
<1>15. x = y
  BY <1>3, <1>4, <1>12, <1>14, SameFcn
<1> QED
  BY <1>15 DEF x, y, b, t

\* A step after a look is the step without it.
LEMMA StepUnseen ==
  ASSUME NEW c, Whole(c), Headed(c.ring), NEW rom
  PROVE  Step(BeginNextStep(c, rom), rom) = Step(c, rom)
<1> DEFINE d == BeginNextStep(c, rom)
<1>1. /\ Whole(d) /\ d.addr = c.addr /\ d.overlay = c.overlay /\ d.polled = c.polled /\ d.Sout = c.Sout
      /\ d.flags = IF Again(c, rom) THEN (c.flags \ {"JUMP"}) \cup {"COND"} ELSE c.flags
  BY BeginFields, RestartedIs DEF Whole, Parts
<1>2. BeginNextStep(Ticked(d), rom) = BeginNextStep(Ticked(c), rom)
  <2>1. Ticked(d) = BeginNextStep(Ticked(c), rom)
    BY TickedBegun
  <2>2. Whole(Ticked(c)) /\ Headed(Ticked(c).ring)
    BY TickedIs DEF Whole, Parts
  <2>3. BeginNextStep(BeginNextStep(Ticked(c), rom), rom) = BeginNextStep(Ticked(c), rom)
    BY <2>2, BeginTwice
  <2> QED
    BY <2>1, <2>3
<1> HIDE DEF d
<1>3. Prepared(d, rom) = Prepared(c, rom)
  <2> DEFINE P(b, ext, bus) ==
               LET n == [b EXCEPT !.digit = IF @ = 0 THEN 15 ELSE @ - 1, !.polled = FALSE,
                                  !.EXT = IF ext THEN @ ELSE 0, !.Sout = bus]
               IN [n EXCEPT !.flags = @ \ {"HOLD", "EXT_VALID", "IO_VALID"}]
  <2>1. \A e : Prepared(e, rom) = P(BeginNextStep(Ticked(e), rom), Has(e, "EXT_VALID"), Bus(e))
    BY Zenon DEF Prepared, Ticked
  <2>2. Has(d, "EXT_VALID") = Has(c, "EXT_VALID") /\ Has(d, "IO_VALID") = Has(c, "IO_VALID")
    BY <1>1 DEF Has
  <2>3. Bus(d) = Bus(c)
    BY <1>1, <2>2 DEF Bus
  <2> HIDE DEF P
  <2>4. Prepared(d, rom) = P(BeginNextStep(Ticked(c), rom), Has(c, "EXT_VALID"), Bus(c))
    BY <1>2, <2>1, <2>2, <2>3, Zenon
  <2> QED
    BY <2>1, <2>4
<1>4. Opcode(d, rom, d.addr) = Opcode(c, rom, c.addr)
  BY <1>1, Zenon DEF Opcode
<1> DEFINE S(op, n, polled) ==
             IF IsBranch(op)
             THEN Noted([Counted(Driven(Branch(n, op))) EXCEPT !.spin = polled /\ Taken(n, op) /\ op[4] % 2 = 1])
             ELSE Noted([PregLatched(Counted(Advanced(Driven(Execute(n, op))))) EXCEPT !.spin = FALSE])
<1>5. \A e : Step(e, rom) = S(Opcode(e, rom, e.addr), Prepared(e, rom), e.polled)
  BY Zenon DEF Step
<1> HIDE DEF S
<1> QED
  BY <1>1, <1>3, <1>4, <1>5 DEF d

(***************************************************************************)
(* However often the debugger calls beginNextStep() at a freeze, the step  *)
(* that follows does what it would have done: the branch condition that    *)
(* was started anew stays so, the frame is captured where it was, and the  *)
(* breakpoint that was met is met.                                         *)
(***************************************************************************)
THEOREM PeekChangesNothing == DeskSpec => PeekInvisible
<1>1. DeskInv => (Peeked => Step(m', lab.rom) = Step(m, lab.rom))
  <2> SUFFICES ASSUME DeskInv, Peeked PROVE Step(m', lab.rom) = Step(m, lab.rom)
    OBVIOUS
  <2>1. Whole(m) /\ Headed(m.ring)
    BY DEF DeskInv, Core, Physical, Sound
  <2>2. m' = BeginNextStep(m, lab.rom)
    BY DEF Peeked
  <2> QED
    BY <2>1, <2>2, StepUnseen
<1> QED
  BY <1>1, DeskInvariant, PTL DEF PeekInvisible
================================================================================
