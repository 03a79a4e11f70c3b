------------------------------ MODULE TI59Machine ------------------------------
(***************************************************************************)
(* The machine's calls (Core/TI59Machine.cpp) as operators on the core m:  *)
(* each takes m_keyMutex, so it is one step of whoever calls it.           *)
(***************************************************************************)
EXTENDS TMC0501

SwitchPressed(c) == SetLine(c, SwitchCol(c.model), 4, TRUE)

\* reset() presses the card switch and shows the printer's latches again.
MachineReset(m, latch) ==
  SetPrinterTraceLine(SetPrinterConnectedLine(SwitchPressed(CpuReset(m)), latch.connected), latch.trace)

\* One pass of a stepping loop: r is what it has come to, n the machine a step later.
StartRun(c) == [m |-> c, done |-> 0, stop |-> FALSE]
Landed(n, done, stop) == [m |-> [n EXCEPT !.hit = FALSE], done |-> done, stop |-> stop \/ n.hit]

\* stepN(n): n steps, or less if a breakpoint is hit.
SteppedOnce(r, rom) == IF r.stop THEN r ELSE Landed(Step(r.m, rom), r.done + 1, FALSE)
StepN(m, rom, n) ==
  LET run[i \in 0..n] == IF i = 0 THEN StartRun(m) ELSE SteppedOnce(run[i - 1], rom) IN run[n]

\* stepUntilNextKeycode(maxCycles): to the interpreter's dispatch, a breakpoint
\* or the budget, whichever comes first.
Boundary(before, after) == after.boundary.count > before.boundary.count /\ after.boundary.atStep
Cycled(r, n) == Landed(n, r.done + StepWeight(n), Boundary(r.m, n))
UntilBoundary(c, rom, maxCycles) ==
  LET pass(r) == IF r.stop \/ r.done >= maxCycles THEN r ELSE Cycled(r, Step(r.m, rom))
      run[i \in 0..maxCycles] == IF i = 0 THEN StartRun(c) ELSE pass(run[i - 1])
  IN run[maxCycles].m

\* loadDebugOverlay(): the words from the entry on; those of a longer one before are gone.
CONSTANT Overlay          \* OVERLAY_BASE, the entry: 0x1800
LoadDebugOverlay(m, words) == [m EXCEPT !.overlay = [a \in Overlay..(Overlay + Len(words) - 1) |-> words[a - Overlay + 1]]]

\* The ROM's partition, in units of program registers, in two SCOM places.
PartitionProgramRegs(m) == m.SCOM[9][0] * PartitionUnit
SetPartition(m, maxStep) ==
  LET n == (maxStep + 1) \div (StepsPerReg * PartitionUnit)
  IN [m EXCEPT !.SCOM = [@ EXCEPT ![9] = [@ EXCEPT ![0] = n],
                                  ![13] = [@ EXCEPT ![8] = n % 10, ![9] = n \div 10]]]

\* dataRegCountLocked(), dataRegRAMIndexLocked(): registers count down from the
\* highest number the ROM keeps in SCOM[13].
RegCount(m) ==
  LET top == m.SCOM[13][5] * 100 + m.SCOM[13][4] * 10 + m.SCOM[13][3]
  IN CASE top # 0 -> top + 1
       [] top = 0 /\ HasConstantMemory(m.model) -> RamSize \div 2
       [] OTHER -> RamLimit(m.model)
RegisterIndex(m, num) ==
  LET i == RegCount(m) - 1 - num IN IF num >= 0 /\ i >= 0 /\ i < RamLimit(m.model) THEN {i} ELSE {}

StoreStep(ram, s) ==
  [ram EXCEPT ![s.addr \div StepsPerReg] =
     [@ EXCEPT ![2 * (s.addr % StepsPerReg)] = s.code % 10, ![2 * (s.addr % StepsPerReg) + 1] = s.code \div 10]]
WriteProgramStep(m, s) ==
  IF s.addr \in 0..(RamSize * StepsPerReg - 1) THEN [m EXCEPT !.ram = StoreStep(@, s)] ELSE m
WriteRAMReg(m, reg, nibbles) == IF reg \in DOMAIN m.ram THEN [m EXCEPT !.ram[reg] = nibbles] ELSE m
WriteDataRegister(m, num, nibbles) ==
  IF RegisterIndex(m, num) = {} THEN m
  ELSE [m EXCEPT !.ram[CHOOSE i \in RegisterIndex(m, num) : TRUE] = nibbles]
================================================================================
