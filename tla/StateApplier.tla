------------------------------ MODULE StateApplier ------------------------------
(***************************************************************************)
(* Writing a preset into the machine (Shared/StateApplier.cpp), the         *)
(* resets, and the TI-58C's constant memory as a file                      *)
(* (Shared/ConstantMemory.cpp): operators on the machine's record m, run   *)
(* with the run loop stopped.                                              *)
(***************************************************************************)
EXTENDS TI59Machine, StateFile

CONSTANT StartupSteps      \* kStartupSteps: 300 000, past the end of the ROM's start
ASSUME StartupAssumption == StartupSteps \in Nat

(***************************************************************************)
(* StateApplier.                                                           *)
(***************************************************************************)
\* runStartup(): the whole of it, however often a breakpoint cuts it short.
\* Mutant of RunStartup: one call of stepN.
RunStartupOnce(m, rom) == StepN(m, rom, StartupSteps).m
GoneOn(r, s) == [s EXCEPT !.done = @ + r.done]
RunStartup(m, rom) ==
  LET more(r) == IF r.done = StartupSteps THEN r ELSE GoneOn(r, StepN(r.m, rom, StartupSteps - r.done))
      run[k \in 0..StartupSteps] == IF k = 0 THEN StartRun(m) ELSE more(run[k - 1])
  IN run[StartupSteps].m

\* writeProgram(): the listed steps, zeros up to the model's last.
WriteProgram(m, steps) ==
  LET size == MaxStep(m.model) + 1
      code(a) == LET s == {i \in DOMAIN steps : steps[i].addr = a}
                 IN IF s = {} THEN 0 ELSE steps[CHOOSE i \in s : \A o \in s : o <= i].code
      digits(r, i) == LET c == code(StepsPerReg * r + i \div 2) IN IF i % 2 = 0 THEN c % 10 ELSE c \div 10
  IN [m EXCEPT !.ram = [r \in DOMAIN @ |-> IF StepsPerReg * r < size THEN [i \in Pos |-> digits(r, i)] ELSE @[r]]]

\* What the RAM holds after the writes of a preset or a reload, one after the other.
RegistersWritten(m, registers) ==
  FoldLeft(LAMBDA n, g : IF g.hidden THEN WriteRAMReg(n, ExtraBase + g.num, g.nibbles)
                         ELSE WriteDataRegister(n, g.num, g.nibbles), m, registers).ram
StepsWritten(m, steps) ==
  FoldLeft(LAMBDA n, s : IF s.addr <= MaxStep(m.model) THEN WriteProgramStep(n, s) ELSE n, m, steps).ram
WriteRegisters(m, registers) == [m EXCEPT !.ram = RegistersWritten(m, registers)]

DefaultPartition(d, r) ==
  IF ~HasLargeMemory(d) /\ ~r.explicit THEN 3 * PartitionSteps - 1
  ELSE IF r.contents.partition = {} THEN 6 * PartitionSteps - 1 ELSE CHOOSE p \in r.contents.partition : TRUE
PartitionError(r, d) == r.explicit /\ DefaultPartition(d, r) > MaxStep(d)

ApplyState(m, rom, latch, r) ==
  LET booted == SetPartition(RunStartup(MachineReset(m, latch), rom), DefaultPartition(m.model, r))
      upTo == IF HasConstantMemory(m.model) THEN ExtraBase ELSE RamSize
      cleared == [booted EXCEPT !.ram = [i \in DOMAIN @ |-> IF i < upTo THEN Zeros ELSE @[i]]]
  IN WriteRegisters(WriteProgram(cleared, r.contents.steps), r.contents.registers)

ApplyReload(m, stage) ==
  LET parted == IF stage.partition = {} THEN m ELSE SetPartition(m, CHOOSE p \in stage.partition : TRUE)
      programmed == [parted EXCEPT !.ram = StepsWritten(parted, stage.steps)]
  IN WriteRegisters(programmed, stage.registers)

\* powerOn(), softReset(), the first half of cleanReset(); saved is <<ram>>, or <<>> without a file.
Restored(m, saved) == IF saved = <<>> THEN m ELSE [m EXCEPT !.ram = saved[1]]
PowerOn(m, rom, saved) == IF HasConstantMemory(m.model) THEN Restored(RunStartup(m, rom), saved) ELSE m
SoftReset(m, rom, latch, saved) ==
  IF HasConstantMemory(m.model) THEN Restored(MachineReset(m, latch), saved)
  ELSE Restored(RunStartup(MachineReset(m, latch), rom), <<m.ram>>)
ZeroRam(m) == IF HasConstantMemory(m.model) THEN [m EXCEPT !.ram = [i \in DOMAIN @ |-> Zeros]] ELSE m

(***************************************************************************)
(* ti58c.mem: the user's cue card, then a line for every register that is  *)
(* not zero.  A file that does not decode is none.                         *)
(***************************************************************************)
RegisterLine(i, nibbles) == [k |-> "R", reg |-> i, bytes |-> EncodeRegisterLine(nibbles)]
EncodeConstantMemory(ram, cue) ==
  LET fields == IF cue = <<>> THEN <<>> ELSE EncodeCue(cue[1], "CueCard")
      card == IF cue = <<>> THEN <<>> ELSE <<[k |-> "cuecard"]>> \o [i \in DOMAIN fields |-> [k |-> "field", field |-> fields[i]]]
      used == SetToSortSeq({i \in DOMAIN ram : ram[i] # Zeros}, <)
  IN card \o <<[k |-> "rule"]>> \o [j \in DOMAIN used |-> RegisterLine(used[j], ram[used[j]])]

MemoryLine(p, l) ==
  CASE l.k = "cuecard" -> [p EXCEPT !.inCue = TRUE, !.cue = <<FreshCue>>]
    [] l.k = "rule"    -> [p EXCEPT !.inCue = FALSE]
    [] p.inCue /\ l.k = "field" -> [p EXCEPT !.cue = <<ParseCueLine(@[1], l.field)>>]
    [] ~p.inCue /\ l.k = "R" -> IF l.reg \in DOMAIN p.ram /\ l.bytes # <<>>
                                THEN [p EXCEPT !.ram[l.reg] = DecodeRegisterLine(l.bytes)] ELSE [p EXCEPT !.ok = FALSE]
    [] OTHER -> p
DecodeConstantMemory(lines) ==
  LET p == FoldLeft(MemoryLine, [ram |-> [i \in 0..(RamSize - 1) |-> Zeros], cue |-> <<>>, inCue |-> FALSE, ok |-> TRUE], lines)
  IN IF p.ok THEN <<[ram |-> p.ram, cue |-> p.cue]>> ELSE <<>>
================================================================================
