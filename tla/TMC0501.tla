-------------------------------- MODULE TMC0501 --------------------------------
(***************************************************************************)
(* The CPU (Core/TMC0501.cpp): step() and everything it executes, as       *)
(* operators on the record m of the chip's state.  An opcode's 13 bits are *)
(* <<bit 12, bits 11-8, bits 7-4, bits 3-0>>.  Machine.tla runs it.        *)
(***************************************************************************)
EXTENDS Models, Alu, Printer, CardReader, Display, TraceRing, ModuleCatalog, FiniteSets

CONSTANTS
  LibFetchPC, StepDispatchPC, IdleEntryPC,   \* the ROM sites step() knows
  Constants         \* m_constant: the chip's constant rows

NoLibPC == -1
NoOverlay == [a \in {} |-> <<0, 0, 0, 0>>]

\* snapshotCPU(), as far as a boundary's is read.
SnapshotOf(addr, fA, fB, reg, scom) ==
  [pc |-> addr, fA |-> fA, fB |-> fB, A |-> reg["A"], B |-> reg["B"], C |-> reg["C"], SCOM |-> scom]
NoRegisters == [r \in {"A", "B", "C", "D", "E"} |-> Zeros]

\* Everything at zero, as the constructor leaves it; COND starts true.  The
\* TI-58C runs at full speed in IDLE.
PoweredOn ==
  [model |-> "TI-59", overlay |-> NoOverlay, addr |-> 0, digit |-> 0, flags |-> {"COND"}, KR |-> 0, SR |-> 0, fA |-> 0, fB |-> 0,
   R5 |-> 0, EXT |-> 0, PREG |-> 0,
   reg |-> NoRegisters, Sout |-> Zeros,
   SCOM |-> [i \in Pos |-> Zeros], REG_ADDR |-> 0,
   RAM_ADDR |-> 0, RAM_MASK |-> MaskInfo(0), ram |-> [i \in 0..(RamSize - 1) |-> Zeros],
   lib |-> <<>>, libAddr |-> 0, libPos |-> 0, libWriting |-> FALSE, libExecPC |-> NoLibPC,
   boundary |-> [count |-> 0, atStep |-> FALSE, libPC |-> NoLibPC, cpu |-> SnapshotOf(0, 0, 0, NoRegisters, [i \in Pos |-> Zeros])],
   polled |-> FALSE, spin |-> FALSE,      \* m_lastStepWasHWPoll, kPolledHardware
   trace |-> {}, breaks |-> {}, hit |-> FALSE,
   key |-> [c \in Pos |-> {}], card |-> ReaderAtStart, prn |-> PrinterAtStart,
   lcd |-> DisplayAtStart, ring |-> RingAtStart]

\* reset(): RAM, the trace ring, the printer's queues and the poll counters stay.
CpuReset(m) ==
  [PoweredOn EXCEPT
     !.model = m.model, !.overlay = m.overlay, !.lib = m.lib, !.RAM_MASK = m.RAM_MASK, !.ram = m.ram,
     !.polled = m.polled, !.spin = m.spin,
     !.trace = m.trace, !.breaks = m.breaks, !.hit = m.hit, !.ring = m.ring,
     !.boundary = [m.boundary EXCEPT !.count = 0],
     !.prn = PrinterReset(m.prn),
     !.lcd = [DisplayAtStart EXCEPT !.cSteps = m.lcd.cSteps, !.pollSteps = m.lcd.pollSteps]]

Has(m, f) == f \in m.flags
Raise(m, f) == [m EXCEPT !.flags = @ \cup {f}]
Drop(m, f) == [m EXCEPT !.flags = @ \ {f}]
DropIf(m, f, cond) == IF cond THEN Drop(m, f) ELSE m
StepWeight(m) == IF Has(m, "IDLE") /\ ~HasConstantMemory(m.model) THEN 4 ELSE 1

(***************************************************************************)
(* Bit operations on fA, fB and KR.                                        *)
(***************************************************************************)
FlagOp(m, op) ==
  LET b == op[3]
      put(f, v) == PutBits(f, b, 1, IF v THEN 1 ELSE 0)
      a == Bit(m.fA, b)
      c == Bit(m.fB, b)
      fromR5(f) == PutBits(f, 1, 4, m.R5 % 16)
  IN CASE op[4] = 0  -> DropIf(m, "COND", a)
       [] op[4] = 1  -> [m EXCEPT !.fA = put(@, TRUE)]
       [] op[4] = 2  -> [m EXCEPT !.fA = put(@, FALSE)]
       [] op[4] = 3  -> [m EXCEPT !.fA = put(@, ~a)]
       [] op[4] = 4  -> [m EXCEPT !.fA = put(@, c), !.fB = put(@, a)]
       [] op[4] = 5  -> [m EXCEPT !.KR = put(@, TRUE)]
       [] op[4] = 6  -> [m EXCEPT !.fA = put(@, c)]
       [] op[4] = 7  -> [m EXCEPT !.fA = fromR5(@)]
       [] op[4] = 8  -> DropIf(m, "COND", c)
       [] op[4] = 9  -> [m EXCEPT !.fB = put(@, TRUE)]
       [] op[4] = 10 -> [m EXCEPT !.fB = put(@, FALSE)]
       [] op[4] = 11 -> [m EXCEPT !.fB = put(@, ~c)]
       [] op[4] = 12 -> DropIf(m, "COND", a = c)
       [] op[4] = 13 -> [m EXCEPT !.KR = put(@, FALSE)]
       [] op[4] = 14 -> [m EXCEPT !.fB = put(@, a)]
       [] OTHER      -> [m EXCEPT !.fB = fromR5(@)]

(***************************************************************************)
(* Keyboard scan: the lines the opcode selects, in the row of the digit    *)
(* counter; two keys of a row count as none.  Scan-all holds until a key   *)
(* is found or digit 0 was sampled.                                        *)
(***************************************************************************)
Selected(op) == {k \in 0..6 : ~Bit(8 * op[3] + (op[4] % 8), k)}
Down(key, d, lines) == LET hit == key[d] \cap lines
                       IN IF Cardinality(hit) = 1 THEN hit ELSE {}

\* Mutant of KeyScan: the sweep ends one row early.
KeyScanSkipsLastRow(m, op) ==
  LET hit == Down(m.key, m.digit, Selected(op))
      seen == IF op[4] >= 8 THEN DropIf(m, "COND", hit # {})
              ELSE IF hit # {}
                   THEN [Drop(m, "COND") EXCEPT !.KR = 16 * m.digit + 256 * (CHOOSE k \in hit : TRUE)]
                   ELSE IF m.digit > 1 THEN Raise(m, "HOLD") ELSE m
  IN [seen EXCEPT !.polled = TRUE]
KeyScan(m, op) ==
  LET hit == Down(m.key, m.digit, Selected(op))
      seen == IF op[4] >= 8 THEN DropIf(m, "COND", hit # {})
              ELSE IF hit # {}
                   THEN [Drop(m, "COND") EXCEPT !.KR = 16 * m.digit + 256 * (CHOOSE k \in hit : TRUE)]
                   ELSE IF m.digit # 0 THEN Raise(m, "HOLD") ELSE m
  IN [seen EXCEPT !.polled = TRUE]

(***************************************************************************)
(* Peripherals (opcodes A_8): KR carries a character, a nibble or a card   *)
(* byte; EXT answers for the next step only.                               *)
(***************************************************************************)
Answer(m, v) == [Raise(m, "EXT_VALID") EXCEPT !.EXT = v]

\* Mutant of CardLeaves: the switch still says that a card is in.
CardLeavesUnseen(m) == [m EXCEPT !.card = CardOff(@)]
CardLeaves(m) == [m EXCEPT !.card = CardOff(@), !.key[SwitchCol(m.model)] = @ \cup {4}]

Peripheral(m, op) ==
  CASE op[3] = 0  -> [m EXCEPT !.R5 = Bits(m.KR, 4, 4)]
    [] op[3] = 1  -> [m EXCEPT !.KR = PutBits(@, 4, 4, m.R5)]
    [] op[3] = 2  -> LET r == CardIn(m.card)
                     IN Answer([m EXCEPT !.card = r.card], r.nibble * 16)
    [] op[3] = 3  -> [m EXCEPT !.card = CardOut(@, Bits(m.KR, 4, 8))]
    [] op[3] = 4  -> CardLeaves(m)
    [] op[3] = 5  -> [m EXCEPT !.card = CardRead(@)]
    [] op[3] = 6  -> [m EXCEPT !.prn = OutPrt(@, Bits(m.KR, 4, 6))]
    [] op[3] = 7  -> [m EXCEPT !.prn = OutPrtFunc(@, Bits(m.KR, 4, 7))]
    [] op[3] = 8  -> [m EXCEPT !.prn = PrtClear(@)]
    [] op[3] = 9  -> [m EXCEPT !.prn = PrtStep(@)]
    [] op[3] = 10 -> [(IF Prints(m.prn) THEN Raise(m, "BUSY") ELSE m) EXCEPT !.prn = PrtPrint(@)]
    [] op[3] = 11 -> [Raise(m, "BUSY") EXCEPT !.prn = PrtFeed(@)]
    [] op[3] = 12 -> [m EXCEPT !.card = CardWrite(@)]
    [] op[3] = 15 -> Raise(m, "RAM_OP")
    [] OTHER      -> m

(***************************************************************************)
(* Library module (opcodes A_E).  Its pointer is a decimal number written  *)
(* and read digit by digit: OUT LIB_PC pushes a digit in at the top, IN    *)
(* LIB_PC answers the digits from the bottom without changing it.          *)
(***************************************************************************)
LibByte(m) == IF m.libAddr < Len(m.lib) THEN m.lib[m.libAddr + 1] ELSE 0

\* loadLibrary(): memset, then memcpy, without a lock; see Desk.
Cleared(m) == [m EXCEPT !.lib = <<>>]
LibraryLoaded(m, image) == [m EXCEPT !.lib = image, !.libExecPC = NoLibPC]

\* Mutant of LibraryOp: a read does not start over after a write.
LibraryOpKeepsPosition(m, op) ==
  CASE op[3] = 0 -> [Answer(m, LibByte(m) * 16) EXCEPT
                       !.libExecPC = IF m.addr = LibFetchPC THEN m.libAddr ELSE @,
                       !.libAddr = (@ + 1) % LibSize]
    [] op[3] = 1 -> [m EXCEPT !.libAddr = @ \div 10 + Bits(m.KR, 4, 4) * 1000,
                       !.libPos = (@ + 1) % 4, !.libWriting = TRUE]
    [] op[3] = 2 -> [Answer(m, ((m.libAddr \div 10^m.libPos) % 10) * 16) EXCEPT
                       !.libPos = (m.libPos + 1) % 4, !.libWriting = FALSE]
    [] op[3] = 3 -> Answer(m, (LibByte(m) \div 16) * 16)
    [] OTHER     -> m
LibraryOp(m, op) ==
  LET pos(same) == IF same THEN m.libPos ELSE 0
  IN CASE op[3] = 0 -> [Answer(m, LibByte(m) * 16) EXCEPT
                          !.libExecPC = IF m.addr = LibFetchPC THEN m.libAddr ELSE @,
                          !.libAddr = (@ + 1) % LibSize]
       [] op[3] = 1 -> [m EXCEPT !.libAddr = @ \div 10 + Bits(m.KR, 4, 4) * 1000,
                          !.libPos = (pos(m.libWriting) + 1) % 4, !.libWriting = TRUE]
       [] op[3] = 2 -> [Answer(m, ((m.libAddr \div 10^pos(~m.libWriting)) % 10) * 16) EXCEPT
                          !.libPos = (pos(~m.libWriting) + 1) % 4, !.libWriting = FALSE]
       [] op[3] = 3 -> Answer(m, (LibByte(m) \div 16) * 16)
       [] OTHER     -> m

(***************************************************************************)
(* Control opcodes (bits 11-8 = A).                                        *)
(***************************************************************************)
IncKR(kr) == LET k == (kr + 16) % 65536
             IN IF k < 16 THEN k + (IF Bit(k, 0) THEN -1 ELSE 1) ELSE k

\* MEMWR, MEMRD: the register the two digits on the bus name.
MemAccess(m, f) ==
  LET a == (m.Sout[1] * 16 + m.Sout[0]) % 256
      n == [m EXCEPT !.RAM_ADDR = a]
  IN IF a < RamLimit(m.model) THEN Raise(n, f) ELSE n

MemoryOp(m, op) ==
  CASE op[3] = 7 -> MemAccess(m, "RAM_WRITE")
    [] op[3] = 8 -> MemAccess(m, "RAM_READ")
    [] OTHER     -> [m EXCEPT !.R5 = Bits(IF Bit(op[3], 0) THEN m.fB ELSE m.fA, 1, 4)]

\* TST BUSY: bit 4 of the row (the card switch), or the printer.
TestBusy(m) ==
  LET high == 4 \in m.key[m.digit]
      n == [m EXCEPT !.card = WaitsForCard(@, m.digit = SwitchCol(m.model) /\ high),
                     !.polled = @ \/ (high /\ ~Has(m, "BUSY"))]
  IN DropIf(n, "COND", high \/ Has(m, "BUSY"))

Control(m, op) ==
  CASE op[4] = 0  -> IF m.digit # op[3] THEN Raise(m, "HOLD") ELSE m
    [] op[4] = 1  -> Drop(m, "IDLE")
    [] op[4] = 2  -> [m EXCEPT !.fA = 0]
    [] op[4] = 4  -> [m EXCEPT !.KR = IncKR(@)]
    [] op[4] = 5  -> DropIf(m, "COND", Bit(m.KR, op[3]))
    [] op[4] = 6  -> MemoryOp(m, op)
    [] op[4] = 7  -> [m EXCEPT !.R5 = op[3]]
    [] op[4] = 8  -> Peripheral(m, op)
    [] op[4] = 9  -> Raise(m, "IDLE")
    [] op[4] = 10 -> [m EXCEPT !.fB = 0]
    [] op[4] = 11 -> TestBusy(m)
    [] op[4] = 12 -> [m EXCEPT !.KR = BitOr(@ % 16, m.EXT, 16)]
    [] op[4] = 13 -> [m EXCEPT !.KR = m.SR, !.SR = m.KR]
    [] op[4] = 14 -> LibraryOp(m, op)
    [] op[4] = 15 /\ op[3] \in {0, 1} ->
                     [Raise(m, IF op[3] = 0 THEN "STORE" ELSE "RECALL") EXCEPT !.REG_ADDR = m.Sout[0] % 16]
    [] OTHER      -> m

(***************************************************************************)
(* ALU opcodes (execALU): mask in bits 11-8, operation in 7-3, destination *)
(* in 2-0.  A store or a RAM access armed earlier takes its data from the  *)
(* bus at the end of the first ALU opcode that follows.                    *)
(***************************************************************************)
AluIndex(op) == 2 * op[3] + op[4] \div 8
Destination(op) == <<"A", "-", "-", "B", "C", "-", "D", "-">>[(op[4] % 8) + 1]
Swap(op) == CASE op[4] % 8 = 2 -> <<"A", "B">>
              [] op[4] % 8 = 5 -> <<"C", "D">>
              [] op[4] % 8 = 7 -> <<"A", "E">>
              [] OTHER -> <<"A", "A">>

Bus(m) == IF Has(m, "IO_VALID") THEN m.Sout ELSE Zeros
Register(m, r) == IF r = "-" THEN Zeros ELSE m.reg[r]

\* The operands, the mode and the flag a recall or a RAM read uses up.
Operands(m, op) ==
  LET idx == AluIndex(op)
      mask == MaskInfo(op[2])
      row == Constants[ConstantRow(m.KR)]
      use(x, y, mode, f) == [x |-> x, y |-> y, mode |-> mode, used |-> f]
      pair == Source(idx)
  IN CASE idx = 24 -> use(m.reg["A"], row, ADD, "-")
       [] idx = 25 -> use(m.reg["A"], row, SUB, "-")
       [] idx = 26 /\ Has(m, "RECALL") -> use(Zeros, Masked(m.SCOM[m.REG_ADDR], mask), ADD, "RECALL")
       [] idx = 26 /\ ~Has(m, "RECALL") /\ Has(m, "RAM_READ") /\ m.RAM_ADDR < RamLimit(m.model) ->
            use(Zeros, Masked(m.ram[m.RAM_ADDR], mask), ADD, "RAM_READ")
       [] idx = 27 -> use(Zeros, Zeros, SUB, "-")
       [] idx = 28 -> use(m.reg["C"], row, ADD, "-")
       [] idx = 29 -> use(m.reg["C"], row, SUB, "-")
       [] idx \in {30, 31} ->     \* MOV dst,R5: R5 in the first digit, the constant in its own
            use(Zeros, [i \in Pos |-> CASE i = mask.start -> m.R5
                                        [] i = mask.cpos /\ i # mask.start -> mask.cval
                                        [] OTHER -> 0],
                IF idx = 30 THEN ADD ELSE SUB, "-")
       [] OTHER -> use(Register(m, pair[1]), Register(m, pair[2]), Mode(idx), "-")

AluOf(m, op, o) == Alu(Register(m, Destination(op)), o.x, o.y, MaskInfo(op[2]), o.mode)
WrittenBack(m, dst, used, r) ==
  [m EXCEPT !.reg = IF dst = "-" THEN @ ELSE [@ EXCEPT ![dst] = r.dst],
            !.Sout = r.sout, !.flags = @ \ IF r.overflow THEN {"COND", used} ELSE {used},
            !.R5 = IF r.r5 = {} THEN @ ELSE CHOOSE v \in r.r5 : TRUE]
Computed(m, op) ==
  LET o == Operands(m, op)
  IN IF AluIndex(op) \in {30, 31} /\ Destination(op) = "-" THEN m     \* MOV without a register
     ELSE WrittenBack(m, Destination(op), o.used, AluOf(m, op, o))

Swapped(m, op) ==
  LET s == Swap(op)
      mask == MaskInfo(op[2])
  IN [m EXCEPT !.reg[s[1]] = Exchanged(m.reg[s[1]], m.reg[s[2]], mask),
               !.reg[s[2]] = Exchanged(m.reg[s[2]], m.reg[s[1]], mask)]

Stored(m) == IF Has(m, "STORE") THEN [Drop(m, "STORE") EXCEPT !.SCOM[m.REG_ADDR] = Bus(m)] ELSE m

\* RAM_OP: bus digit 0 is the operation, digits 3 and 2 the register.
RamOp(m) ==
  LET bus == Bus(m)
      n == [Drop(m, "RAM_OP") EXCEPT !.RAM_ADDR = (bus[3] * 10 + bus[2]) % 256]
      a == n.RAM_ADDR
  IN CASE bus[0] = 2                -> [n EXCEPT !.ram = [i \in DOMAIN @ |-> Zeros]]
       [] bus[0] = 4 /\ a < RamLimit(m.model) -> [n EXCEPT !.ram = [i \in DOMAIN @ |-> IF i \in a..(a + 9) THEN Zeros ELSE @[i]]]
       [] bus[0] = 1 /\ a < RamLimit(m.model) -> Raise(n, "RAM_WRITE")
       [] bus[0] = 0 /\ a < RamLimit(m.model) -> Raise(n, "RAM_READ")
       [] OTHER                      -> n
RamWritten(m) ==
  LET n == Drop(m, "RAM_WRITE")
  IN IF m.RAM_ADDR >= RamLimit(m.model) THEN n
     ELSE [n EXCEPT !.ram[m.RAM_ADDR] = Exchanged(@, Bus(m), m.RAM_MASK)]

\* Mutant of Deferred: a write decoded from the bus takes its data from that bus, too.
DeferredAtOnce(m) ==
  LET n == IF Has(m, "RAM_OP") THEN RamOp(m) ELSE m
  IN IF Has(n, "RAM_WRITE") THEN RamWritten(n) ELSE n
Deferred(m) == CASE Has(m, "RAM_OP") -> RamOp(m)
                 [] ~Has(m, "RAM_OP") /\ Has(m, "RAM_WRITE") -> RamWritten(m)
                 [] OTHER -> m

\* A RAM access remembers the mask of the ALU opcode; the bus shows Sout at the end.
MaskKept(m, op) == IF Has(m, "RAM_WRITE") \/ Has(m, "RAM_READ") THEN [m EXCEPT !.RAM_MASK = MaskInfo(op[2])] ELSE m
OnBus(m) == [m EXCEPT !.Sout = Bus(m)]
ExecAlu(m, op) ==
  LET bus == IF op[4] % 8 = 1 THEN Raise(m, "IO_VALID") ELSE m
  IN OnBus(Deferred(Stored(MaskKept(Swapped(Computed(bus, op), op), op))))

(***************************************************************************)
(* step().  rom is the program, the debug overlay covers it, and words     *)
(* beyond both read as 0.                                                  *)
(***************************************************************************)
Opcode(m, rom, a) ==
  CASE a \in DOMAIN m.overlay -> m.overlay[a]
    [] a \in DOMAIN rom \ DOMAIN m.overlay -> rom[a]
    [] OTHER -> <<0, 0, 0, 0>>
IsBranch(op) == op[1] = 1

\* beginNextStep(): COND starts anew after a chain of branches; the trace
\* finishes the last frame and captures the pending instruction.
\* Mutant of BeginNextStep: a look at the machine counts as a step of the trace.
BeginNextStepFinishes(m, rom) ==
  LET n == IF ~IsBranch(Opcode(m, rom, m.addr)) /\ Has(m, "JUMP")
           THEN Raise(Drop(m, "JUMP"), "COND") ELSE m
  IN IF m.trace = {} THEN n ELSE [n EXCEPT !.ring = Finished(Captured(Patched(@), m.addr))]
BeginNextStep(m, rom) ==
  LET n == IF ~IsBranch(Opcode(m, rom, m.addr)) /\ Has(m, "JUMP")
           THEN Raise(Drop(m, "JUMP"), "COND") ELSE m
  IN IF m.trace = {} THEN n
     ELSE [n EXCEPT !.ring = Captured(Patched(@), m.addr),
                    !.hit = @ \/ ("BREAKPOINTS" \in m.trace /\ m.addr \in m.breaks)]

\* The printer's countdown and the digit counter; EXT and the bus are valid
\* for one step after the one that wrote them.
Prepared(m, rom) ==
  LET b == BeginNextStep([DropIf(m, "BUSY", m.prn.busy = 1) EXCEPT !.prn = BusyTick(@)], rom)
      n == [b EXCEPT !.digit = IF @ = 0 THEN 15 ELSE @ - 1, !.polled = FALSE,
                     !.EXT = IF Has(m, "EXT_VALID") THEN @ ELSE 0, !.Sout = Bus(m)]
  IN [n EXCEPT !.flags = @ \ {"HOLD", "EXT_VALID", "IO_VALID"}]

\* A branch: bit 11 names the COND it is taken on, bit 0 its direction.
Taken(m, op) == Has(m, "COND") <=> op[2] >= 8
Branch(m, op) ==
  LET offset == (op[2] % 8) * 128 + op[3] * 8 + op[4] \div 2
      to == CASE ~Taken(m, op) -> m.addr + 1
              [] Taken(m, op) /\ op[4] % 2 = 1 -> m.addr - offset
              [] OTHER -> m.addr + offset
  IN [Raise(m, "JUMP") EXCEPT !.addr = to % 65536]

Execute(m, op) ==
  CASE op[2] = 0  -> FlagOp(m, op)
    [] op[2] = 8  -> KeyScan(m, op)
    [] op[2] = 10 -> Control(m, op)
    [] OTHER      -> ExecAlu(m, op)

\* postOperation(), then the address: HOLD before PREG before the next word.
Driven(m) == [m EXCEPT !.lcd = AfterOperation(@, m.digit, Has(m, "IDLE"), m.reg["A"], m.reg["B"],
                                              m.R5, StepWeight(m))]
Advanced(m) == CASE Has(m, "HOLD") -> m
                 [] ~Has(m, "HOLD") /\ m.PREG # 0 -> [m EXCEPT !.addr = m.PREG, !.PREG = 0]
                 [] OTHER -> [m EXCEPT !.addr = (@ + 1) % 65536]
\* KR bit 1 (SET KR[1]) hands an address to PREG, to be used one step later.
PregLatched(m) ==
  IF ~Bit(m.KR, 1) THEN m
  ELSE [m EXCEPT !.PREG = Bits(m.KR, 4, 12) + 4096 * Bits(m.KR, 0, 1), !.KR = PutBits(@, 1, 1, 0)]

Counted(m) ==
  LET c == IF Has(m, "IDLE") THEN Bit(m.fA, 14) ELSE m.fA # 0
  IN [m EXCEPT !.lcd = CountStep(@, c, StepWeight(m)),
               !.ring = IF m.trace = {} THEN @ ELSE Finished(@)]

\* noteStepBoundary(): the interpreter's dispatch, or the idle loop's entry.
SnapshotCPU(m) == SnapshotOf(m.addr, m.fA, m.fB, m.reg, m.SCOM)
Noted(m) ==
  IF m.addr \in {StepDispatchPC, IdleEntryPC}
  THEN [m EXCEPT !.boundary = [count |-> @.count + 1, atStep |-> m.addr = StepDispatchPC, libPC |-> m.libExecPC,
                               cpu |-> SnapshotCPU(m)]]
  ELSE m

Step(m, rom) ==
  LET op == Opcode(m, rom, m.addr)
      n == Prepared(m, rom)
      back == Taken(n, op) /\ op[4] % 2 = 1
  IN IF IsBranch(op)
     THEN Noted([Counted(Driven(Branch(n, op))) EXCEPT !.spin = m.polled /\ back])
     ELSE Noted([PregLatched(Counted(Advanced(Driven(Execute(n, op))))) EXCEPT !.spin = FALSE])

(***************************************************************************)
(* runDebugInjectedProgram(): the target is asserted before every step     *)
(* until the CPU is there.                                                 *)
(***************************************************************************)
Injected(m, rom, target, maxSteps) ==
  LET closer(r) == Step([r EXCEPT !.EXT = target, !.PREG = target], rom)
      next(r, i) == IF i > 1 /\ r.addr = target THEN r ELSE closer(r)
      run[i \in 0..maxSteps] == IF i = 0 THEN Raise(m, "COND") ELSE next(run[i - 1], i)
  IN run[maxSteps]

\* The printer's lines of the key matrix: PRINT, ADV, TRACE, and the line
\* that tells the ROM a printer is there.
SetLine(m, col, row, on) == [m EXCEPT !.key[col] = IF on THEN @ \cup {row} ELSE @ \ {row}]
PressPrinterPrint(m, on) == SetLine(m, 12, 2, on)
PressPrinterAdv(m, on) == SetLine(m, 12, 0, on)
SetPrinterTraceLine(m, on) == SetLine(m, 15, 2, on)
SetPrinterConnectedLine(m, on) == SetLine(m, PrinterCol(m.model), 2, on)
================================================================================
