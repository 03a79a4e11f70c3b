-------------------------------- MODULE CalcPanel --------------------------------
(***************************************************************************)
(* The CALCULATOR panel of the debugger: what it reads out of the machine  *)
(* (Shared/DebugSnapshots.cpp), the program table of the module that is in *)
(* (Shared/ModuleImage.cpp), the operands of a listing                     *)
(* (Shared/KeyNames.cpp) and the panel itself (Shared/DebugModel.cpp).     *)
(* A number is its sign, its 13 digits as an integer and the power of ten  *)
(* they are times; steps, programs and registers are counted as there.     *)
(***************************************************************************)
EXTENDS TI59Machine

CONSTANTS
  LibReturnPCs,    \* the ROM between RTN_POP and LIB_RETURN: 1193-1194, 14F9-1506
  RomCodes         \* 384 keycodes among the constants

(***************************************************************************)
(* Modules.                                                                *)
(***************************************************************************)
Bcd(byte) == (byte \div 16) * 10 + (byte % 16)

\* ModuleImage::parse(): a table that is cut short or does not rise gives no
\* ranges; only the second is an error.
ParseImage(raw) ==
  LET codes == [i \in DOMAIN raw |-> Bcd(raw[i])]
      count == IF Len(raw) <= 2 THEN 0 ELSE codes[1]
      bound(n) == codes[2 * n + 1] * 100 + codes[2 * n + 2]
      whole == count > 0 /\ 2 * (count + 1) + 1 < Len(raw)
      rising == \A n \in 1..count : bound(n) < bound(n + 1) /\ bound(n + 1) <= Len(raw)
  IN [codes |-> codes,
      ranges |-> IF whole /\ rising THEN [n \in 1..count |-> [lo |-> bound(n), hi |-> bound(n + 1)]] ELSE <<>>,
      error |-> whole /\ ~rising]

\* libraryStep(): the program whose range the address is in.
LibraryStep(image, pc) ==
  LET at == {n \in DOMAIN image.ranges : pc # NoLibPC /\ image.ranges[n].lo <= pc /\ pc < image.ranges[n].hi}
  IN IF at = {} THEN <<>>
     ELSE LET n == CHOOSE n \in at : \A o \in at : n <= o
          IN <<[program |-> n, step |-> pc - image.ranges[n].lo,
                codes |-> SubSeq(image.codes, image.ranges[n].lo + 1, image.ranges[n].hi)]>>

\* programSourceFrom().
ProgramSource(flag, pc) ==
  CASE flag % 2 = 1               -> "SolidState"
    [] flag % 2 = 0 /\ Bit(flag, 3) -> "Rom"
    [] flag = 0                   -> "UserProgram"
    [] flag = 2 /\ pc \in LibReturnPCs -> "SolidStateReturn"
    [] OTHER                      -> "FastMode"

(***************************************************************************)
(* Operands: argumentSteps() walks a program from its first step, an       *)
(* instruction at a time.  A label's name is walked as an instruction.     *)
(***************************************************************************)
OneOperand == {36, 42, 43, 44, 48, 49, 58, 62, 63, 64, 69, 72, 73, 74, 82, 83, 84, 86}
Indirect == 40
CodeAt(codes, i) == IF i < Len(codes) THEN codes[i + 1] ELSE 0

\* consumeNumber(), consumeDestination() and the switch: what is shown as a
\* number, and where it goes on.
Consumed(args, next) == [args |-> args, next |-> next]
NumberAt(codes, i) ==
  IF CodeAt(codes, i) = Indirect THEN Consumed({i + 1}, i + 2) ELSE Consumed({i}, i + 1)
DestinationAt(codes, i) ==
  CASE CodeAt(codes, i) <= 9        -> Consumed({i, i + 1}, i + 2)
    [] CodeAt(codes, i) = Indirect  -> Consumed({i + 1}, i + 2)
    [] OTHER                        -> Consumed({}, i + 1)
InstructionAt(codes, i, afterInv) ==
  LET c == CodeAt(codes, i)
      number == NumberAt(codes, i + 1)
      target == DestinationAt(codes, number.next)
  IN CASE c \in {61, 67, 77} \/ (c = 71 /\ ~afterInv) -> DestinationAt(codes, i + 1)
       [] c \in {87, 97} -> Consumed(number.args \cup target.args, target.next)
       [] c \in OneOperand -> Consumed({i + 1}, i + 2)
       [] OTHER -> Consumed({}, i + 1)
Walked(w, codes) ==
  LET o == InstructionAt(codes, w.next, w.inv)
  IN IF w.next >= Len(codes) THEN w
     ELSE [args |-> w.args \cup o.args, next |-> o.next, inv |-> CodeAt(codes, w.next) \in {22, 27}]
ArgumentSteps(codes) ==
  FoldLeft(LAMBDA w, c : Walked(w, codes), [args |-> {}, next |-> 0, inv |-> FALSE], codes).args
  \cap 0..(Len(codes) - 1)

(***************************************************************************)
(* Reading the machine.                                                    *)
(***************************************************************************)
StepCode(reg, k) == reg[2 * k + 1] * 10 + reg[2 * k]
ReadProgramStep(c, a) ==
  IF a \in 0..(RamSize * StepsPerReg - 1) THEN StepCode(c.ram[a \div StepsPerReg], a % StepsPerReg) ELSE 0
RomKeycodes == [i \in 1..RomCodes |-> StepCode(Constants[16 + (i - 1) \div 8], (i - 1) % 8)]

\* decodeBCD() and, in decodeX(), decimalValue(): digits 15 to 3.
DigitsOf(n) == [i \in 3..15 |-> n[i]]
Decimal(n, negative, small, shift) ==
  [negative |-> negative /\ DigitsOf(n) # DigitsOf(Zeros), digits |-> DigitsOf(n),
   exponent |-> (IF small THEN -1 ELSE 1) * (n[2] * 10 + n[1]) - shift]
DecodeBCD(n) == Decimal(n, Bit(n[0], 1), Bit(n[0], 2), 12)
\* encodeBcd() of such a number: the first digit that is not zero goes to 15.
EncodeBcd(v) ==
  LET places == {i \in 3..15 : v.digits[i] # 0}
      up == 15 - (CHOOSE i \in places : \A o \in places : o <= i)
      exp == v.exponent + 12 - up
      size == IF exp < 0 THEN -exp ELSE exp
  IN IF places = {} THEN Zeros
     ELSE [i \in Pos |-> CASE i = 0 -> (IF v.negative THEN 2 ELSE 0) + (IF exp < 0 THEN 4 ELSE 0)
                           [] i = 1 -> size % 10
                           [] i = 2 -> size \div 10
                           [] OTHER -> IF i - up >= 3 THEN v.digits[i - up] ELSE 0]
ReadDataReg(c, num) ==
  DecodeBCD(IF RegisterIndex(c, num) = {} THEN Zeros ELSE c.ram[CHOOSE i \in RegisterIndex(c, num) : TRUE])

\* The partition, which may claim more than there is, its program and its data.
ProgramRegs(c) == Smaller(PartitionProgramRegs(c), RamLimit(c.model))
ProgramSteps(c) == [i \in 1..(ProgramRegs(c) * StepsPerReg) |-> ReadProgramStep(c, i - 1)]
PartitionDataRegs(c) == IF RegCount(c) < ProgramRegs(c) THEN 0 ELSE RegCount(c) - ProgramRegs(c)
RegEntry(c, i) ==
  LET top == RegCount(c)
  IN [num |-> IF i < top THEN top - 1 - i ELSE i - top, value |-> DecodeBCD(c.ram[i]), hidden |-> i >= top]
NonZeroDataRegs(c) ==
  {RegEntry(c, i) : i \in {j \in ProgramRegs(c)..(RamLimit(c.model) - 1) : c.ram[j] # Zeros}}

\* calcViewState(): the last boundary, the live state before the first.
CalcViewState(c) ==
  IF c.boundary.count # 0 THEN c.boundary
  ELSE [count |-> 0, atStep |-> FALSE, libPC |-> c.libExecPC, cpu |-> SnapshotCPU(c)]

(***************************************************************************)
(* The snapshot.                                                           *)
(***************************************************************************)
\* decodeX(): C, or A as a number or as the entry of one, or neither.
Normalized(n) == n[0] = 12 /\ (\A i \in 1..15 : n[i] <= 9) /\ (n[15] = 0 => DigitsOf(n) = DigitsOf(Zeros))
Realigned(n) ==
  [i \in Pos |-> CASE i = 0 -> n[0] [] i \in {1, 2} -> n[i + 1] [] i \in 3..13 -> n[i + 2] [] OTHER -> 0]
Signed(n, flags, shift) == Decimal(n, Bit(flags, 2), Bit(flags, 3), shift)
NormalizedValue(n, flags) == IF Normalized(n) THEN [value |-> Signed(n, flags, 12)] ELSE [raw |-> n]
DecodeX(v) ==
  LET cpu == v.cpu
      entry == IF ~v.atStep /\ (cpu.B[1] # 0 \/ cpu.B[2] # 0) THEN Realigned(cpu.A) ELSE cpu.A
  IN CASE Bit(cpu.fB, 5) -> NormalizedValue(cpu.C, cpu.fB)
       [] ~Bit(cpu.fB, 5) /\ cpu.A[0] = 12 -> NormalizedValue(cpu.A, cpu.fA)
       [] OTHER -> IF (\A i \in 1..15 : entry[i] <= 9) /\ entry[0] <= 10
                   THEN [value |-> Signed(entry, cpu.fA, entry[0])] ELSE [raw |-> cpu.A]

\* Base-80 addresses: the program counter's digits and a return level's.
DecodeProgramCounter(scom) == scom[0][7] * 800 + scom[0][6] * 80 + scom[0][5] * 8 + scom[0][4]
ReturnLevel(row, at) ==
  [flag |-> row[at], addr |-> row[at + 4] * 800 + row[at + 3] * 80 + row[at + 2] * 8 + row[at + 1]]

SourceOf(v) == ProgramSource(v.cpu.SCOM[0][3], v.cpu.pc)
LibAt(v, image) == IF SourceOf(v) = "SolidState" THEN LibraryStep(image, v.libPC) ELSE <<>>
NoStep == -1
\* The step to run next: the SCOM's stands on it at the dispatch and after a jump.
CurrentStep(v, image) ==
  CASE LibAt(v, image) # <<>> -> LibAt(v, image)[1].step
    [] SourceOf(v) \in {"UserProgram", "FastMode", "Rom"} ->
         DecodeProgramCounter(v.cpu.SCOM) + (IF v.atStep \/ Bit(v.cpu.fB, 11) THEN 0 ELSE 1)
    [] OTHER -> NoStep
SourceCodes(c, v, image) ==
  CASE SourceOf(v) \in {"UserProgram", "FastMode"} -> ProgramSteps(c)
    [] SourceOf(v) = "Rom" -> RomKeycodes
    [] OTHER -> IF LibAt(v, image) = <<>> THEN <<>> ELSE LibAt(v, image)[1].codes

Entry(codes, args, i, current) == [step |-> i, code |-> codes[i + 1], number |-> i \in args, current |-> i = current]
ProgramListing(codes, current) ==
  LET args == ArgumentSteps(codes) IN [i \in DOMAIN codes |-> Entry(codes, args, i - 1, current)]
\* Five steps before and after the current one.
Window(codes, current) ==
  LET center == IF current < 0 THEN 0 ELSE current
  IN SubSeq(ProgramListing(codes, current), (IF center < 5 THEN 0 ELSE center - 5) + 1, Smaller(Len(codes), center + 6))

Snapshot(c, image) ==
  LET v == CalcViewState(c)
      S == v.cpu.SCOM
      step == CurrentStep(v, image)
      codes == SourceCodes(c, v, image)
      lib == LibAt(v, image)
  IN [programRegs |-> PartitionProgramRegs(c), dataRegs |-> PartitionDataRegs(c), nonZero |-> NonZeroDataRegs(c),
      hir |-> [h \in 1..8 |-> DecodeBCD(S[h])], t |-> DecodeBCD(S[11]), x |-> DecodeX(v),
      source |-> SourceOf(v), flag |-> S[0][3], step |-> step, window |-> Window(codes, step),
      angle |-> CASE S[13][0] = 0 -> "Deg" [] S[13][0] = 1 -> "Grad" [] S[13][0] = 12 -> "Rad" [] OTHER -> "none",
      flags |-> {f \in 0..9 : Bit(S[0][11 + (f % 5)], IF f < 5 THEN 0 ELSE 1)},
      fix |-> IF S[0][0] = 0 THEN <<>> ELSE <<(S[0][0] + 8) % 10>>,
      fA |-> v.cpu.fA, fB |-> v.cpu.fB,
      inv |-> Bit(v.cpu.fA, 8), second |-> Bit(v.cpu.fA, 9), eng |-> Bit(v.cpu.fB, 7),
      returns |-> [l \in 1..6 |-> ReturnLevel(S[IF l <= 3 THEN 15 ELSE 14], 1 + 5 * ((l - 1) % 3))], rows |-> S,
      mismatch |-> IF lib = <<>> \/ lib[1].program = ActiveLibraryProgram(S[9]) THEN <<>> ELSE <<ActiveLibraryProgram(S[9])>>]

(***************************************************************************)
(* DebugModel: the panel p.                                                *)
(***************************************************************************)
PanelAttached(raw) ==
  [image |-> ParseImage(raw), live |-> <<>>, listing |-> <<>>, source |-> "UserProgram", told |-> NoStep]
ModuleChanged(p, raw) == [p EXCEPT !.image = ParseImage(raw)]

\* rebuildLive(): when frozen the listing as well, but not of a library's
\* return, which keeps the one before.
RebuildLive(p, c, frozen) ==
  LET s == Snapshot(c, p.image)
      codes == SourceCodes(c, CalcViewState(c), p.image)
      live == [p EXCEPT !.live = <<s>>, !.told = IF s.mismatch = <<>> THEN @ ELSE s.mismatch[1]]
  IN IF ~frozen \/ s.source = "SolidStateReturn" THEN live
     ELSE [live EXCEPT !.listing = ProgramListing(codes, s.step), !.source = s.source]
================================================================================
