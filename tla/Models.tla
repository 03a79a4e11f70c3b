--------------------------------- MODULE Models ---------------------------------
(***************************************************************************)
(* The three calculators (Core/MachineVariant.hpp,                         *)
(* Shared/MachineModelInfo.hpp): memory sizes, peripherals and the ROM     *)
(* addresses that the session looks for.  RamSize stands for the 120       *)
(* registers of the chips, BankRegs for a quarter of them (a side of a     *)
(* card), and a partition's unit for a twelfth.                            *)
(***************************************************************************)
EXTENDS Integers

CONSTANTS
  RamSize,        \* RAM::TOTAL_REGS, 120
  IdleLoop,       \* ModelInfo::scanLoop
  WriteWait       \* ModelInfo::cardWait of the TI-59

Calculators == {"TI-59", "TI-58", "TI-58C"}

HasConstantMemory(d) == d = "TI-58C"
HasLargeMemory(d) == d = "TI-59"
HasCardReader(d) == d = "TI-59"

BankRegs == RamSize \div 4
PartitionUnit == RamSize \div 12
ExtraBase == RamSize \div 2          \* the TI-58C's H registers, raw RAM 60 to 63
ExtraRegs == (RamSize + 29) \div 30

\* Registers the RAM answers for (setLimit), and the highest program step.
RamLimit(d) == CASE d = "TI-59"  -> RamSize
                 [] d = "TI-58"  -> RamSize \div 2
                 [] d = "TI-58C" -> ExtraBase + ExtraRegs
StepsPerReg == 8
MaxStep(d) == (IF HasLargeMemory(d) THEN RamSize ELSE RamSize \div 2) * StepsPerReg - 1

\* Digits of the card switch and of the line that tells the ROM of a printer.
SwitchCol(d) == IF d = "TI-59" THEN 10 ELSE 7
PrinterCol(d) == IF HasConstantMemory(d) THEN 10 ELSE 0

CardWait(d) == IF HasCardReader(d) THEN WriteWait ELSE {}
================================================================================
