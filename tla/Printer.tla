-------------------------------- MODULE Printer --------------------------------
(***************************************************************************)
(* The PC-100 printer inside the TMC0501 (Core/TMC0501.cpp): a buffer the  *)
(* ROM fills from the right, the busy countdown of a line, and two output  *)
(* queues the frontend drains one after the other.  A printed line goes    *)
(* into the text queue at once; its dots follow in the code queue when the *)
(* line is finished or cut short.  "serial" numbers the lines: the queues  *)
(* hold the number in place of the characters.                             *)
(***************************************************************************)
EXTENDS Integers, Sequences

CONSTANTS
  PrnWidth,            \* 20 characters of the print buffer
  PrinterLineCycles,   \* kPrinterLineCycles: BUSY of a printed line
  PrinterFeedCycles,   \* kPrinterFeedCycles: BUSY of a paper feed
  PrinterRowCycles, PrinterRowStartCycles, PrinterColumnCycles,  \* one of 7 dot rows
  Mnemonic             \* PRN_STR: the three characters of a function code

ASSUME PrinterAssumption == PrinterLineCycles \in Nat \ {0} /\ PrinterFeedCycles \in Nat

Blank == 0
Smaller(a, b) == IF a < b THEN a ELSE b

PrinterAtStart ==
  [buf |-> [i \in 0..(PrnWidth - 1) |-> Blank], ptr |-> 0, ready |-> FALSE, busy |-> 0,
   pending |-> <<>>, lines |-> <<>>, codes |-> <<>>, serial |-> 0]

\* One character at the pointer, which wraps at the buffer's width only when
\* the next character comes.
Put(p, code) == LET slot == p.ptr % PrnWidth
                IN [p EXCEPT !.buf[slot] = code, !.ptr = slot + 1]

\* OUT PRT, PRT_STEP and OUT PRT_FUNC (stored last character first) do
\* nothing before the first PRT_CLEAR; an unknown function code never prints.
OutPrt(p, code) == IF p.ready THEN Put(p, code) ELSE p
PrtStep(p) == IF p.ready THEN Put(p, Blank) ELSE p
OutPrtFunc(p, code) ==
  IF p.ready /\ code \in DOMAIN Mnemonic
  THEN LET s == Mnemonic[code] IN Put(Put(Put(p, s[3]), s[2]), s[1])
  ELSE p
PrtClear(p) == [p EXCEPT !.buf = [i \in DOMAIN @ |-> Blank], !.ptr = 0, !.ready = TRUE]

\* flushPendingCodeLine(elapsed): the rows on paper, the columns of the row
\* under way that have fired, and how long the last of them was heated.
DotsAfter(elapsed) ==
  LET rows  == elapsed \div PrinterRowCycles
      fired == (elapsed % PrinterRowCycles) - PrinterRowStartCycles
      cols  == IF rows < 7 /\ fired >= 0 THEN Smaller(5, fired \div PrinterColumnCycles + 1) ELSE 0
  IN [rows |-> Smaller(7, rows), cols |-> cols,
      heat |-> IF cols = 0 THEN 0 ELSE Smaller(255, fired - (cols - 1) * PrinterColumnCycles)]
FlushPending(p, elapsed) ==
  IF p.pending = <<>> THEN p
  ELSE [p EXCEPT !.codes = Append(@, [line |-> p.pending[1], dots |-> DotsAfter(elapsed)]),
                 !.pending = <<>>]
FlushPendingIfActive(p) == FlushPending(p, PrinterLineCycles - p.busy)

\* Mutant of BusyTick: a finished line's dots are left behind.
BusyTickKeepsPending(p) == IF p.busy > 0 THEN [p EXCEPT !.busy = @ - 1] ELSE p
\* The countdown at the top of step(): the last cycle finishes the line.
BusyTick(p) ==
  IF p.busy = 0 THEN p
  ELSE LET q == [p EXCEPT !.busy = @ - 1]
       IN IF q.busy = 0 THEN FlushPending(q, PrinterLineCycles) ELSE q

\* PRT_PRINT during a line cuts that line short and prints nothing itself.
PrtPrint(p) ==
  IF ~p.ready THEN p
  ELSE IF p.busy > 0 /\ p.pending # <<>> THEN FlushPendingIfActive(p)
  ELSE [p EXCEPT !.pending = <<p.serial + 1>>, !.serial = @ + 1,
                 !.lines = Append(@, p.serial + 1), !.busy = PrinterLineCycles]
Prints(p) == p.ready /\ ~(p.busy > 0 /\ p.pending # <<>>)

NoDots == [rows |-> 0, cols |-> 0, heat |-> 0]
\* PRT_FEED: a blank line in both queues, after the line under way.
PrtFeed(p) ==
  LET q == FlushPendingIfActive(p)
  IN [q EXCEPT !.lines = Append(@, q.serial + 1), !.serial = @ + 1,
               !.codes = Append(@, [line |-> q.serial + 1, dots |-> NoDots]),
               !.busy = PrinterFeedCycles]

\* reset(): the buffer is emptied, a line under way is cut short, not lost.
PrinterReset(p) ==
  [FlushPendingIfActive([p EXCEPT !.buf = [i \in DOMAIN @ |-> Blank], !.ptr = 0, !.ready = FALSE])
     EXCEPT !.busy = 0]
================================================================================
