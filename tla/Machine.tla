-------------------------------- MODULE Machine --------------------------------
(***************************************************************************)
(* The machine (Core/TI59Machine.cpp) while the emulation thread steps it  *)
(* and the UI thread calls it.  Every call below takes m_keyMutex or one   *)
(* of the core's own locks, so each is one action; what the UI thread does *)
(* in two calls - FrameSampler::tick drains the printer's text, then its   *)
(* dots and the display - is two actions, and the machine steps between.   *)
(*                                                                         *)
(* A lab is a ROM with the registers it starts from, the calls the UI      *)
(* thread makes while it runs, how many, and the number of steps.  Its     *)
(* "answers" are what EXT must hold after the instruction at an address.   *)
(***************************************************************************)
EXTENDS TI59Machine, TraceWriter, RomHeatmap, AsmOverlay

CONSTANTS
  Labs,       \* records [name, rom, start, answers, calls, budget, steps]
  Keys,       \* <<row, column>> pairs the UI presses
  Media       \* what insertCard() is given: functions from banks to contents

\* A key closes one of five lines (kKBits in Shared/KeyMatrix.hpp); line 2
\* also carries the printer's switches, outside of the keyboard's nine rows.
ASSUME KeysAssumption ==
  /\ Keys \subseteq {1, 2, 3, 5, 6} \X Pos
  /\ \A k \in Keys : k[1] = 2 => k[2] \in 1..9

VARIABLES
  lab,        \* the lab that runs
  m,          \* the core: TMC0501 and RAM
  latch,      \* m_printerConnected, m_printerTrace
  paper,      \* the strip: SessionController's printer lines and code lines
  sampling,   \* the tick is between the two drains
  heat,       \* the CPU panel's heatmap
  file,       \* the session's trace files and the calls that write them, see below
  past        \* history: steps, calls, steps since the keys changed, pcs traced

vars == <<lab, m, latch, paper, sampling, heat, file, past>>

(***************************************************************************)
(* Labs and their bounds.                                                  *)
(***************************************************************************)
May(call) == past.calls < lab.budget /\ call \in lab.calls
Called == past' = [past EXCEPT !.calls = @ + 1]
KeysChanged == past' = [past EXCEPT !.calls = @ + 1, !.quiet = 0]
SettledAfter == 16       \* a pass of the digit counter
QuietFor(n) == Smaller(SettledAfter, n)

NoTraces ==
  [manual |-> NoFile, scripted |-> NoFile,       \* m_manualTrace, m_scriptedTrace
   panel |-> FALSE, asked |-> FALSE,             \* m_cpuPanelVisible, SessionController::m_manualTrace
   todo |-> [t \in {"ui", "script"} |-> <<>>],   \* what is left of each thread's call
   by |-> "nobody", batch |-> <<>>,              \* m_traceMutex's holder, m_drainBuf
   second |-> FALSE, limited |-> {}]             \* the scripted file is next; DrainResult

Init ==
  /\ \E l \in Labs : /\ lab = [field \in DOMAIN l \ {"start"} |-> l[field]]
                      /\ m = SetPrinterConnectedLine(SwitchPressed(l.start), FALSE)
  /\ latch = [connected |-> FALSE, trace |-> FALSE]
  /\ paper = [text |-> <<>>, codes |-> <<>>] /\ sampling = FALSE /\ heat = ColdHeatmap
  /\ file = NoTraces
  /\ past = [steps |-> 0, calls |-> 0, quiet |-> 0, pcs |-> <<>>]

Ran(n) == past' = [past EXCEPT !.steps = @ + n, !.quiet = QuietFor(@ + n),
                               !.pcs = IF m.trace = {} THEN @ ELSE Append(@, m.addr)]

\* step(): one instruction; a breakpoint hit is consumed.
MachineStep ==
  /\ past.steps < lab.steps
  /\ m' = [Step(m, lab.rom) EXCEPT !.hit = FALSE]
  /\ Ran(1)
  /\ UNCHANGED <<lab, latch, paper, sampling, heat, file>>

StepUntilNextKeycode(maxCycles) ==
  /\ May("keycode") /\ m.trace = {}
  /\ m' = UntilBoundary(m, lab.rom, maxCycles)
  /\ Called
  /\ UNCHANGED <<lab, latch, paper, sampling, heat, file>>

Reset ==
  /\ May("reset")
  /\ m' = MachineReset(m, latch)
  /\ KeysChanged
  /\ UNCHANGED <<lab, latch, paper, sampling, heat, file>>

PressKey(k)   == /\ May("keys") /\ m' = SetLine(m, k[2], k[1], TRUE) /\ KeysChanged
                 /\ UNCHANGED <<lab, latch, paper, sampling, heat, file>>
ReleaseKey(k) == /\ May("keys") /\ m' = SetLine(m, k[2], k[1], FALSE) /\ KeysChanged
                 /\ UNCHANGED <<lab, latch, paper, sampling, heat, file>>

InsertCard(data) ==
  /\ May("card")
  /\ m' = [SetLine(m, SwitchCol(m.model), 4, FALSE) EXCEPT !.card = InsertedCard(@, data)]
  /\ Called /\ UNCHANGED <<lab, latch, paper, sampling, heat, file>>
CardEject ==
  /\ May("card")
  /\ m' = [SwitchPressed(m) EXCEPT !.card = EjectedCard(@)]
  /\ Called /\ UNCHANGED <<lab, latch, paper, sampling, heat, file>>

\* Attaching or detaching the printer releases the TRACE latch.
SetPrinterConnected(on) ==
  /\ May("printer")
  /\ latch' = [connected |-> on, trace |-> FALSE]
  /\ m' = SetPrinterTraceLine(SetPrinterConnectedLine(m, on), FALSE)
  /\ KeysChanged /\ UNCHANGED <<lab, paper, sampling, heat, file>>
SetPrinterTrace(on) ==
  /\ May("printer")
  /\ latch' = [latch EXCEPT !.trace = on]
  /\ m' = SetPrinterTraceLine(m, on)
  /\ KeysChanged /\ UNCHANGED <<lab, paper, sampling, heat, file>>
PressPrinterKeys(on) ==
  /\ May("printer")
  /\ \/ m' = PressPrinterPrint(m, on)
     \/ m' = PressPrinterAdv(m, on)
  /\ KeysChanged /\ UNCHANGED <<lab, latch, paper, sampling, heat, file>>

\* Debugger: beginNextStep() prepares the view, setTraceFlags() and the
\* breakpoint list take effect with the next step.
BeginNext ==
  /\ May("begin")
  /\ m' = BeginNextStep(m, lab.rom)
  /\ Called /\ UNCHANGED <<lab, latch, paper, sampling, heat, file>>
SetTraceFlags(flags) ==
  /\ May("flags") /\ flags # m.trace
  /\ m' = [m EXCEPT !.trace = flags]
  /\ Called /\ UNCHANGED <<lab, latch, paper, sampling, heat, file>>
SetBreakpoints(pcs) ==
  /\ May("flags") /\ pcs # m.breaks
  /\ m' = [m EXCEPT !.breaks = pcs]
  /\ Called /\ UNCHANGED <<lab, latch, paper, sampling, heat, file>>
\* loadAsm(): a listing with an error leaves the overlay as it was.
LoadAsm(listing) ==
  /\ May("overlay") /\ m.trace = {}
  /\ LET words == ParseAsmWords(listing)
     IN m' = IF words = <<>> THEN m ELSE LoadDebugOverlay(m, words)
  /\ Called /\ UNCHANGED <<lab, latch, paper, sampling, heat, file>>
\* runAsmOverlay(): one job of the emulation thread, on the words loaded last.
RunAsm(maxCycles, maxSteps) ==
  /\ May("overlay") /\ m.trace = {} /\ m.overlay # NoOverlay
  /\ m' = BeginNextStep(Injected(UntilBoundary(m, lab.rom, maxCycles), lab.rom, Overlay, maxSteps), lab.rom)
  /\ Called /\ UNCHANGED <<lab, latch, paper, sampling, heat, file>>

(***************************************************************************)
(* The 60 Hz tick of the UI thread: FrameSampler::tick takes the text      *)
(* lines, then the dots and the display; SessionController::tick appends   *)
(* both to the strip and drains the trace.                                 *)
(***************************************************************************)
TickText ==
  /\ May("tick") /\ ~sampling
  /\ paper' = [paper EXCEPT !.text = @ \o m.prn.lines]
  /\ m' = [m EXCEPT !.prn.lines = <<>>]
  /\ sampling' = TRUE
  /\ UNCHANGED <<lab, latch, heat, file, past>>
TickCodes ==
  /\ sampling
  /\ paper' = [paper EXCEPT !.codes = @ \o m.prn.codes]
  /\ m' = [m EXCEPT !.prn.codes = <<>>, !.lcd = TakeDisplay(@)]
  /\ sampling' = FALSE
  /\ Called /\ UNCHANGED <<lab, latch, heat, file>>
\* Then DebugModel::tick: with the CPU panel shown, or in a freeze, which may
\* be between any two steps, the heatmap takes the frames it has not seen.
TickHeat ==
  /\ May("heat") /\ ~sampling /\ m.ring.head > 0
  /\ heat' = Ingested(heat, ReadFrames(m.ring))
  /\ Called /\ UNCHANGED <<lab, m, latch, paper, sampling, file>>
ClearHeatmap ==
  /\ May("heat") /\ heat # ColdHeatmap /\ heat' = ColdHeatmap
  /\ Called /\ UNCHANGED <<lab, m, latch, paper, sampling, file>>

CutPaper ==
  /\ May("cut") /\ ~sampling
  /\ paper' = [text |-> <<>>, codes |-> <<>>]
  /\ Called /\ UNCHANGED <<lab, m, latch, sampling, heat, file>>

(***************************************************************************)
(* The traces (EmulatorSession).  The UI thread opens and closes the       *)
(* manual file and drains the ring 60 times a second, the key sequencer's  *)
(* thread opens, switches and closes the scripted file; each drains before *)
(* it closes.  A drain holds m_traceMutex; the files' own calls, the flags *)
(* and the machine's steps come between any two of its steps.              *)
(***************************************************************************)
Owes(t, step) == file.todo[t] # <<>> /\ Head(file.todo[t]) = step
Left(t) == [file.todo EXCEPT ![t] = Tail(@)]
TraceCall(t, steps) ==
  /\ file.todo[t] = <<>> /\ file' = [file EXCEPT !.todo[t] = steps]
  /\ Called /\ UNCHANGED <<lab, m, latch, paper, sampling, heat>>
TraceDone == UNCHANGED <<lab, latch, paper, sampling, heat, past>>

\* Calls of the UI thread: tick(), setManualTrace(), setCpuPanelVisible(), pressKey().
TickTrace == /\ May("drain") /\ (file.manual.open \/ file.scripted.open)
             /\ TraceCall("ui", <<"drain", "tell">>)
SetManualTrace(on) ==
  /\ May("manual") /\ on # file.asked
  /\ IF on THEN TraceCall("ui", <<"openManual">>)
     ELSE /\ file.todo["ui"] = <<>>
          /\ file' = [file EXCEPT !.asked = FALSE,
                        !.todo["ui"] = IF file.manual.open THEN <<"drain", "closeManual", "flags">> ELSE <<>>]
          /\ Called /\ UNCHANGED <<lab, m, latch, paper, sampling, heat>>
\* setCpuDebugEnabled(): the counts start anew, but not in a freeze.
SetCpuPanelVisible(on) ==
  /\ May("panel") /\ file.todo["ui"] = <<>> /\ on # file.panel
  /\ file' = [file EXCEPT !.panel = on, !.todo["ui"] = <<"flags">>]
  /\ heat' \in IF on THEN {Baseline(ReadFrames(m.ring)), heat} ELSE {heat}
  /\ Called /\ UNCHANGED <<lab, m, latch, paper, sampling>>
TraceKey == /\ May("event") /\ file' = [file EXCEPT !.manual = WriteUserEvent(@)]
            /\ Called /\ UNCHANGED <<lab, m, latch, paper, sampling, heat>>
\* The sequencer's: a "Trace:" line with or without a file, the end of a script.
ScriptedTrace(on) ==
  /\ May("script")
  /\ TraceCall("script", (IF file.scripted.open THEN <<"drain", "closeScripted">> ELSE <<>>)
                         \o (IF on THEN <<"openScripted">> ELSE <<>>) \o <<"flags">>)

\* drainTrace(): the frames that fell out of the ring leave a gap; then one
\* item after the other goes to the manual and to the scripted file.
Drain(t) ==
  /\ Owes(t, "drain") /\ file.by = "nobody"
  /\ LET d == Drained(m.ring)
         gap == IF d.lost = 0 THEN <<>> ELSE <<Lost(d.lost)>>
     IN /\ file' = [file EXCEPT !.by = t, !.batch = gap \o [i \in DOMAIN d.frames |-> Traced(d.frames[i])],
                      !.limited = {}, !.todo[t] = <<"write">> \o Tail(@)]
        /\ m' = [m EXCEPT !.ring = d.ring]
  /\ TraceDone
Reached(name, item) == IF Limited(file[name], item) THEN {name} ELSE {}
WriteManual(t) ==
  /\ Owes(t, "write") /\ file.batch # <<>> /\ ~file.second
  /\ LET item == Head(file.batch)
     IN file' = IF item.gap = 0 /\ ~file.manual.open /\ ~file.scripted.open THEN [file EXCEPT !.batch = <<>>]
                ELSE [file EXCEPT !.manual = WriteItem(@, item), !.limited = @ \cup Reached("manual", item),
                                  !.second = item.gap # 0 \/ file.scripted.open,
                                  !.batch = IF item.gap # 0 \/ file.scripted.open THEN @ ELSE Tail(@)]
  /\ TraceDone /\ UNCHANGED m
WriteScripted(t) ==
  /\ Owes(t, "write") /\ file.second
  /\ LET item == Head(file.batch)
     IN file' = [file EXCEPT !.scripted = WriteItem(@, item), !.limited = @ \cup Reached("scripted", item),
                             !.second = FALSE, !.batch = Tail(@)]
  /\ TraceDone /\ UNCHANGED m
\* A file that closed itself may have been the last to need the trace.
WithFlags == [m EXCEPT !.trace = IF file.panel \/ file.manual.open \/ file.scripted.open THEN {"REGS"} ELSE {}]
DrainEnds(t) ==
  /\ Owes(t, "write") /\ file.batch = <<>>
  /\ m' = IF file.limited = {} THEN m ELSE WithFlags
  /\ file' = [file EXCEPT !.by = "nobody", !.todo = Left(t)]
  /\ TraceDone
\* tick() tells the user, and the switch goes off.  No other caller asks.
TellLimit == /\ Owes("ui", "tell")
             /\ file' = [file EXCEPT !.todo = Left("ui"), !.asked = @ /\ "manual" \notin file.limited]
             /\ TraceDone /\ UNCHANGED m
ApplyTraceFlags(t) == /\ Owes(t, "flags") /\ m' = WithFlags
                      /\ file' = [file EXCEPT !.todo = Left(t)] /\ TraceDone
CloseTrace(t) ==
  /\ \/ Owes(t, "closeManual") /\ file' = [file EXCEPT !.manual = CloseWriter(@), !.todo = Left(t)]
     \/ Owes(t, "closeScripted") /\ file' = [file EXCEPT !.scripted = CloseWriter(@), !.todo = Left(t)]
  /\ TraceDone /\ UNCHANGED m
\* open() may fail; setManualTrace() shows the switch on when it did not.
OpenTrace(t) ==
  /\ \/ Owes(t, "openManual") /\ \/ file' = [file EXCEPT !.manual = OpenWriter(@), !.todo[t] = <<"flags", "asked">>]
                                 \/ file' = [file EXCEPT !.todo[t] = <<"flags">>]
     \/ Owes(t, "openScripted") /\ \/ file' = [file EXCEPT !.scripted = OpenWriter(@), !.todo = Left(t)]
                                   \/ file' = [file EXCEPT !.todo = Left(t)]
     \/ Owes(t, "asked") /\ file' = [file EXCEPT !.asked = TRUE, !.todo = Left(t)]
  /\ TraceDone /\ UNCHANGED m
TraceCalls ==
  \/ TickTrace \/ TraceKey
  \/ \E on \in BOOLEAN : SetManualTrace(on) \/ SetCpuPanelVisible(on) \/ ScriptedTrace(on)
  \/ TellLimit
  \/ \E t \in {"ui", "script"} :
       Drain(t) \/ WriteManual(t) \/ WriteScripted(t) \/ DrainEnds(t) \/ ApplyTraceFlags(t) \/ CloseTrace(t) \/ OpenTrace(t)

Rest == past.steps = lab.steps /\ UNCHANGED vars

CONSTANTS EntrySteps,  \* steps runDebugOverlay() may take to the overlay's entry
          KeycodeBudget,
          Listings     \* ASM files
ASSUME BudgetAssumption == EntrySteps \in Nat /\ KeycodeBudget \in Nat

Calls ==
  \/ StepUntilNextKeycode(KeycodeBudget) \/ Reset
  \/ \E k \in Keys : PressKey(k) \/ ReleaseKey(k)
  \/ \E d \in Media : InsertCard(d)
  \/ CardEject
  \/ \E on \in BOOLEAN : SetPrinterConnected(on) \/ SetPrinterTrace(on) \/ PressPrinterKeys(on)
  \/ BeginNext \/ RunAsm(KeycodeBudget, EntrySteps)
  \/ \E l \in Listings : LoadAsm(l)
  \/ \E f \in {{}, {"REGS"}, {"REGS", "BREAKPOINTS"}} : SetTraceFlags(f)
  \/ \E b \in {{}, {1}} : SetBreakpoints(b)
  \/ TickText \/ TickCodes \/ TickHeat \/ ClearHeatmap \/ CutPaper \/ TraceCalls
Next == MachineStep \/ Calls \/ Rest

Spec == Init /\ [][Next]_vars

--------------------------------------------------------------------------------
(***************************************************************************)
(* Properties.                                                             *)
(***************************************************************************)
MachineStepped == past'.steps = past.steps + 1
Pending == Opcode(m, lab.rom, m.addr)

(***************************************************************************)
(* Arithmetic: on decimal operands an ALU opcode leaves the sum, the       *)
(* difference or the shifted number of its field, whatever the field, and  *)
(* COND tells the carry out of it.                                         *)
(***************************************************************************)
PlainAlu(op) == /\ ~IsBranch(op) /\ op[2] \notin {0, 8, 10}
                /\ Destination(op) # "-" /\ AluIndex(op) \notin {26, 27, 30, 31}
AluIsDecimal ==
  [][ LET n == Prepared(m, lab.rom)
          o == Operands(n, Pending)
          f == MaskInfo(Pending[2])
      IN MachineStepped /\ PlainAlu(Pending) /\ Has(n, "COND") /\ DecimalOperands(o.x, o.y, f, o.mode)
         => IsDecimal(o.x, o.y, f, o.mode,
                      [dst |-> m'.reg[Destination(Pending)], overflow |-> ~Has(m', "COND")]) ]_vars

(***************************************************************************)
(* Keyboard: a sweep (KEY after WAIT D0) that ran while the keys kept      *)
(* still has found the first row of the sweep with exactly one key down,   *)
(* and goes on with COND raised only if there is none.                     *)
(***************************************************************************)
SweepFindsKey ==
  [][ LET row(i) == Down(m.key, i, Selected(Pending))
          first == CHOOSE i \in Pos : row(i) # {} /\ \A j \in Pos : j > i => row(j) = {}
          swept == /\ MachineStepped /\ m.addr > 0 /\ past.quiet >= 15
                   /\ Opcode(m, lab.rom, m.addr - 1) = <<0, 10, 0, 0>>
                   /\ ~IsBranch(Pending) /\ Pending[2] = 8 /\ Pending[4] < 8
                   /\ ~Has(m', "HOLD")
      IN swept => IF \A i \in Pos : row(i) = {}
                  THEN Has(m', "COND")
                  ELSE ~Has(m', "COND") /\ m'.KR = 16 * first + 256 * CHOOSE k \in row(first) : TRUE ]_vars

(***************************************************************************)
(* Memory: what a program stores - into SCOM, through RAM_OP or MEMWR - is *)
(* what it recalls, with other opcodes and other callers in between, and   *)
(* no deferred operation is left over when it is done.                     *)
(***************************************************************************)
DeferredFlags == {"STORE", "RECALL", "RAM_OP", "RAM_WRITE", "RAM_READ"}
StoredIsRecalled ==
  lab.name = "memory" /\ m.addr \notin DOMAIN lab.rom
  => m.reg["B"] = m.reg["C"] /\ m.flags \cap DeferredFlags = {}

\* Library pointer: four digits written come back in the order they were
\* written, whatever was read or written halfway before.
LibraryRoundTrip ==
  [][ MachineStepped /\ m.addr \in DOMAIN lab.answers => m'.EXT = 16 * lab.answers[m.addr] ]_vars

(***************************************************************************)
(* Display: once the registers have been shown for a whole pass of the     *)
(* digit counter, the places the circuit has darkened one strobe at a time *)
(* are those of the number as a whole, and a poll that covers a pass       *)
(* reports just those that are lit.                                        *)
(***************************************************************************)
LitPlaces(A, B, r5) == {i \in Places \ DarkPlaces(A, B, r5) : B[i + 2] \in {0, 1, 5, 6, 8, 9}}
DigitsShown ==
  lab.name = "display" /\ past.steps >= SettledAfter /\ Has(m, "IDLE")
  => LET dark == DarkPlaces(m.reg["A"], m.reg["B"], m.R5)
         lit == LitPlaces(m.reg["A"], m.reg["B"], m.R5)
     IN /\ m.lcd.suppressed = dark
        /\ m.lcd.pollSteps >= 16 * StepWeight(m) => {i \in Places : m.lcd.lit[i] > 0} = lit

(***************************************************************************)
(* Paper: the code line next to a text line is that line's own, however    *)
(* prints, feeds, resets and the two halves of the tick interleave.  A cut *)
(* or a preset empties both lists while the core may owe one of them a     *)
(* line, and a calculator that is switched away takes what it owes with    *)
(* it; what that does is not the machine's, and labs with these calls are  *)
(* left out.                                                               *)
(***************************************************************************)
PaperAligned ==
  lab.calls \cap {"cut", "load", "model"} = {} =>
  \A i \in DOMAIN paper.text \cap DOMAIN paper.codes : paper.codes[i].line = paper.text[i]

(***************************************************************************)
(* Trace: in either file the frames follow each other without a hole but   *)
(* the gaps it counts, whichever thread drained, switched files or closed  *)
(* one in between, a finished frame tells of the instruction it numbers,   *)
(* the end counts the frames, and while a file is open and no call is      *)
(* under way the machine is traced.  The heatmap, which reads the ring     *)
(* again at every tick, counts an instruction once.                        *)
(***************************************************************************)
TraceAccounted ==
  /\ \A w \in {file.manual, file.scripted} :
       /\ Contiguous(w) /\ EndsWell(w)
       /\ \A i \in FramesAt(w) : LET f == w.records[i].frame IN f.post => f.pc = past.pcs[f.seqno + 1]
  /\ lab.name = "trace" /\ (\A t \in {"ui", "script"} : file.todo[t] = <<>>)
     => (m.trace # {} <=> file.panel \/ file.manual.open \/ file.scripted.open)
  /\ \A pc \in DOMAIN heat.counts : heat.counts[pc] <= Cardinality({n \in 1..heat.last : past.pcs[n + 1] = pc})

\* Debugger: beginNextStep() called at a freeze changes nothing of what the
\* step that follows does, however often it is called.
Peeked == past'.calls = past.calls + 1 /\ past'.quiet = past.quiet /\ m' = BeginNextStep(m, lab.rom)
PeekInvisible == [][ Peeked => Step(m', lab.rom) = Step(m, lab.rom) ]_vars

(***************************************************************************)
(* Lines of the key matrix that are no keys: the card switch tells the ROM *)
(* that no card is in, whoever took the card out - the ROM at the end of a *)
(* pass, an eject or a reset -, the printer's lines show its latches, and  *)
(* no card is awaited that is in.                                          *)
(***************************************************************************)
PhysicalLines ==
  /\ m.card.present <=> 4 \notin m.key[SwitchCol(m.model)]
  /\ m.card.present => ~m.card.waiting
  /\ latch.trace <=> 2 \in m.key[15]
  /\ latch.connected <=> 2 \in m.key[PrinterCol(m.model)]
================================================================================
