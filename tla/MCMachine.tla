------------------------------- MODULE MCMachine -------------------------------
(* Labs of the machine runs: short ROMs around one part of the core each.   *)
(* Sizes are small: a ring of 3 frames, banks of 4 nibbles, 3 print columns *)
(* and lines of 5 steps stand for 1024, 246, 20 and 4165.                   *)
EXTENDS Desk

MCConstants == [r \in 0..63 |-> [i \in Pos |-> (r + 7 * i) % 10]]
MCMnemonic == [c \in {13} |-> <<4, 5, 6>>]
MCIdleLoop == {2}
MCWriteWait == {5}
\* Images of three words and two rows of constants, and one that is damaged.
MCRomFiles == [d \in Calculators |-> IF d = "TI-58C" THEN <<"c1", "c2">> ELSE <<"a1", "a2">>]
MCConstFiles == [d \in Calculators |-> <<"k">>]
RomRow(words) == [k |-> "row", words |-> words]
MCTexts ==
  [f \in {"a1", "a2", "c1", "c2", "k"} |->
     CASE f = "a1" -> <<RomRow(<<0>>), [k |-> "rule"], RomRow(<<1, 5>>)>>
       [] f = "a2" -> <<[k |-> "rule"], RomRow(<<9>>)>>
       [] f = "c1" -> <<[k |-> "rule"], RomRow(<<2>>), [k |-> "title"], RomRow(<<3>>)>>
       [] f = "c2" -> <<[k |-> "rule"], RomRow(<<4>>)>>
       [] f = "k"  -> <<RomRow(Zeros), [k |-> "numbers"], RomRow([i \in 1..16 |-> i - 1]), RomRow(<<1>>),
                        RomRow([i \in 1..16 |-> 15]), [k |-> "rule"], RomRow([i \in 1..16 |-> 7])>>]
Damaged(f, texts) ==
  CASE f = "a1" -> [texts EXCEPT ![f] = <<@[2], RomRow(<<7, 5>>)>>]
    [] f = "a2" -> [n \in DOMAIN texts \ {f} |-> texts[n]]
    [] f = "c2" -> [texts EXCEPT ![f] = Append(@, RomRow(<<NoNumber>>))]
    [] f = "k"  -> [texts EXCEPT ![f] = SubSeq(@, 1, 3)]
MCKeys == {<<1, 0>>, <<1, 15>>, <<3, 7>>}
MCMedia == {[b \in {} |-> NoBank], [b \in {0} |-> [i \in 0..(BankSize - 1) |-> i + 1]],
            [b \in Banks |-> [i \in 0..(BankSize - 1) |-> IF i = 2 THEN 3 * b ELSE 7]]}

\* Opcodes.
Op(hi, mid, lo) == <<0, hi, mid, lo>>
AluCode(mask, idx, dst) == Op(mask, idx \div 2, 8 * (idx % 2) + dst)
Jump(cond, offset, back) == <<1, IF cond THEN 8 ELSE 0, offset \div 8, 2 * (offset % 8) + back>>
Nop == Op(0, 15, 2)                                    \* CLR fA[15]
IOfromA == AluCode(1, 0, 1)
IOfromC == AluCode(1, 4, 1)
IOfromD == AluCode(1, 6, 1)
RecallToB == AluCode(1, 26, 3)

Rom(words) == [a \in 0..(Len(words) - 1) |-> words[a + 1]]
Digits(f) == [i \in Pos |-> IF i \in DOMAIN f THEN f[i] ELSE 0]
All(d) == [i \in Pos |-> d]
NoAnswers == [a \in {} |-> 0]
NoDesk == [folder |-> [p \in {} |-> Absent], changes |-> {}, script |-> <<>>, presets |-> {}, failing |-> FALSE,
           module |-> "", texts |-> MCTexts, program |-> <<>>]
Lab(name, words, start, calls, budget, steps) ==
  [desk |-> NoDesk, name |-> name, rom |-> Rom(words), start |-> start, answers |-> NoAnswers,
   calls |-> calls, budget |-> budget, steps |-> steps]
With(a, b, c, d) == [PoweredOn EXCEPT !.reg = [@ EXCEPT !["A"] = a, !["B"] = b, !["C"] = c, !["D"] = d]]

\* One ALU opcode: every decimal field, operation and pair of operands.
Numbers == {All(0), All(9), [i \in Pos |-> (3 * i + 2) % 10], [i \in Pos |-> IF i = 3 THEN 1 ELSE 0]}
Arithmetic ==
  {Lab("alu", <<AluCode(f, idx, 0)>>, [With(x, y, x, y) EXCEPT !.KR = 16], {}, 0, 1) :
     f \in {5, 6, 7, 9, 11, 12, 13, 14, 15}, idx \in (0..25) \cup {28, 29},
     x \in Numbers, y \in Numbers}

\* With the card switch among the lines (8, 0, 0) and, as the ROM does it, without.
Keyboard == {Lab("keyboard", <<Op(10, 0, 0), scan, Jump(TRUE, 2, 1), Jump(FALSE, 3, 1)>>,
                 [PoweredOn EXCEPT !.digit = 1], {"keys"}, 2, 40) : scan \in {Op(8, 0, 0), Op(8, 2, 0)}}

\* A names the register on the bus, C is what is stored, D reads it back.
Value == [i \in Pos |-> (i + 3) % 10]
Sto == Op(10, 0, 15)
Rcl == Op(10, 1, 15)
RamOpcode == Op(10, 15, 8)
Memory ==
  {Lab("memory", words, With(a, Zeros, Value, d), {"begin", "keys"}, 1, 9) :
     words \in {<<IOfromA, Sto, IOfromC, IOfromA, Rcl, RecallToB>>,
               <<IOfromA, Sto, Nop, IOfromC, IOfromA, Rcl, Nop, RecallToB>>,
               <<RamOpcode, IOfromA, IOfromC, RamOpcode, IOfromD, RecallToB>>,
               <<RamOpcode, IOfromA, Nop, IOfromC, RamOpcode, Nop, IOfromD, RecallToB>>},
     a \in {Digits([i \in {0, 2} |-> IF i = 0 THEN 1 ELSE 5])},
     d \in {Digits([i \in {2} |-> 5])}}
  \cup {Lab("memory", <<IOfromA, Op(10, 7, 6), IOfromC, IOfromA, Op(10, 8, 6), RecallToB>>,
           With(Digits([i \in {0} |-> 9]), Zeros, Value, Zeros), {"begin"}, 1, 8)}

\* The pointer: read digits "first", then write 1 2 3 4 and read all four.
Write(d) == <<Op(10, d, 7), Op(10, 1, 8), Op(10, 1, 14)>>
ReadDigit == Op(10, 2, 14)
LibLab(first) ==
  LET words == [i \in 1..first |-> ReadDigit] \o Write(1) \o Write(2) \o Write(3) \o Write(4)
               \o [i \in 1..5 |-> ReadDigit] \o <<Op(10, 0, 14), Op(10, 3, 14)>>
  IN [Lab("library", words, [PoweredOn EXCEPT !.lib = <<33, 52>>], {"begin"}, 1, first + 20) EXCEPT
        !.answers = [a \in (first + 12)..(first + 16) |-> ((a - first - 12) % 4) + 1]]
Library == {LibLab(n) : n \in 0..3}

\* A number on the display: SET IDL, then a loop.  The circuit is left as the
\* number before it left it, past a digit that is not zero.
Controls == {0, 3, 4, 8}
Display1(a, b, r5) ==
  Lab("display", <<Op(10, 0, 9), Jump(TRUE, 0, 0)>>, [With(a, b, Zeros, Zeros) EXCEPT !.R5 = r5, !.lcd.running = FALSE],
      {"tick"}, 1, 38)
Displayed ==
  {Display1(All(0), All(c), r5) : c \in Controls, r5 \in {0, 2, 5}}
  \cup {Display1(Digits([i \in {p, 13} |-> IF i = p THEN 7 ELSE 0]), All(c), r5) :
           p \in {3, 8, 13}, c \in Controls, r5 \in {0, 6}}
  \cup {Display1([i \in Pos |-> i % 2], Digits([i \in {9} |-> c]), 0) : c \in Controls}

\* The printer: a line, a second one that may come too early, feeds.
Clr == Op(10, 8, 8)
LineOut == Op(10, 10, 8)
Feed == Op(10, 11, 8)
Char == Op(10, 6, 8)
Busy == <<Op(10, 0, 11), Jump(FALSE, 1, 1)>>
Printed(calls, budget) ==
  {Lab("printer", words, PoweredOn, calls, budget, 20) :
     words \in {<<LineOut, Clr, Char, LineOut, Feed, Op(10, 7, 8), Op(10, 9, 8), LineOut, Feed, Feed>>,
               <<Clr, LineOut, LineOut, Feed, LineOut>> \o Busy \o <<LineOut, Feed>>}}
Printing == Printed({"tick"}, 2) \cup Printed({"reset"}, 2) \cup Printed({"cut"}, 1)
Switches == {Lab("lines", <<Jump(TRUE, 0, 0)>>, [PoweredOn EXCEPT !.model = d], {"printer", "reset"}, 3, 3) :
               d \in Calculators}

\* The trace: a loop of three instructions, a ring that overflows.
Looping == <<Nop, Op(0, 1, 1), Jump(TRUE, 2, 1)>>
Tracing == {Lab("trace", Looping, PoweredOn, {"manual", "script", "drain"}, 4, 3),
            Lab("trace", Looping, PoweredOn, {"manual", "script", "panel", "event", "drain"}, 3, 4),
            Lab("trace", Looping, PoweredOn, {"manual", "begin", "drain"}, 4, 5),
            Lab("trace", Looping, PoweredOn, {"panel", "heat"}, 4, 5)}

\* The card reader: wait for a card, read, write.
Cards == {Lab("cards", <<Op(10, 11, 0), Op(10, 0, 11), Op(10, 5, 8), Op(10, 2, 8), Op(10, 0, 12), Op(10, 4, 8),
                         Op(10, 12, 8), Op(10, 3, 8), Op(10, 3, 8), Op(10, 4, 8), Op(10, 0, 3)>>,
              PoweredOn, {"card", "reset"}, 3, 30)}

\* Step to a keycode, flag operations, a subroutine through KR and SR, and
\* the debug overlay entered from a keyboard loop.
Keycodes == {Lab("keycodes", [i \in 1..16 |-> Op(0, i - 1, i - 1)] \o
                             <<Op(10, 0, 4), Op(10, 3, 5), Op(10, 0, 6), Op(10, 1, 6), Op(10, 0, 2), Op(10, 0, 10),
                               Op(0, 1, 5), Op(10, 0, 13), Op(10, 0, 1)>>,
                 [PoweredOn EXCEPT !.R5 = 9, !.KR = 320], {"keycode", "flags", "begin"}, 2, 30)}
\* An ASM file: a branch back to its entry; one too long, one cut short, one empty.
Token(prefixed, digits) == [k |-> "token", prefixed |-> prefixed, digits |-> digits]
Hex == [k |-> "hex"]
MCListings == {<<Token(TRUE, <<1, 1, 1, 1>>), Hex, Token(TRUE, <<0, 0, 15, 2, 3, 8, 0, 3>>), Token(FALSE, <<1, 2>>)>>,
               <<Hex, Token(FALSE, [i \in 1..16 |-> 0])>>, <<Hex, Token(TRUE, <<1, 2>>)>>,
               <<Token(FALSE, <<0, 0, 15, 2>>)>>}
Overlays == {Lab("overlay", <<Op(10, 0, 0), Op(8, 0, 0), Jump(TRUE, 2, 1), Jump(FALSE, 3, 1)>>,
                 PoweredOn, {"overlay", "keys"}, 3, 12)}

(***************************************************************************)
(* Desks.  The ROM waits for a card in its idle loop or, from address 3,   *)
(* where a write waits, and writes bank 2 onto it.                         *)
(***************************************************************************)
Writes == <<Op(10, 11, 0), Op(10, 0, 11), Jump(FALSE, 2, 1), Op(10, 11, 0), Op(10, 0, 11), Jump(FALSE, 2, 1),
            Op(10, 12, 8), Op(10, 3, 8), Op(10, 3, 8), Op(10, 0, 4), Op(10, 0, 4), Op(10, 0, 4), Op(10, 3, 8),
            Op(10, 4, 8), Op(10, 0, 7), Op(10, 1, 8), Jump(TRUE, 16, 1)>>
BankBytesOf(b, fill) == [i \in 0..(BankBytes - 1) |->
                           CASE i = 0 -> 22 [] i = 1 -> 17 [] i = 2 -> PageByteOfBank(b) [] i = 3 -> 0
                             [] i \in {Sum1, Sum2} -> 5 [] OTHER -> fill]
Document(left, right) == [BlankDocument EXCEPT !.sides = [n \in {0, 1} |-> IF n = 0 THEN left ELSE right]]
CardText(doc) == [layout |-> "text", lines |-> EncodeCardDocument(doc)]
TwoSided == CardText(Document(<<BankBytesOf(1, 1)>>, <<BankBytesOf(2, 2)>>))
OneSided == CardText(OneSide([b \in {0} |-> BankBytesOf(3, 4)], <<FreshCardCue("old")>>))
ChangedText == CardText([Document(<<>>, <<BankBytesOf(4, 3)>>) EXCEPT !.cue = <<FreshCardCue("new")>>])
Truncated == [TwoSided EXCEPT !.lines = SubSeq(@, 1, 14)]
Banked == [layout |-> "banks", banks |-> [b \in {0} |-> BankBytesOf(2, 7)]]
Unreadable == [layout |-> "unreadable"]
At(raw) == [p \in {"f"} |-> raw]
WritingStart(pc) == [PoweredOn EXCEPT !.addr = pc, !.digit = 13, !.KR = 256]

Fitting ==
  {[Lab("fitting", Writes, WritingStart(3), {"frame", "fit", "blank", "feed", "eject", "file"}, 3, 20) EXCEPT
      !.desk = [NoDesk EXCEPT !.folder = At(raw), !.changes = {ChangedText, Truncated, Unreadable, Absent}, !.failing = TRUE]] :
     raw \in {TwoSided, OneSided, Banked}}
\* A script: a memory card where a write waits, a file, the memory card again.
Definition == [FreshCard(<<"mem", "a">>) EXCEPT !.bank = 2, !.partition = {39}, !.steps = <<[addr |-> 25, code |-> 61]>>,
                 !.registers = <<[num |-> 6, hidden |-> FALSE, nibbles |-> Value]>>,
                 !.cue = <<[FreshCue EXCEPT !.text.title = "a"]>>]
CardIn_(kind, card, side, def) == [kind |-> kind, card |-> card, side |-> side, definition |-> def]
Refill(card) == [kind |-> "Reload", stage |-> [NoContents EXCEPT !.steps = <<[addr |-> 1, code |-> 5]>>, !.cue = card]]
Scripted(script, raw, steps) ==
  [Lab("scripted", Writes, WritingStart(3), {"frame", "eject"}, 1, steps) EXCEPT
     !.desk = [NoDesk EXCEPT !.folder = [p \in {"f", "g"} |-> IF p = "f" THEN raw ELSE Absent], !.script = script]]
Scripts ==
  {Scripted(<<CardIn_("ArmCard", <<"mem", "a">>, 0, <<Definition>>), CardIn_("InsertCard", <<"mem", "a">>, 0, <<Definition>>),
              Refill(<<>>)>>, Absent, 60),
   Scripted(<<CardIn_("ArmCard", <<"file", "g">>, 1, <<>>), Refill(<<FreshCardCue("new")>>)>>, Absent, 40),
   Scripted(<<CardIn_("ArmCard", <<"file", "f">>, 1, <<>>), CardIn_("InsertCard", <<"mem", "b">>, 0, <<>>)>>, TwoSided, 40),
   Scripted(<<CardIn_("ArmCard", <<"file", "f">>, 1, <<>>)>>, Unreadable, 20)}

\* Presets: a listing with a CARD: block in its middle, and every error.
Sec(k) == [k |-> k]
CodesAt(step, codes) == [k |-> "codes", prefix |-> step, codes |-> codes]
Part(step) == [k |-> "partition", last |-> step]
RegLine(num, value) == [k |-> "register", num |-> num, hidden |-> FALSE, value |-> value]
HidLine(num, value) == [k |-> "register", num |-> num, hidden |-> TRUE, value |-> value]
CardHead(name, bank) == <<[k |-> "card", name |-> name], [k |-> "bank", n |-> bank]>>
CueField(key, value) == [k |-> "field", field |-> Key(key, value)]
InsertLine(kind, card, side) == [k |-> "card-in", kind |-> kind, card |-> card, side |-> side]
Block == CardHead(<<"mem", "a">>, 2)
         \o <<[k |-> "protected", on |-> TRUE], Part(30), Sec("program"), CodesAt(Never, <<61, 7>>), CodesAt(33, <<44, 1>>),
              Sec("registers"), RegLine(6, <<Value>>), Sec("cuecard"), CueField("title", "a"), CueField("A", "x"), Sec("end-card")>>
Listing ==
  <<[k |-> "module", id |-> "m"], [k |-> "printer", on |-> TRUE], Part(40), Sec("program"), CodesAt(Never, <<42, 11>>)>>
  \o Block \o <<CodesAt(Never, <<91, 100, 20>>), CodesAt(20, <<33>>), Sec("registers"), RegLine(3, <<Value>>),
               Sec("cuecard"), CueField("title", "p"), CueField("style", "button"), CueField("row1align", "right"),
               Sec("keystrokes"), [k |-> "keys", codes |-> <<71, 10>>],
               InsertLine("InsertCard", <<"mem", "a">>, Never), Sec("program"), CodesAt(2, <<5>>), Part(20), Sec("registers"),
               RegLine(1, <<Value>>), Sec("keystrokes"), [k |-> "directive", kind |-> "CutPaper", valid |-> TRUE],
               Sec("program"), CodesAt(95, <<6>>), Part(95)>>
Wrongs ==
  <<[k |-> "model", name |-> "TI-60"], Sec("skip-reset"), Sec("end-card"), RegLine(1, <<Value>>)>>
  \o CardHead(<<"mem", "a">>, 5) \o <<RegLine(1, <<Value>>), Part(Never), Sec("registers"), HidLine(1, <<Value>>), Sec("end-card")>>
  \o CardHead(<<"file", "x">>, 1) \o CardHead(<<"mem", "a">>, 1) \o <<Sec("program"), CodesAt(30, <<1>>), Sec("registers"),
     RegLine(0, <<Value>>), Sec("end-card")>>
  \o CardHead(<<"mem", "a">>, 4) \o <<Sec("program"), CodesAt(80, <<1>>)>>
  \o <<Sec("keystrokes"), [k |-> "keys", codes |-> <<99, 71>>], [k |-> "directive", kind |-> "Freeze", valid |-> FALSE],
       InsertLine("ArmCard", <<"mem", "">>, 0), InsertLine("ArmCard", <<"file", "f">>, 2), InsertLine("InsertCard", <<"mem", "a">>, 0),
       Sec("registers"), RegLine(1, <<>>), HidLine(0, <<Value>>), HidLine(4, <<Value>>)>>
TooLarge == <<Part(90), Sec("program"), CodesAt(Never, <<1>>)>>

\* The start clears the RAM (not the TI-58C's), a breakpoint at 1 cuts it short.
Boots(d) == LET clears == IF HasConstantMemory(d) THEN <<Nop, Nop>> ELSE <<RamOpcode, IOfromA>>
            IN <<Op(10, 2, 7), Jump(TRUE, 2, 0), Jump(TRUE, 0, 0), AluCode(1, 30, 0)>> \o clears \o <<Jump(TRUE, 4, 1)>>
Boot(d, presets, calls) ==
  [Lab("boot", Boots(d), [PoweredOn EXCEPT !.model = d, !.trace = {"BREAKPOINTS"}, !.breaks = {1}], calls, 2, 4) EXCEPT
     !.desk = [NoDesk EXCEPT !.presets = presets]]
Booting == {Boot("TI-59", {Listing}, {"frame", "load", "restart"}), Boot("TI-59", {Wrongs}, {"load", "clean"}),
            Boot("TI-58", {Listing, TooLarge}, {"load", "restart"}), Boot("TI-58C", {Listing, Wrongs}, {"load", "clean"})}

\* Constant memory: the ROM stores C and D in turn.
Storing == <<IOfromA, Op(10, 7, 6), IOfromC, IOfromA, Op(10, 7, 6), IOfromD, Jump(TRUE, 6, 1)>>
Remembering(d, calls, budget) ==
  [Lab("constant", Storing, [With(Digits([i \in {0} |-> 2]), Zeros, Value, Zeros) EXCEPT !.model = d], calls, budget, 10) EXCEPT
     !.desk = [NoDesk EXCEPT !.presets = {<<[k |-> "model", name |-> "TI-58C"], Sec("cuecard"), CueField("title", "p")>>}]]
Constant == {Remembering("TI-58C", {"frame", "suspend"}, 1), Remembering("TI-58C", {"model", "restart", "clean"}, 2),
             Remembering("TI-59", {"model", "load"}, 2)}
\* A calculator whose images are damaged: the one before it goes on.
Failing == {[Remembering("TI-58C", {"model"}, 2) EXCEPT !.steps = 4, !.desk.texts = Damaged(f, @)] : f \in {"a1", "a2"}}
           \cup {[Remembering("TI-59", {"model", "load"}, 1) EXCEPT !.steps = 4, !.desk.texts = Damaged(f, @)] : f \in {"c2", "k"}}

\* Cue cards: a library program's, the module's, the fitted card's.  "ML" has
\* a card for program 1, "BD" none; the dump of "UN" is missing.
MCCatalogue ==
  <<[k |-> "title", text |-> "none"], [k |-> "id", text |-> "UN"], [k |-> "rom", file |-> "lost"],
    [k |-> "id", text |-> "ML"], [k |-> "title", text |-> "Master Library"], [k |-> "rom", file |-> "master"],
    [k |-> "menuSort", n |-> <<2>>], [k |-> "field", field |-> Key("title", "stray")],
    [k |-> "cuecard", n |-> 1], [k |-> "field", field |-> Key("title", "diagnostic")],
    [k |-> "field", field |-> Key("A", "x")], [k |-> "cuecard", n |-> 3],
    [k |-> "id", text |-> "BD"], [k |-> "menuSort", n |-> <<>>], [k |-> "menuTitle", text |-> "Business"], [k |-> "rom", file |-> "business"],
    [k |-> "id", text |-> ""], [k |-> "cuecard", n |-> 1]>>
Row(addr, bytes) == [k |-> "row", addr |-> addr, bytes |-> bytes]
MCDumps == [f \in {"master", "business", "empty"} |->
            CASE f = "master"   -> <<Row(0, <<9>>), [k |-> "rule"], Row(0, <<1, 0, 0, 6>>), Row(5, <<9, BadByte, 66, 18, 145>>)>>
              [] f = "business" -> <<[k |-> "rule"], Row(0, <<2, 0, 0, 9, 0, 8, 0, 8>>)>>
              [] f = "empty"    -> <<Row(0, <<1>>)>>]
MCModuleIds == {"", "XX", "UN", "ML", "BD", "m"}
WithModule(l, id) == [l EXCEPT !.desk.module = id, !.start.lib = ImageOf[id]]
Scom9(program) == [PoweredOn EXCEPT !.SCOM[9][3] = program]
Fetching == <<Op(10, 3, 14), Op(10, 0, 14), Jump(TRUE, 2, 1)>>
Showing ==
  {WithModule([Lab("cues", <<Jump(TRUE, 0, 0)>>, Scom9(n), {"frame", "fit", "blank", "restart", "load"}, 3, 2) EXCEPT
                  !.desk = [NoDesk EXCEPT !.folder = At(raw), !.presets = {<<Sec("cuecard"), CueField("title", "p")>>}]], "ML") :
     n \in {0, 1, 2}, raw \in {TwoSided, OneSided}}
  \cup {WithModule([Lab("modules", Fetching, Scom9(n), calls, 2, 4) EXCEPT
                       !.desk = [NoDesk EXCEPT !.presets = {<<[k |-> "module", id |-> "BD"], Sec("cuecard"), CueField("title", "p")>>}]], id) :
           n \in {0, 1}, id \in {"ML", "XX"}, calls \in {{"frame", "module", "load"}, {"module", "model"}}}
\* The panel: a byte of program 1 of ML is fetched and dispatched, with every
\* source of steps, and X as a result, as the entry of a number, as neither.
Operand == [i \in Pos |-> IF i = 0 THEN 12 ELSE i % 10]
Viewed(flag, x) ==
  WithModule([Lab("live", <<>>, [x EXCEPT !.addr = 12, !.libAddr = 7, !.SCOM[9][3] = flag % 3, !.SCOM[9][0] = 2, !.SCOM[0][3] = flag,
                                         !.SCOM[0][11] = 3, !.SCOM[15][2] = 5, !.SCOM[13][0] = 12, !.ram[0] = Value, !.ram[4] = Value],
                 {"live", "module"}, 2, 3) EXCEPT
                !.rom = [a \in {12, 13, 20} |-> CASE a = 12 -> Op(10, 0, 14) [] a = 13 -> Jump(TRUE, 7, 0) [] a = 20 -> Jump(TRUE, 10, 0)]], "ML")
Viewing == {Viewed(flag, x) : flag \in {0, 1, 2, 4, 8},
              x \in {[With(Operand, Zeros, Operand, Zeros) EXCEPT !.fB = 32], With(Operand, Zeros, Value, Zeros),
                     [With(Value, Value, Value, Zeros) EXCEPT !.fA = 2048 + 768, !.fB = 128]}}
\* Programs of one and two instructions, in RAM: INV SBR is one of its own.
Instruction(codes, numbers) == [codes |-> codes, numbers |-> numbers]
Destinations == {Instruction(<<1, 23>>, {0, 1}), Instruction(<<40, 25>>, {1}), Instruction(<<13>>, {}), Instruction(<<42>>, {})}
FlagNumbers == {Instruction(<<3>>, {0}), Instruction(<<40, 12>>, {1})}
Then(a, b) == Instruction(a.codes \o b.codes, a.numbers \cup {Len(a.codes) + k : k \in b.numbers})
Instructions ==
  {Instruction(<<5>>, {}), Instruction(<<22>>, {}), Instruction(<<22, 71>>, {}), Instruction(<<27, 71>>, {}), Instruction(<<76, 13>>, {}),
   Instruction(<<42, 71>>, {1}), Instruction(<<86, 40>>, {1}), Instruction(<<22, 43, 22>>, {2})}
  \cup {Then(Instruction(<<c>>, {}), d) : c \in {61, 71}, d \in Destinations}
  \cup {Then(Instruction(<<c>>, {}), Then(n, d)) : c \in {87, 97}, n \in FlagNumbers, d \in Destinations}
Programs == {<<i>> : i \in Instructions} \cup {p \in Instructions \X Instructions : p[1].codes # <<22>> \/ p[2].codes[1] # 71}
Codes(program) == FlattenSeq([i \in DOMAIN program |-> program[i].codes])
InRam(codes) == [r \in 0..(RamSize - 1) |-> [i \in Pos |-> LET a == 8 * r + i \div 2 + 1
                                                         IN CASE a > Len(codes) -> 0 [] a <= Len(codes) /\ i % 2 = 0 -> codes[a] % 10
                                                              [] OTHER -> codes[a] \div 10]]
OfProgram(program) == [Lab("listing", <<>>, [PoweredOn EXCEPT !.SCOM[9][0] = 2, !.ram = InRam(Codes(program))], {}, 0, 0) EXCEPT
                        !.desk = [NoDesk EXCEPT !.program = program]]
Listing_ == {OfProgram(program) : program \in Programs}

CoreLabs == Arithmetic \cup Keyboard \cup Memory \cup Library \cup Displayed \cup Printing \cup Switches
               \cup Tracing \cup Cards \cup Keycodes \cup Overlays
DeskLabs == Fitting \cup Scripts \cup Booting \cup Constant \cup Failing \cup Showing \cup Viewing \cup Listing_
MachineLabs == CoreLabs \cup DeskLabs
LosingLabs == Scripts
================================================================================
