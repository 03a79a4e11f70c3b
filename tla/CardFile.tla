-------------------------------- MODULE CardFile --------------------------------
(***************************************************************************)
(* Card files (Shared/CardFile.cpp, Shared/Bcd.cpp) and the cards of       *)
(* presets.  A file is a sequence of lines, a line a record of its kind.   *)
(* A side is the bank the reader swipes: bytes 0 to 3 the header, eight    *)
(* bytes for each register, and the checksum twice.                        *)
(***************************************************************************)
EXTENDS CueCard, Models, Alu

BankBytes == 4 + 8 * BankRegs + 2          \* kCardBankBytes, 246
Sum1 == BankBytes - 2
Sum2 == BankBytes - 1
EmptySide == [i \in 0..(BankBytes - 1) |-> 0]

PageByteOfBank(bank) == 16 + (bank - 1) * 3
BankOfPageByte(b) == (b % 16) \div 3 + 1

(***************************************************************************)
(* A register line is eight bytes, the highest digit first; a card row has *)
(* them the other way round.                                               *)
(***************************************************************************)
EncodeRegisterLine(nib) == [k \in 0..7 |-> nib[14 - 2 * k] * 16 + nib[15 - 2 * k]]
DecodeRegisterLine(bytes) ==
  [i \in Pos |-> LET b == bytes[(15 - i) \div 2] IN IF i % 2 = 0 THEN b \div 16 ELSE b % 16]
Reversed(bytes) == [k \in 0..7 |-> bytes[7 - k]]

RowNibbles(side, row) ==
  [i \in Pos |-> LET b == side[4 + 8 * row + i \div 2] IN IF i % 2 = 0 THEN b \div 16 ELSE b % 16]
DecodeCardRow(bytes) ==
  LET nib == DecodeRegisterLine(Reversed(bytes)) IN [k \in 0..7 |-> nib[2 * k] * 16 + nib[2 * k + 1]]
WithRow(side, row, bytes) ==
  [i \in DOMAIN side |-> IF i \div 4 \in {1 + 2 * row, 2 + 2 * row} THEN bytes[i - 4 - 8 * row] ELSE side[i]]

(***************************************************************************)
(* Writing: a document has a version, a cue card or none, and two sides    *)
(* that may be blank (version 2) or what one side was read as (version 1:  *)
(* one bank, or the four of the oldest layout).                            *)
(***************************************************************************)
Word(k) == [k |-> k]
Head2(key, val) == [k |-> "head", key |-> key, val |-> val]
SideLines(side) ==
  <<Word("header"), Head2("partition", side[0]), Head2("datatype", IF side[1] = 17 THEN "program" ELSE "data"),
    Head2("bank", BankOfPageByte(side[2])), Head2("protection", IF side[3] = 16 THEN "yes" ELSE "no"),
    Head2("checksum", side[Sum1]), Word("data")>>
  \o [row \in 1..BankRegs |-> [k |-> "row", bytes |-> Reversed(EncodeRegisterLine(RowNibbles(side, row - 1)))]]
CueLines(cue) ==
  IF cue = <<>> THEN <<>>
  ELSE LET fields == EncodeCue(cue[1], "MagnetCard")
       IN <<Word("cuecard")>> \o [i \in DOMAIN fields |-> [k |-> "field", field |-> fields[i]]]

EncodeCardText(side, cue) == <<[k |-> "magic", version |-> 1]>> \o CueLines(cue) \o SideLines(side)
EncodeCardDocument(doc) ==
  IF doc.version = 1 THEN EncodeCardText(doc.single[0], doc.cue)
  ELSE LET cue == IF doc.cue = <<>> THEN <<>> ELSE <<[doc.cue[1] EXCEPT !.left = {}, !.right = {}]>>
           side(n) == IF doc.sides[n] = <<>> THEN <<>>
                      ELSE <<[k |-> "side", n |-> n + 1]>> \o SideLines(doc.sides[n][1])
       IN <<[k |-> "magic", version |-> 2]>> \o CueLines(cue) \o side(0) \o side(1) \o <<Word("end-card")>>

NoSides == [n \in {0, 1} |-> <<>>]
BlankDocument == [version |-> 2, cue |-> <<>>, sides |-> NoSides, single |-> [b \in {} |-> EmptySide]]
OneSide(banks, cue) == [BlankDocument EXCEPT !.version = 1, !.single = banks, !.cue = cue]

\* bank(): what a side puts into the reader.
BankOfSide(doc, side) ==
  CASE doc.version = 1 -> doc.single
    [] doc.version = 2 /\ doc.sides[side] = <<>> -> [b \in {} |-> EmptySide]
    [] doc.version = 2 /\ doc.sides[side] # <<>> -> [b \in {0} |-> doc.sides[side][1]]
SetBank(doc, side, bank) ==
  IF doc.version = 1 THEN [doc EXCEPT !.single = [b \in {0} |-> bank]] ELSE [doc EXCEPT !.sides[side] = <<bank>>]
SideBank(doc, side) == IF doc.sides[side] = <<>> THEN {} ELSE {BankOfPageByte(doc.sides[side][1][2])}
FreshCardCue(title) == [FreshCue EXCEPT !.template = "MagnetCard", !.text.title = title]

(***************************************************************************)
(* Reading: one header field, then a side line by line.  Values that do    *)
(* not parse are -1.                                                       *)
(***************************************************************************)
Sides == {"partition", "datatype", "bank", "protection", "checksum"}
Valid(f) == CASE f.key \in {"partition", "checksum"} -> f.val \in 0..255
              [] f.key = "bank" -> f.val \in 1..4
              [] f.key = "datatype" -> f.val \in {"program", "data"}
              [] f.key = "protection" -> f.val \in {"yes", "no"}
              [] OTHER -> FALSE
HeaderByte(side, f) ==
  CASE f.key = "partition"  -> [side EXCEPT ![0] = f.val]
    [] f.key = "datatype"   -> [side EXCEPT ![1] = IF f.val = "program" THEN 17 ELSE 16]
    [] f.key = "bank"       -> [side EXCEPT ![2] = PageByteOfBank(f.val)]
    [] f.key = "protection" -> [side EXCEPT ![3] = IF f.val = "yes" THEN 16 ELSE 0]
    [] f.key = "checksum"   -> [side EXCEPT ![Sum1] = f.val, ![Sum2] = f.val]
    [] OTHER                -> side

\* Version 1 is read leniently: what is missing has a default, rows beyond the
\* last are dropped, only unreadable values refuse the file.
AtV1 == [section |-> "none", side |-> [EmptySide EXCEPT ![1] = 17, ![2] = 16], cue |-> <<>>,
         hasHeader |-> FALSE, hasData |-> FALSE, row |-> 0, ok |-> TRUE]
LineV1(p, l) ==
  CASE l.k = "cuecard" -> [p EXCEPT !.section = "cuecard", !.cue = IF @ = <<>> THEN <<FreshCue>> ELSE @]
    [] l.k = "header"  -> [p EXCEPT !.section = "header"]
    [] l.k = "data"    -> [p EXCEPT !.section = "data", !.hasData = TRUE, !.row = 0]
    [] p.section = "cuecard" /\ l.k = "field" -> [p EXCEPT !.cue = <<ParseCueLine(@[1], l.field)>>]
    [] p.section = "header" /\ l.k = "head" ->
         IF Valid(l) \/ l.key \notin {"partition", "bank", "checksum"}
         THEN [p EXCEPT !.side = HeaderByte(@, l), !.hasHeader = @ \/ l.key = "partition"]
         ELSE [p EXCEPT !.ok = FALSE]
    [] p.section = "data" /\ l.k = "row" ->
         [p EXCEPT !.side = IF p.row < BankRegs THEN WithRow(@, p.row, DecodeCardRow(l.bytes)) ELSE @, !.row = @ + 1]
    [] p.section = "data" /\ l.k \notin {"row", "cuecard", "header", "data"} -> [p EXCEPT !.ok = FALSE]
    [] OTHER -> p
MagnetCue(cue) == IF cue = <<>> THEN <<>> ELSE <<[cue[1] EXCEPT !.template = "MagnetCard"]>>
ParseCardText(lines) ==
  LET p == FoldLeft(LineV1, AtV1, lines)
  IN IF p.ok /\ p.hasHeader /\ p.hasData THEN <<OneSide([b \in {0} |-> p.side], MagnetCue(p.cue))>> ELSE <<>>

\* Version 2 refuses anything incomplete, out of place or given twice.
AtV2 == [section |-> "none", doc |-> BlankDocument, n |-> 0, open |-> FALSE, side |-> EmptySide,
         seen |-> {}, rows |-> 0, ended |-> FALSE, ok |-> TRUE]
Refused(p) == [p EXCEPT !.ok = FALSE]
Complete(p) == p.seen = Sides /\ p.rows = BankRegs
SideDone(p) ==
  CASE ~p.open -> p
    [] p.open /\ Complete(p) -> [p EXCEPT !.doc.sides[p.n - 1] = <<p.side>>, !.open = FALSE]
    [] OTHER -> Refused(p)
OpenSide(p, n) ==
  IF n \notin {1, 2} \/ p.doc.sides[n - 1] # <<>> THEN Refused(p)
  ELSE [p EXCEPT !.n = n, !.open = TRUE, !.side = EmptySide, !.seen = {}, !.rows = 0, !.section = "side"]
LineV2(p, l) ==
  CASE p.ended \/ ~p.ok  -> p
    [] l.k = "end-card"  -> [SideDone(p) EXCEPT !.ended = TRUE]
    [] l.k = "cuecard"   -> IF p.open \/ p.doc.cue # <<>> THEN Refused(p)
                            ELSE [p EXCEPT !.section = "cuecard", !.doc.cue = <<FreshCue>>]
    [] l.k = "side"      -> IF SideDone(p).ok THEN OpenSide(SideDone(p), l.n) ELSE Refused(p)
    [] l.k = "header"    -> IF p.section = "side" THEN [p EXCEPT !.section = "header"] ELSE Refused(p)
    [] l.k = "data"      -> IF p.section = "header" THEN [p EXCEPT !.section = "data"] ELSE Refused(p)
    [] p.section = "cuecard" -> IF l.k = "field" THEN [p EXCEPT !.doc.cue = <<ParseCueLine(@[1], l.field)>>] ELSE p
    [] p.section = "header" /\ l.k = "head" /\ Valid(l) ->
         [p EXCEPT !.side = HeaderByte(@, l), !.seen = @ \cup {l.key}]
    [] p.section = "data" /\ l.k = "row" /\ p.rows < BankRegs ->
         [p EXCEPT !.side = WithRow(@, p.rows, DecodeCardRow(l.bytes)), !.rows = @ + 1]
    [] OTHER -> Refused(p)
ParseCardTextV2(lines) ==
  LET p == FoldLeft(LineV2, AtV2, lines)
  IN IF p.ok /\ p.ended THEN <<[p.doc EXCEPT !.cue = MagnetCue(@)]>> ELSE <<>>

\* decodeCardFile(): text of either version, or the bytes of one bank or four.
DecodeCardFile(raw) ==
  CASE raw.layout = "banks" -> <<OneSide(raw.banks, <<>>)>>
    [] raw.layout = "text" /\ raw.lines[1].version = 2 -> ParseCardTextV2(Tail(raw.lines))
    [] raw.layout = "text" /\ raw.lines[1].version = 1 -> ParseCardText(Tail(raw.lines))
    [] OTHER -> <<>>

(***************************************************************************)
(* buildCardBank(): a preset's CARD: block as the bank the ROM would have  *)
(* written: two digits for a step, units first; data registers count down  *)
(* from the last of the RAM.                                               *)
(***************************************************************************)
\* Mutant of StepDigit: the tens first.
TensFirst(code, i) == IF i % 2 = 0 THEN code \div 10 ELSE code % 10
StepDigit(code, i) == IF i % 2 = 0 THEN code % 10 ELSE code \div 10
BuildCardBank(card, programRegs) ==
  LET regs == IF card.partition = {} THEN programRegs
              ELSE ((CHOOSE p \in card.partition : TRUE) + 1) \div StepsPerReg
      first == BankRegs * (card.bank - 1)
      step(i, r) == LET s == {j \in DOMAIN card.steps :
                                /\ card.steps[j].addr \div StepsPerReg - first = r
                                /\ card.steps[j].addr % StepsPerReg = i \div 2}
                    IN IF s = {} THEN {} ELSE {card.steps[CHOOSE j \in s : \A o \in s : o <= j].code}
      data(r) == {j \in DOMAIN card.registers :
                    ~card.registers[j].hidden /\ RamSize - 1 - card.registers[j].num - first = r}
      last(s) == CHOOSE j \in s : \A o \in s : o <= j
      digit(r, i) == IF data(r) # {} THEN card.registers[last(data(r))].nibbles[i]
                     ELSE IF step(i, r) = {} THEN 0
                     ELSE StepDigit(CHOOSE c \in step(i, r) : TRUE, i)
      rows == [r \in 0..(BankRegs - 1) |-> [i \in Pos |-> digit(r, i)]]
      partition == regs \div PartitionUnit
      program == IF partition >= 3 * card.bank THEN 1 ELSE 0
      sum == partition + program + (card.bank - 1) * 3
             + FoldFunction(LAMBDA a, b : a + b, 0, [q \in (0..(BankRegs - 1)) \X Pos |-> rows[q[1]][q[2]]])
      head == [EmptySide EXCEPT ![0] = 16 + partition, ![1] = 16 + program, ![2] = PageByteOfBank(card.bank),
                                ![3] = IF card.protect THEN 16 ELSE 0, ![Sum1] = sum % 16, ![Sum2] = sum % 16]
      fill[r \in 0..BankRegs] == IF r = 0 THEN head ELSE WithRow(fill[r - 1], r - 1, EncodeRegisterLine(rows[r - 1]))
  IN fill[BankRegs]
================================================================================
