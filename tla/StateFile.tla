-------------------------------- MODULE StateFile --------------------------------
(***************************************************************************)
(* State files, the presets (Shared/StateFile.cpp): a line is a record of  *)
(* its kind, a number that does not parse is -1 and a register's value     *)
(* that does not parse is <<>>.  Every line is one its section takes: what *)
(* the parser makes of a register line under PROGRAM: is left out.         *)
(***************************************************************************)
EXTENDS CardFile

CONSTANT Never       \* a number no partition, bank or address is

(***************************************************************************)
(* Lines of the sections.                                                  *)
(***************************************************************************)
\* parseProgLine(): a position and one keycode, or keycodes alone.
HasPosition(l, maxStep) == l.prefix # Never /\ l.prefix \in 0..maxStep
ListedCodes(l, maxStep) ==
  LET codes == SelectSeq(l.codes, LAMBDA c : c \in 0..99)
  IN IF HasPosition(l, maxStep) THEN (IF l.codes # <<>> /\ l.codes[1] \in 0..99 THEN <<l.codes[1]>> ELSE <<>>) ELSE codes

\* parseRegLine(): R00 to R99, or H00 to H03 where the file is a TI-58C's.
RegisterError(l, allowHidden) ==
  CASE l.hidden /\ l.num \in 0..3 /\ ~allowHidden -> <<"hidden">>
    [] l.num \in (IF l.hidden THEN 0..3 ELSE 0..99) /\ (l.hidden => allowHidden) /\ l.value = <<>> -> <<"value">>
    [] OTHER -> <<>>
RegisterValues(l, allowHidden) ==
  IF l.num \in (IF l.hidden THEN 0..3 ELSE 0..99) /\ (l.hidden => allowHidden) /\ l.value # <<>>
  THEN <<[num |-> l.num, hidden |-> l.hidden, nibbles |-> l.value[1]]>> ELSE <<>>

\* parsePartition(): the last step of the smallest unit that holds it, or none.
PartitionSteps == PartitionUnit * StepsPerReg
ParsePartition(last) ==
  IF last = Never THEN {}
  ELSE LET fits == {n \in 1..12 : n * PartitionSteps > last}
       IN {(IF fits = {} THEN 12 ELSE CHOOSE n \in fits : \A o \in fits : n <= o) * PartitionSteps - 1}

\* parseKeystrokeLine(), parseCardDirective(), parseControl() and the other
\* directives: an event of the script, or an error.
MatrixCodes(l) == SelectSeq(l.codes, LAMBDA c : c \in 11..95)
KeyEvents(l) == [i \in DOMAIN MatrixCodes(l) |-> [kind |-> "Key", code |-> MatrixCodes(l)[i]]]
CardEvent(l) == [kind |-> l.kind, card |-> l.card, side |-> IF l.side = Never THEN 0 ELSE l.side, definition |-> <<>>]
Names(card) == card[1] \in {"mem", "file"} /\ card[2] # ""      \* <<"mem", key>>, <<"file", name>>
ValidCard(l) == /\ Names(l.card)
                /\ l.card[1] = "file" => l.side \in {Never, 0, 1}
ScriptEvents(l) ==
  CASE l.k = "keys"      -> KeyEvents(l)
    [] l.k = "card-in"   -> IF ValidCard(l) THEN <<CardEvent(l)>> ELSE <<>>
    [] l.k = "directive" -> IF l.valid THEN <<[kind |-> l.kind]>> ELSE <<>>
    [] OTHER             -> <<>>
ScriptErrors(l) ==
  CASE l.k = "keys" -> IF \E i \in DOMAIN l.codes : l.codes[i] = 99 THEN <<"key 99">> ELSE <<>>
    [] l.k = "card-in" /\ ~ValidCard(l) -> <<"card name">>
    [] l.k = "directive" /\ ~l.valid -> <<"directive">>
    [] OTHER -> <<>>

(***************************************************************************)
(* finishCard(): what of a CARD: block lies in its bank.                   *)
(***************************************************************************)
StepInBank(step, bank) == step \div (StepsPerReg * BankRegs) = bank - 1
RegisterInBank(reg, bank) == reg \in (RamSize - BankRegs * bank)..(RamSize - BankRegs * (bank - 1) - 1)
FreshCard(name) == [name |-> name, bank |-> 0, protect |-> FALSE, partition |-> {}, steps |-> <<>>, registers |-> <<>>,
                    cue |-> <<>>]
CardError(c) ==
  CASE ~(c.name[1] = "mem" /\ Names(c.name)) -> <<"card name">>
    [] c.bank = 0 -> <<"no bank">>
    [] \E i \in DOMAIN c.steps : ~StepInBank(c.steps[i].addr, c.bank) -> <<"step">>
    [] \E i \in DOMAIN c.registers : ~RegisterInBank(c.registers[i].num, c.bank) -> <<"register">>
    [] OTHER -> <<>>
Usable(c) == c.name[1] = "mem" /\ Names(c.name) /\ c.bank # 0
FinishCard(c) ==
  [c EXCEPT !.steps = SelectSeq(@, LAMBDA s : StepInBank(s.addr, c.bank)),
            !.registers = SelectSeq(@, LAMBDA g : RegisterInBank(g.num, c.bank))]

(***************************************************************************)
(* parseStateFile(): one line.  p.card is the open CARD: block, p.stage    *)
(* the open reload, the last of r.stages.                                  *)
(***************************************************************************)
NoContents == [partition |-> {}, steps |-> <<>>, registers |-> <<>>, cue |-> <<>>]
NothingLoaded == [contents |-> NoContents, explicit |-> FALSE, keystrokes |-> <<>>, stages |-> <<>>, module |-> <<>>,
                  printer |-> {}, model |-> {}, usesCardReader |-> FALSE, errors |-> <<>>]
AtStart == [r |-> NothingLoaded, section |-> "none", step |-> 0, afterKeys |-> FALSE, stage |-> FALSE,
            card |-> <<>>, cards |-> [key \in {} |-> FreshCard("")], before |-> [section |-> "none", step |-> 0]]

Wrong(p, what) == [p EXCEPT !.r.errors = @ \o what]

\* closeCard(): what the block interrupted goes on.
\* Mutant of CloseCard: the listing goes on where the block's own ended.
CloseCardKeepsStep(p) ==
  LET c == p.card[1]
      kept == IF ~Usable(c) THEN p.cards
              ELSE [key \in DOMAIN p.cards \cup {c.name[2]} |-> IF key = c.name[2] THEN FinishCard(c) ELSE p.cards[key]]
  IN [Wrong(p, CardError(c)) EXCEPT !.card = <<>>, !.cards = kept, !.section = p.before.section]
CloseCard(p) ==
  LET c == p.card[1]
      kept == IF ~Usable(c) THEN p.cards
              ELSE [key \in DOMAIN p.cards \cup {c.name[2]} |-> IF key = c.name[2] THEN FinishCard(c) ELSE p.cards[key]]
      twice == Usable(c) /\ c.name[2] \in DOMAIN p.cards
  IN [Wrong(p, CardError(c) \o (IF twice THEN <<"twice">> ELSE <<>>)) EXCEPT
        !.card = <<>>, !.cards = kept, !.section = p.before.section, !.step = p.before.step]
Unclosed(p) == IF p.card = <<>> THEN p ELSE CloseCard(Wrong(p, <<"no END-CARD">>))

OpenCard(p, name) ==
  [p EXCEPT !.before = [section |-> p.section, step |-> p.step], !.section = "none", !.card = <<FreshCard(name)>>,
            !.r.usesCardReader = TRUE]

\* reloadStage(): the first section after KEYSTROKES: opens a stage.
Staged(p) ==
  IF ~p.afterKeys \/ p.stage THEN p
  ELSE [p EXCEPT !.stage = TRUE, !.step = 0, !.r.stages = Append(@, NoContents),
                 !.r.keystrokes = Append(@, [kind |-> "Reload", stage |-> Len(p.r.stages) + 1])]

\* Where the lines of a section go: the card, the stage, or the file itself.
Contents(p) == CASE p.card # <<>> -> p.card[1]
                 [] p.card = <<>> /\ p.stage -> p.r.stages[Len(p.r.stages)]
                 [] OTHER -> p.r.contents
Filed(p, contents) == CASE p.card # <<>> -> [p EXCEPT !.card = <<contents>>]
                      [] p.card = <<>> /\ p.stage -> [p EXCEPT !.r.stages[Len(p.r.stages)] = contents]
                      [] OTHER -> [p EXCEPT !.r.contents = contents]

Anywhere == {"module", "printer", "skip-reset", "model"}
Directive(p, l) ==
  CASE l.k = "module"     -> [p EXCEPT !.r.module = <<l.id>>]
    [] l.k = "printer"    -> [p EXCEPT !.r.printer = {l.on}]
    [] l.k = "skip-reset" -> Wrong(p, <<"skip-reset">>)
    [] l.k = "model"      -> IF l.name \in Calculators THEN [p EXCEPT !.r.model = {l.name}] ELSE Wrong(p, <<"model">>)

\* Inside CARD: ... END-CARD.
InCard(p, l) ==
  CASE l.k = "bank"      -> IF l.n \in 1..4 THEN [p EXCEPT !.card[1].bank = l.n] ELSE Wrong(p, <<"bank">>)
    [] l.k = "protected" -> [p EXCEPT !.card[1].protect = l.on]
    [] l.k = "partition" -> LET q == [p EXCEPT !.card[1].partition = ParsePartition(l.last)]
                            IN IF l.last = Never THEN Wrong(q, <<"partition">>) ELSE q
    [] l.k = "program"   -> [p EXCEPT !.section = "program",
                               !.step = IF p.card[1].bank = 0 THEN 0 ELSE StepsPerReg * BankRegs * (p.card[1].bank - 1)]
    [] l.k = "registers" -> [p EXCEPT !.section = "registers"]
    [] l.k = "cuecard"   -> [p EXCEPT !.section = "cuecard", !.card[1].cue = <<FreshCue>>]

Header(p, l) ==
  CASE l.k = "partition" ->
         LET q == [Staged(p) EXCEPT !.section = "partition"]
             given == IF ParsePartition(l.last) = {} THEN q
                      ELSE Filed(q, [Contents(q) EXCEPT !.partition = ParsePartition(l.last)])
         IN IF q.stage THEN given ELSE [given EXCEPT !.r.explicit = TRUE]
    [] l.k = "program"   -> [Staged(p) EXCEPT !.section = "program"]
    [] l.k = "registers" -> [Staged(p) EXCEPT !.section = "registers"]
    [] l.k = "cuecard"   -> LET q == [Staged(p) EXCEPT !.section = "cuecard"]
                            IN Filed(q, [Contents(q) EXCEPT !.cue = <<FreshCue>>])

SectionLine(p, l, maxStep, allowHidden) ==
  CASE p.section = "program" /\ l.k = "codes" ->
         LET codes == ListedCodes(l, maxStep)
             first == IF HasPosition(l, maxStep) THEN l.prefix ELSE p.step
             listed == [i \in DOMAIN codes |-> [addr |-> first + i - 1, code |-> codes[i]]]
         IN [Filed(p, [Contents(p) EXCEPT !.steps = @ \o listed]) EXCEPT !.step = first + Len(codes)]
    [] p.section = "registers" /\ l.k = "register" ->
         LET hidden == allowHidden /\ p.card = <<>>
         IN Wrong(Filed(p, [Contents(p) EXCEPT !.registers = @ \o RegisterValues(l, hidden)]), RegisterError(l, hidden))
    [] p.section = "cuecard" /\ l.k = "field" -> Filed(p, [Contents(p) EXCEPT !.cue = <<ParseCueLine(@[1], l.field)>>])
    [] p.section = "keystrokes" ->
         Wrong([p EXCEPT !.r.keystrokes = @ \o ScriptEvents(l),
                         !.r.usesCardReader = @ \/ (l.k = "card-in" /\ ValidCard(l))], ScriptErrors(l))
    [] OTHER -> p

CardHeads == {"bank", "protected", "partition", "program", "registers", "cuecard"}
Line(p, l, maxStep, allowHidden) ==
  CASE l.k \in Anywhere    -> Directive(p, l)
    [] l.k = "end-card"    -> IF p.card = <<>> THEN Wrong(p, <<"END-CARD">>) ELSE CloseCard(p)
    [] l.k = "card"        -> OpenCard(Unclosed(p), l.name)
    [] l.k = "keystrokes"  -> [Unclosed(p) EXCEPT !.afterKeys = TRUE, !.stage = FALSE, !.section = "keystrokes"]
    [] p.card # <<>> /\ l.k \in CardHeads -> InCard(p, l)
    [] p.card # <<>> /\ l.k \notin CardHeads /\ p.section = "none" -> Wrong(p, <<"unexpected">>)
    [] p.card = <<>> /\ l.k \in CardHeads \ {"bank", "protected"} -> Header(p, l)
    [] OTHER               -> SectionLine(p, l, maxStep, allowHidden)

\* The blocks, wherever they stand, go to the directives that name them.
Attached(e, cards) ==
  IF e.kind \in {"ArmCard", "InsertCard"} /\ e.card[1] = "mem" /\ e.card[2] \in DOMAIN cards
  THEN [e EXCEPT !.definition = <<cards[e.card[2]]>>] ELSE e
ParseStateFile(lines, maxStep, allowHidden) ==
  LET line(p, l) == Line(p, l, maxStep, allowHidden)
      p == Unclosed(FoldLeft(line, AtStart, lines))
  IN [p.r EXCEPT !.keystrokes = [i \in DOMAIN @ |-> Attached(@[i], p.cards)]]

\* stateFileModel(): the last MODEL: line counts, an unknown one names the current model.
StateFileModel(lines, current) ==
  FoldLeft(LAMBDA m, l : CASE l.k # "model" -> m
                           [] l.k = "model" /\ l.name \in Calculators -> l.name
                           [] OTHER -> current, current, lines)
================================================================================
