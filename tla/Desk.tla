---------------------------------- MODULE Desk ----------------------------------
(***************************************************************************)
(* SessionController around the machine: cards fitted, fed and written,    *)
(* the cards and reloads of a script, presets, resets and the TI-58C's     *)
(* memory file.  The UI thread runs one call at a time; ui holds the steps *)
(* of it that are left, and the machine steps between any two of them.     *)
(*                                                                         *)
(* A lab's desk says which files there are, which another application may  *)
(* put in their place, which presets can be loaded and the script.         *)
(***************************************************************************)
EXTENDS Machine, StateApplier, RomLoader, CalcPanel

CONSTANTS
  Catalogue,  \* m_cuecards: the catalogue's lines
  Dumps,      \* the modules' ROM files: name -> lines
  ModuleIds   \* names that the settings, the menu or a preset give

VARIABLES
  fitted,     \* m_fitted: <<>> or <<[path, doc, fresh]>>
  pass,       \* m_pass: <<>> or <<[side, queued, key]>>; key "": the fitted card's
  memory,     \* m_memoryCards: a bank and a cue card for each key
  folder,     \* the card folder: what is at each path
  queue,      \* [cards, inReader, script, waits, posted]: the session's side
  saved,      \* [text, last, dirty, midBatch, due]: the TI-58C's memory file
  cue,        \* [user, preset, program, module, cards, shown]
  running,    \* not suspended
  panel,      \* DebugModel's CALCULATOR panel
  ui,         \* steps of the UI thread's call that are left
  kept        \* history: [written, reported, adopted, ram]

deskVars == <<fitted, pass, memory, folder, queue, saved, cue, running, panel, ui, kept>>

Do(what) == <<[do |-> what]>>
UiIdle == ui = <<>> /\ ~sampling
Doing(what) == ui # <<>> /\ Head(ui).do = what
Done == ui' = Tail(ui)

\* What loadModule() and moduleCards() make of the files, for each name.
ImageOf == [id \in ModuleIds |->
              LET name == ModuleRomFile(Catalogue, id)
              IN IF name = <<>> \/ name[1] \notin DOMAIN Dumps THEN <<>> ELSE ParseModule(Dumps[name[1]])]
CardsOf == [id \in ModuleIds |-> ModuleCards(Catalogue, id)]

\* A lab starts from a machine that is whole, with no key down, no card in the
\* reader and an empty printer, and with the library of its desk's module.  The
\* reader is called by the frames of a desk or by itself, never by both.
ASSUME LabAssumption ==
  \A l \in Labs :
    /\ {"calls", "desk"} \subseteq DOMAIN l
    /\ DOMAIN PoweredOn \subseteq DOMAIN l.start /\ l.start.model \in Calculators
    /\ l.start.ring = RingAtStart /\ l.start.key = PoweredOn.key /\ l.start.card = ReaderAtStart /\ l.start.prn = PrinterAtStart
    /\ l.desk.module # "" => l.start.lib = ImageOf[l.desk.module]
    /\ ~({"card", "frame"} \subseteq l.calls)
\* What parsing a preset can give: the PRINTER line is a std::optional<bool>,
\* the model one of the three.
ASSUME PresetAssumption ==
  \A l \in Labs : \A lines \in l.desk.presets : \A d \in Calculators :
    /\ StateFileModel(lines, d) \in Calculators
    /\ LET r == ParseStateFile(lines, MaxStep(d), HasConstantMemory(d))
       IN "printer" \in DOMAIN r /\ r.printer \subseteq BOOLEAN
ModuleMenu == AllModuleMetadata(Catalogue)

(***************************************************************************)
(* The cue card on show: refreshCueCard().                                 *)
(***************************************************************************)
FittedCue(f) ==
  LET c == [(IF f.doc.cue = <<>> THEN FreshCardCue(f.path) ELSE f.doc.cue[1]) EXCEPT !.template = "MagnetCard"]
  IN IF f.doc.version = 1 THEN c
     ELSE [c EXCEPT !.left = SideBank(f.doc, 0), !.right = SideBank(f.doc, 1)]
UserOrFitted(c, f) == IF f = <<>> THEN c.user ELSE <<FittedCue(f[1])>>
CueOf(c, f) == ResolveCueCard(c.program, c.cards.cards, c.cards.info, UserOrFitted(c, f))
Refreshed(c, f) == [c EXCEPT !.shown = CueOf(c, f)]

(***************************************************************************)
(* The reader.                                                             *)
(***************************************************************************)
Inserted(data) == [SetLine(m, SwitchCol(m.model), 4, FALSE) EXCEPT !.card = InsertedCard(@, data)]
StartSwipe(data, p) ==
  /\ pass' = <<p>> /\ m' = Inserted(data)
  /\ kept' = [kept EXCEPT !.written = <<>>, !.reported = FALSE, !.adopted = FALSE]
CanFit == HasCardReader(m.model) /\ pass = <<>>
Decoded(raw) == IF raw.layout \in {"absent", "unreadable"} THEN <<>> ELSE DecodeCardFile(raw)
Absent == [layout |-> "absent"]
Card(path, doc, fresh) == <<[path |-> path, doc |-> doc, fresh |-> fresh]>>

UiCall(call) == UiIdle /\ May(call) /\ Called

\* fitCard(): a file that cannot be read or decoded leaves what is fitted.
FitCard(path) ==
  /\ UiCall("fit") /\ CanFit /\ folder[path] # Absent
  /\ LET doc == Decoded(folder[path])
     IN IF doc = <<>> THEN UNCHANGED <<fitted, cue>>
        ELSE fitted' = Card(path, doc[1], FALSE) /\ cue' = Refreshed(cue, fitted')
  /\ UNCHANGED <<panel, lab, m, latch, paper, sampling, heat, file, pass, memory, folder, queue, saved, running, ui, kept>>
FitBlankCard(path) ==
  /\ UiCall("blank") /\ CanFit
  /\ fitted' = Card(path, [BlankDocument EXCEPT !.cue = <<FreshCardCue(path)>>], TRUE)
  /\ cue' = Refreshed(cue, fitted')
  /\ UNCHANGED <<panel, lab, m, latch, paper, sampling, heat, file, pass, memory, folder, queue, saved, running, ui, kept>>
FeedSide(side) ==
  /\ UiCall("feed") /\ fitted # <<>> /\ pass = <<>>
  /\ StartSwipe(BankOfSide(fitted[1].doc, side), [side |-> side, queued |-> FALSE, key |-> ""])
  /\ UNCHANGED <<panel, lab, latch, paper, sampling, heat, file, fitted, memory, folder, queue, saved, cue, running, ui>>
PressEject ==
  /\ UiCall("eject") /\ ui' = Do("eject")
  /\ UNCHANGED <<panel, lab, m, latch, paper, sampling, heat, file, fitted, pass, memory, folder, queue, saved, cue, running, kept>>

\* writeFittedSide(): the document the bank goes into - the file as it is now,
\* unless the card is fresh or the file is gone -, or <<>> with an error.
\* Mutant of Written: the side goes into the document as it was fitted.
WrittenAsFitted(f, side, bank, queued) ==
  LET doc == SetBank(f.doc, side, bank)
  IN <<IF queued /\ cue.preset # <<>> THEN [doc EXCEPT !.cue = cue.preset] ELSE doc>>
Written(f, side, bank, queued) ==
  LET raw == folder[f.path]
      docs == IF f.fresh \/ raw = Absent THEN <<f.doc>> ELSE Decoded(raw)
      doc == SetBank(docs[1], side, bank)
  IN IF docs = <<>> THEN <<>>
     ELSE <<IF queued /\ cue.preset # <<>> THEN [doc EXCEPT !.cue = cue.preset] ELSE doc>>

HostDone(q) == [q EXCEPT !.waits = IF @ = 0 THEN 0 ELSE @ - 1]
QueuedCardDone(q) == IF q.inReader THEN HostDone([q EXCEPT !.inReader = FALSE]) ELSE q

\* ejectCard(): once for each pass; the platform may fail to write the file.
NothingWritten == UNCHANGED <<memory, folder, fitted, cue, kept>>
WriteBack(p, bank) ==
  CASE p.key # "" ->
         /\ memory' = [k \in DOMAIN memory \cup {p.key} |-> IF k = p.key THEN [bank |-> bank, cue |-> cue.user] ELSE memory[k]]
         /\ UNCHANGED <<folder, fitted, cue, kept>>
    [] p.key = "" /\ fitted # <<>> ->
         LET f == fitted[1]
             doc == Written(f, p.side, bank, p.queued)
         IN /\ \/ /\ doc # <<>>
                  /\ folder' = [folder EXCEPT ![f.path] = [layout |-> "text", lines |-> EncodeCardDocument(doc[1])]]
                  /\ fitted' = Card(f.path, doc[1], FALSE) /\ cue' = Refreshed(cue, fitted')
                  /\ UNCHANGED kept
               \/ /\ doc = <<>> \/ lab.desk.failing
                  /\ kept' = [kept EXCEPT !.reported = TRUE]
                  /\ UNCHANGED <<folder, fitted, cue>>
            /\ UNCHANGED memory
    [] OTHER -> NothingWritten
\* Mutant of EjectCard: the core is only told if it has written a bank.
EjectOnlyWritten ==
  /\ Doing("eject") /\ Done /\ pass' = <<>>
  /\ IF pass = <<>> \/ EjectedBank(m.card) = <<>> THEN UNCHANGED m /\ NothingWritten
     ELSE m' = [SwitchPressed(m) EXCEPT !.card = EjectedCard(@)] /\ WriteBack(pass[1], EjectedBank(m.card)[1])
  /\ queue' = QueuedCardDone(queue)
  /\ UNCHANGED <<panel, lab, latch, paper, sampling, heat, file, past, saved, running>>
EjectCard ==
  /\ Doing("eject") /\ Done
  /\ IF pass = <<>> THEN UNCHANGED <<m, pass, queue>> /\ NothingWritten
     ELSE /\ m' = [SwitchPressed(m) EXCEPT !.card = EjectedCard(@)]
          /\ pass' = <<>>
          /\ IF EjectedBank(m.card) = <<>> THEN NothingWritten ELSE WriteBack(pass[1], EjectedBank(m.card)[1])
          /\ queue' = QueuedCardDone(queue)
  /\ UNCHANGED <<panel, lab, latch, paper, sampling, heat, file, past, saved, running>>

(***************************************************************************)
(* tick(): the reader, then the queued cards, the memory file and the      *)
(* library program on the cue card.                                        *)
(***************************************************************************)
Frame ==
  /\ UiIdle /\ "frame" \in lab.calls
  /\ ui' = Do("sample") \o Do("look") \o Do("save") \o Do("program")
  /\ UNCHANGED <<panel, vars, fitted, pass, memory, folder, queue, saved, cue, running, kept>>
Sample ==
  /\ Doing("sample")
  /\ ui' = (IF pass # <<>> /\ ~m.card.present THEN Do("eject") ELSE <<>>) \o Tail(ui)
  /\ UNCHANGED <<panel, vars, fitted, pass, memory, folder, queue, saved, cue, running, kept>>

\* takeQueuedCard(): the PC is read first, the card wait and the queue after it.
Look ==
  /\ Doing("look")
  /\ ui' = (IF pass = <<>> THEN <<[do |-> "take", pc |-> m.addr]>> ELSE <<>>) \o Tail(ui)
  /\ UNCHANGED <<panel, vars, fitted, pass, memory, folder, queue, saved, cue, running, kept>>
Wanted(pc) == CASE pc \in IdleLoop -> "InsertCard"
                [] pc \notin IdleLoop /\ pc \in CardWait(m.model) /\ m.card.waiting -> "ArmCard"
                [] OTHER -> "none"

\* feedQueuedCard(): a memory card takes the fitted card out, a file's is
\* fitted; one that cannot be is done with at once.
TakeMemoryCard(e, q) ==
  LET key == e.card[2]
      known == key \in DOMAIN memory
      built == BuildCardBank(e.definition[1], PartitionProgramRegs(m))
      card == CASE known -> memory[key].cue
                [] ~known /\ e.definition # <<>> -> e.definition[1].cue
                [] OTHER -> <<>>
      user == [cue EXCEPT !.user = IF card = <<>> THEN @ ELSE card]
  IN /\ fitted' = <<>> /\ cue' = Refreshed(user, <<>>)
     /\ StartSwipe(CASE known -> [b \in {0} |-> memory[key].bank]
                     [] ~known /\ e.definition # <<>> -> [b \in {0} |-> built]
                     [] OTHER -> [b \in {} |-> NoBank],
                   [side |-> 0, queued |-> FALSE, key |-> key])
     /\ queue' = q
TakeCardFile(e, q) ==
  LET path == e.card[2]
      raw == folder[path]
      blank == [BlankDocument EXCEPT !.cue = IF cue.preset # <<>> THEN cue.preset ELSE <<FreshCardCue(path)>>]
      doc == IF raw = Absent THEN <<blank>> ELSE Decoded(raw)
  IN IF ~CanFit \/ doc = <<>>
     THEN queue' = QueuedCardDone(q) /\ UNCHANGED <<fitted, cue, pass, m, kept>>
     ELSE /\ fitted' = Card(path, doc[1], raw = Absent) /\ cue' = Refreshed(cue, fitted')
          /\ StartSwipe(BankOfSide(doc[1], e.side), [side |-> e.side, queued |-> TRUE, key |-> ""])
          /\ queue' = q
Take ==
  /\ Doing("take") /\ Done
  /\ LET fit == SelectInSeq(queue.cards, LAMBDA e : e.kind = Wanted(Head(ui).pc))
         e == queue.cards[fit]
         q == [queue EXCEPT !.cards = RemoveAt(@, fit), !.inReader = e.kind = "InsertCard"]
     IN IF fit = 0 THEN UNCHANGED <<fitted, cue, pass, m, kept, queue>>
        ELSE IF e.card[1] = "mem" THEN TakeMemoryCard(e, q) ELSE TakeCardFile(e, q)
  /\ UNCHANGED <<panel, lab, latch, paper, sampling, heat, file, past, memory, folder, saved, running>>

\* The file is due half a second after a batch; it is written if it changed.
\* Mutant of Save: the timer only runs while batches keep coming.
SaveForgetsTimer ==
  /\ Doing("save")
  /\ LET due == saved.dirty /\ HasConstantMemory(m.model)
     IN /\ saved' = [saved EXCEPT !.dirty = FALSE, !.due = due]
        /\ \/ due /\ ui' = Do("persist") \o Tail(ui)
           \/ Done
  /\ UNCHANGED <<panel, vars, fitted, pass, memory, folder, queue, cue, running, kept>>
Save ==
  /\ Doing("save")
  /\ LET due == saved.due \/ (saved.dirty /\ HasConstantMemory(m.model))
     IN /\ saved' = [saved EXCEPT !.dirty = FALSE, !.due = due]
        /\ \/ due /\ ui' = Do("persist") \o Tail(ui)
           \/ Done
  /\ UNCHANGED <<panel, vars, fitted, pass, memory, folder, queue, cue, running, kept>>
Persist ==
  /\ Doing("persist") /\ Done
  /\ LET text == EncodeConstantMemory(m.ram, cue.user)
     IN saved' = IF ~HasConstantMemory(m.model) \/ saved.last = <<text>> THEN [saved EXCEPT !.due = FALSE]
                 ELSE [saved EXCEPT !.due = FALSE, !.text = <<text>>, !.last = <<text>>]
  /\ UNCHANGED <<panel, vars, fitted, pass, memory, folder, queue, cue, running, kept>>

\* checkProgramNumber(), twice a second.
CheckProgram ==
  /\ Doing("program") /\ Done
  /\ LET program == ActiveLibraryProgram(m.SCOM[9])
     IN \/ UNCHANGED cue
        \/ program # cue.program /\ cue' = Refreshed([cue EXCEPT !.program = program], fitted)
  /\ UNCHANGED <<panel, vars, fitted, pass, memory, folder, queue, saved, running, kept>>

(***************************************************************************)
(* The script (KeySequencer on the emulation thread): it waits for a       *)
(* reload and for a card it inserts; both need an idle calculator.         *)
(***************************************************************************)
ScriptStep ==
  /\ queue.script # <<>> /\ queue.waits = 0
  /\ LET e == Head(queue.script)
         rest == [queue EXCEPT !.script = Tail(@)]
     IN CASE e.kind = "ArmCard" -> queue' = [rest EXCEPT !.cards = Append(@, e)]
          [] e.kind = "InsertCard" -> m.addr \in IdleLoop /\ queue' = [rest EXCEPT !.cards = Append(@, e), !.waits = @ + 1]
          [] e.kind = "Reload" -> m.addr \in IdleLoop /\ queue' = [rest EXCEPT !.posted = Append(@, e.stage), !.waits = @ + 1]
          [] OTHER -> queue' = rest
  /\ UNCHANGED <<panel, vars, fitted, pass, memory, folder, saved, cue, running, ui, kept>>

(***************************************************************************)
(* Writing into the machine stops the loop: the batch under way ends.      *)
(***************************************************************************)
BatchEnds(s) == [s EXCEPT !.dirty = @ \/ s.midBatch, !.midBatch = FALSE]
Adopted(c, card) == Refreshed([c EXCEPT !.user = card, !.preset = card], <<>>)

\* applyReloadStage(), when the UI thread gets to it.
Reload ==
  /\ UiIdle /\ queue.posted # <<>>
  /\ ui' = <<[do |-> "reload", stage |-> Head(queue.posted)]>>
  /\ queue' = [queue EXCEPT !.posted = Tail(@)]
  /\ UNCHANGED <<panel, vars, fitted, pass, memory, folder, saved, cue, running, kept>>
ApplyReloadStage ==
  /\ Doing("reload")
  /\ LET stage == Head(ui).stage
     IN IF \E p \in stage.partition : p > MaxStep(m.model)
        THEN ui' = Do("hostDone") /\ UNCHANGED <<m, saved, kept>>
        ELSE /\ m' = ApplyReload(m, stage)
             /\ saved' = BatchEnds(saved)
             /\ kept' = [kept EXCEPT !.ram = IF @ = <<>> THEN <<>> ELSE <<m'.ram>>]
             /\ ui' = (IF stage.cue = <<>> THEN <<>> ELSE <<[do |-> "adopt", cue |-> stage.cue, printer |-> {}]>>)
                       \o Do("persist") \o Do("hostDone")
  /\ UNCHANGED <<panel, lab, latch, paper, sampling, heat, file, past, fitted, pass, memory, folder, queue, cue, running>>
HostDoneCalled ==
  /\ Doing("hostDone") /\ Done
  /\ queue' = HostDone(queue)
  /\ UNCHANGED <<panel, vars, fitted, pass, memory, folder, saved, cue, running, kept>>

\* adoptPresetCue(), after setPrinterConnected() if the preset says so.
AdoptPresetCue ==
  /\ Doing("adopt") /\ Done
  /\ fitted' = <<>>
  /\ cue' = Adopted(cue, Head(ui).cue)
  /\ kept' = [kept EXCEPT !.adopted = TRUE]
  /\ \/ Head(ui).printer = {} /\ UNCHANGED <<m, latch>>
     \/ \E on \in Head(ui).printer : latch' = [connected |-> on, trace |-> FALSE]
                                     /\ m' = SetPrinterTraceLine(SetPrinterConnectedLine(m, on), FALSE)
  /\ UNCHANGED <<panel, lab, paper, sampling, heat, file, past, pass, memory, folder, queue, saved, running>>

(***************************************************************************)
(* Solid-state modules.  loadLibrary() takes no lock: the machine runs     *)
(* while the library is cleared and before it is filled.                   *)
(***************************************************************************)
Selecting(id, reset) == <<[do |-> "select", id |-> id, reset |-> reset]>>
\* changeModule(): another module than the one that is in, then a reset.
ChangeModule(id) ==
  /\ UiCall("module") /\ id # cue.module
  /\ ui' = Selecting(id, TRUE)
  /\ UNCHANGED <<panel, lab, m, latch, paper, sampling, heat, file, fitted, pass, memory, folder, queue, saved, cue, running, kept>>
\* selectModule(): without an image nothing changes, and nothing is reset.
SelectModule ==
  /\ Doing("select")
  /\ LET e == Head(ui)
         image == ImageOf[e.id]
     IN IF image = <<>> THEN Done /\ UNCHANGED m
        ELSE /\ ui' = <<[do |-> "library", id |-> e.id, reset |-> e.reset]>> \o Tail(ui)
             /\ m' = Cleared(m)
  /\ UNCHANGED <<panel, lab, latch, paper, sampling, heat, file, past, fitted, pass, memory, folder, queue, saved, cue, running, kept>>
LoadLibrary ==
  /\ Doing("library")
  /\ m' = LibraryLoaded(m, ImageOf[Head(ui).id])
  /\ cue' = Refreshed([cue EXCEPT !.module = Head(ui).id, !.cards = CardsOf[Head(ui).id]], fitted)
  /\ panel' = ModuleChanged(panel, ImageOf[Head(ui).id])
  /\ ui' = (IF Head(ui).reset THEN Do("beginReset") \o Do("loadSaved") ELSE <<>>) \o Tail(ui)
  /\ UNCHANGED <<lab, latch, paper, sampling, heat, file, past, fitted, pass, memory, folder, queue, saved, running, kept>>

(***************************************************************************)
(* The CALCULATOR panel: 60 times a second while the machine runs; a       *)
(* freeze, which may be between any two steps, shows the listing as well.  *)
(***************************************************************************)
ShowPanel(frozen) ==
  /\ UiCall("live") /\ panel' = RebuildLive(panel, m, frozen)
  /\ UNCHANGED <<lab, m, latch, paper, sampling, heat, file, fitted, pass, memory, folder, queue, saved, cue, running, ui, kept>>

(***************************************************************************)
(* Presets: loadStateFile() and applyState().                              *)
(***************************************************************************)
ForReader(d, r) ==
  IF HasCardReader(d) THEN r
  ELSE [r EXCEPT !.keystrokes = SelectSeq(@, LAMBDA e : e.kind \notin {"ArmCard", "InsertCard"})]
LoadStateFile(lines) ==
  /\ UiCall("load")
  /\ LET target == StateFileModel(lines, m.model)
         r == ParseStateFile(lines, MaxStep(target), HasConstantMemory(target))
         other == IF target = m.model THEN <<>> ELSE Do("persist") \o <<[do |-> "machine", model |-> target]>>
     IN ui' = other \o <<[do |-> "apply", r |-> ForReader(target, r)]>>
  /\ UNCHANGED <<panel, lab, m, latch, paper, sampling, heat, file, fitted, pass, memory, folder, queue, saved, cue, running, kept>>
ApplyStateFile ==
  /\ Doing("apply")
  /\ LET r == Head(ui).r
     IN IF PartitionError(r, m.model)
        THEN Done /\ UNCHANGED <<m, paper, heat, memory, queue, saved, cue, kept>>
        ELSE /\ m' = ApplyState(m, lab.rom, latch, r)
             /\ heat' = Baseline(ReadFrames(m'.ring))
             /\ paper' = [text |-> <<>>, codes |-> <<>>]
             /\ memory' = [k \in {} |-> NoBank]
             /\ queue' = [queue EXCEPT !.cards = <<>>]
             /\ saved' = BatchEnds(saved)
             /\ cue' = [cue EXCEPT !.program = 0]
             /\ kept' = [kept EXCEPT !.ram = <<m'.ram>>]
             /\ ui' = (IF r.module \in {<<>>, <<cue.module>>} THEN <<>> ELSE Selecting(r.module[1], FALSE))
                       \o <<[do |-> "adopt", cue |-> r.contents.cue, printer |-> r.printer]>> \o Do("persist")
                       \o <<[do |-> "play", keystrokes |-> r.keystrokes, stages |-> r.stages]>>
  /\ UNCHANGED <<panel, lab, latch, sampling, file, past, fitted, pass, folder, running>>
\* playKeystrokes(): the script before it is cancelled; without keystrokes it goes on.
PlayKeystrokes ==
  /\ Doing("play") /\ Done
  /\ LET k == Head(ui).keystrokes
         events == [i \in DOMAIN k |-> IF k[i].kind = "Reload" THEN [k[i] EXCEPT !.stage = Head(ui).stages[@]] ELSE k[i]]
     IN queue' = IF k = <<>> THEN queue ELSE [queue EXCEPT !.script = events, !.waits = 0]
  /\ UNCHANGED <<panel, vars, fitted, pass, memory, folder, saved, cue, running, kept>>

(***************************************************************************)
(* Resets, another calculator, suspending.                                 *)
(***************************************************************************)
NoCard == /\ pass' = <<>> /\ fitted' = <<>> /\ memory' = [k \in {} |-> NoBank]
EmptyQueue == [queue EXCEPT !.cards = <<>>, !.inReader = FALSE, !.script = <<>>, !.waits = 0]

\* Mutant of BeginReset: the cue card is not refreshed.
BeginResetKeepsCue ==
  /\ Doing("beginReset") /\ Done
  /\ NoCard /\ queue' = EmptyQueue
  /\ cue' = [cue EXCEPT !.user = <<>>, !.preset = <<>>, !.program = 0]
  /\ UNCHANGED <<panel, vars, folder, saved, running, kept>>
BeginReset ==
  /\ Doing("beginReset") /\ Done
  /\ NoCard /\ queue' = EmptyQueue
  /\ cue' = Refreshed([cue EXCEPT !.user = <<>>, !.preset = <<>>, !.program = 0], <<>>)
  /\ UNCHANGED <<panel, vars, folder, saved, running, kept>>
ResetMachine ==
  /\ UiCall("restart")
  /\ ui' = Do("beginReset") \o Do("loadSaved") \o Do("baseline")
  /\ UNCHANGED <<panel, lab, m, latch, paper, sampling, heat, file, fitted, pass, memory, folder, queue, saved, cue, running, kept>>
\* loadConstantMemory(): a file that does not decode is none.
FileRam == IF saved.text = <<>> THEN <<>> ELSE DecodeConstantMemory(saved.text[1])
LoadSaved ==
  /\ Doing("loadSaved")
  /\ LET c == IF HasConstantMemory(m.model) THEN FileRam ELSE <<>>
     IN /\ ui' = <<[do |-> "softReset", ram |-> IF c = <<>> THEN <<>> ELSE <<c[1].ram>>]>> \o Tail(ui)
        /\ cue' = IF c = <<>> THEN cue ELSE Refreshed([cue EXCEPT !.user = c[1].cue], fitted)
  /\ UNCHANGED <<panel, vars, fitted, pass, memory, folder, queue, saved, running, kept>>
SoftResetStopped ==
  /\ Doing("softReset") /\ Done
  /\ m' = SoftReset(m, lab.rom, latch, Head(ui).ram)
  /\ saved' = BatchEnds(saved)
  /\ kept' = [kept EXCEPT !.ram = IF HasConstantMemory(m.model) THEN Head(ui).ram ELSE <<m.ram>>]
  /\ UNCHANGED <<panel, lab, latch, paper, sampling, heat, file, past, fitted, pass, memory, folder, queue, cue, running>>

\* cleanResetMachine(): RAM and CPU in two calls, with the loop running.
CleanResetMachine ==
  /\ UiCall("clean")
  /\ ui' = Do("beginReset") \o Do("zeroRam") \o Do("resetCpu") \o Do("baseline") \o Do("persist")
  /\ UNCHANGED <<panel, lab, m, latch, paper, sampling, heat, file, fitted, pass, memory, folder, queue, saved, cue, running, kept>>
CleanResetRam == /\ Doing("zeroRam") /\ Done
                 /\ m' = ZeroRam(m) /\ kept' = [kept EXCEPT !.ram = <<>>]
                 /\ UNCHANGED <<panel, lab, latch, paper, sampling, heat, file, past, fitted, pass, memory, folder, queue, saved, cue, running>>
CleanResetCpu == /\ Doing("resetCpu") /\ Done
                 /\ m' = MachineReset(m, latch)
                 /\ UNCHANGED <<panel, lab, latch, paper, sampling, heat, file, past, fitted, pass, memory, folder, queue, saved, cue, running, kept>>

ResetBaseline == /\ Doing("baseline") /\ Done
                 /\ heat' = Baseline(ReadFrames(m.ring))
                 /\ UNCHANGED <<panel, lab, m, latch, paper, sampling, file, past, fitted, pass, memory, folder, queue, saved, cue, running, kept>>

\* startMachine(): the memory is saved, then the old loop stops.
StartMachine(d) ==
  /\ UiCall("model") /\ d # m.model
  /\ ui' = Do("persist") \o <<[do |-> "machine", model |-> d]>>
  /\ UNCHANGED <<panel, lab, m, latch, paper, sampling, heat, file, fitted, pass, memory, folder, queue, saved, cue, running, kept>>
\* The images do not load: the user is told, the calculator goes on, and what
\* was to follow does not.  In the background the loop runs again as well.
KeepMachine ==
  /\ Doing("machine") /\ ~SessionBuilt(Head(ui).model, lab.desk.texts)
  /\ ui' = <<>> /\ running' = TRUE /\ saved' = BatchEnds(saved)
  /\ UNCHANGED <<panel, vars, fitted, pass, memory, folder, queue, cue, kept>>
NewMachine ==
  /\ Doing("machine") /\ Done
  /\ SessionBuilt(Head(ui).model, lab.desk.texts)
  /\ latch' = [latch EXCEPT !.trace = FALSE]
  /\ LET d == Head(ui).model
         c == IF HasConstantMemory(d) THEN FileRam ELSE <<>>
         fresh == MachineReset([PoweredOn EXCEPT !.model = d, !.lib = ImageOf[cue.module], !.overlay = m.overlay], latch')
     IN /\ m' = PowerOn(fresh, lab.rom, IF c = <<>> THEN <<>> ELSE <<c[1].ram>>)
        /\ cue' = Refreshed([cue EXCEPT !.user = IF c = <<>> THEN <<>> ELSE c[1].cue, !.preset = <<>>, !.program = 0,
                                         !.cards = CardsOf[cue.module]], <<>>)
  /\ NoCard
  /\ queue' = [EmptyQueue EXCEPT !.posted = <<>>]
  /\ saved' = [saved EXCEPT !.dirty = FALSE, !.midBatch = FALSE]
  /\ kept' = [kept EXCEPT !.ram = <<>>]
  /\ heat' = Baseline(ReadFrames(m'.ring)) /\ running' = TRUE
  /\ panel' = PanelAttached(ImageOf[cue.module])
  /\ UNCHANGED <<lab, paper, sampling, file, past, folder>>

Suspend ==
  /\ UiCall("suspend") /\ running
  /\ ui' = Do("persist") \o Do("stop")
  /\ UNCHANGED <<panel, lab, m, latch, paper, sampling, heat, file, fitted, pass, memory, folder, queue, saved, cue, running, kept>>
StopLoop == /\ Doing("stop") /\ Done
            /\ running' = FALSE /\ saved' = BatchEnds(saved)
            /\ UNCHANGED <<panel, vars, fitted, pass, memory, folder, queue, cue, kept>>
ResumeAfterSuspend == /\ UiIdle /\ ~running /\ running' = TRUE
                      /\ UNCHANGED <<panel, vars, fitted, pass, memory, folder, queue, saved, cue, ui, kept>>

(***************************************************************************)
(* The emulation thread, another application, and the whole.               *)
(***************************************************************************)
SwipeWrote == m.card.mode = Writing /\ m'.card.mode = Off /\ BankOf(m.card) \in Banks
DeskStep ==
  /\ running /\ MachineStep
  /\ saved' = [saved EXCEPT !.midBatch = HasConstantMemory(m.model)]
  /\ kept' = IF SwipeWrote THEN [kept EXCEPT !.written = <<m.card.buf>>] ELSE kept
  /\ UNCHANGED <<panel, fitted, pass, memory, folder, queue, cue, running, ui>>
BatchDone == /\ saved.midBatch /\ saved' = BatchEnds(saved)
             /\ UNCHANGED <<panel, vars, fitted, pass, memory, folder, queue, cue, running, ui, kept>>

FileChanges(path, raw) ==
  /\ May("file") /\ raw # folder[path] /\ folder' = [folder EXCEPT ![path] = raw] /\ Called
  /\ UNCHANGED <<panel, lab, m, latch, paper, sampling, heat, file, fitted, pass, memory, queue, saved, cue, running, ui, kept>>

DeskInit ==
  /\ Init
  /\ fitted = <<>> /\ pass = <<>> /\ memory = [k \in {} |-> NoBank]
  /\ folder = lab.desk.folder
  /\ queue = [cards |-> <<>>, inReader |-> FALSE, script |-> lab.desk.script, waits |-> 0, posted |-> <<>>]
  /\ saved = [text |-> <<>>, last |-> <<>>, dirty |-> FALSE, midBatch |-> FALSE, due |-> FALSE]
  /\ cue = [user |-> <<>>, preset |-> <<>>, program |-> 0, module |-> lab.desk.module,
            cards |-> CardsOf[lab.desk.module], shown |-> <<>>]
  /\ running = TRUE /\ ui = <<>> /\ panel = PanelAttached(ImageOf[lab.desk.module])
  /\ kept = [written |-> <<>>, reported |-> FALSE, adopted |-> FALSE, ram |-> <<>>]

UserCalls ==
  \/ \E path \in DOMAIN folder : FitCard(path) \/ FitBlankCard(path)
  \/ \E side \in {0, 1} : FeedSide(side)
  \/ PressEject \/ Frame
  \/ \E lines \in lab.desk.presets : LoadStateFile(lines)
  \/ ResetMachine \/ CleanResetMachine
  \/ \E i \in DOMAIN ModuleMenu : ChangeModule(ModuleMenu[i].id)
  \/ \E frozen \in BOOLEAN : ShowPanel(frozen)
  \/ \E d \in Calculators : StartMachine(d)
  \/ Suspend \/ ResumeAfterSuspend
UiSteps ==
  \/ EjectCard \/ Sample \/ Look \/ Take \/ Save \/ Persist \/ CheckProgram
  \/ Reload \/ ApplyReloadStage \/ HostDoneCalled \/ AdoptPresetCue \/ ApplyStateFile \/ PlayKeystrokes
  \/ BeginReset \/ LoadSaved \/ SelectModule \/ LoadLibrary \/ SoftResetStopped \/ CleanResetRam \/ CleanResetCpu \/ ResetBaseline
  \/ KeepMachine \/ NewMachine \/ StopLoop
DeskNext ==
  \/ DeskStep \/ BatchDone \/ ScriptStep
  \/ (Calls \/ Rest) /\ UNCHANGED deskVars
  \/ UserCalls \/ UiSteps
  \/ \E path \in DOMAIN folder : \E raw \in lab.desk.changes : FileChanges(path, raw)

deskState == <<vars, deskVars>>
DeskSpec == DeskInit /\ [][DeskNext]_deskState

--------------------------------------------------------------------------------
(***************************************************************************)
(* Properties.                                                             *)
(***************************************************************************)
\* What the two sides of the file at a path hold; <<>> for a blank side.
SideOf(raw, side) ==
  LET doc == Decoded(raw)
  IN CASE doc = <<>> -> <<>>
       [] doc # <<>> /\ doc[1].version = 1 -> <<doc[1].single[0]>>
       [] OTHER -> doc[1].sides[side]

(***************************************************************************)
(* Eject (SessionController::ejectCard): the bank the calculator wrote     *)
(* during a pass is in the memory card or on its side of the file, or the  *)
(* user was told; the file's other side is what it was before, although    *)
(* another application may have changed it since the card was fitted.      *)
(* Unless the preset's cue card was replaced meanwhile: see EjectSaves.    *)
(***************************************************************************)
Kept(bank) ==
  \/ pass[1].key # "" /\ memory'[pass[1].key].bank = bank
  \/ kept'.reported
  \/ /\ pass[1].key = "" /\ fitted # <<>>
     /\ SideOf(folder'[fitted[1].path], pass[1].side) = <<bank>>
     /\ LET raw == folder[fitted[1].path]
            doc == Decoded(folder'[fitted[1].path])[1]
        IN doc.version = 2 /\ ~fitted[1].fresh /\ raw # Absent
           => doc.sides[1 - pass[1].side] = SideOf(raw, 1 - pass[1].side)
EjectsWritten == Doing("eject") /\ pass # <<>> /\ kept.written # <<>>
WriteReachesCard == [][EjectsWritten /\ ui' = Tail(ui) /\ ~kept.adopted => Kept(kept.written[1])]_deskState

\* reference/SharedArchitecture.md:376: "On eject, a written bank goes to the
\* memory card or to the file".
EjectSaves == [][EjectsWritten /\ ui' = Tail(ui) => Kept(kept.written[1])]_deskState

\* Between two calls of the UI thread a card in the reader has its pass, which
\* is what ejects it: none is left in there for good.
NoOrphanCard == UiIdle /\ "frame" \in lab.calls => (m.card.present => pass # <<>>)

(***************************************************************************)
(* What a load, a reload or a reset left in the RAM stays there: the ROM's *)
(* start, which clears it on a TI-59 or TI-58, is over.  The panel's       *)
(* reading of it is right: loaded as a preset, what it lists - the steps   *)
(* of the partition, the registers under their numbers, hidden ones too -  *)
(* gives the same list again, a register is what its number recalls, and   *)
(* in a program the steps shown as numbers are the operands.  (A label     *)
(* with the name of a key that has operands misleads argumentSteps(); the  *)
(* programs of the labs have none.)                                        *)
(***************************************************************************)
Listed(c) == <<ProgramSteps(c), {[e EXCEPT !.value = EncodeBcd(@)] : e \in NonZeroDataRegs(c)}>>
AsPreset(c) ==
  LET codes == ProgramSteps(c)
      lines == {[num |-> e.num, hidden |-> e.hidden, nibbles |-> EncodeBcd(e.value)] : e \in NonZeroDataRegs(c)}
  IN [partition |-> {}, steps |-> [i \in DOMAIN codes |-> [addr |-> i - 1, code |-> codes[i]]], registers |-> SetToSeq(lines)]
ListedLoadsBack ==
  /\ Listed(ApplyReload([m EXCEPT !.ram = [i \in DOMAIN @ |-> Zeros]], AsPreset(m))) = Listed(m)
  /\ \A e \in NonZeroDataRegs(m) : ~e.hidden => ReadDataReg(m, e.num) = e.value
\* What an instruction of the lab's program has as numbers, counted from its first step.
Before(program, i) == FoldLeft(LAMBDA n, e : n + Len(e.codes), 0, SubSeq(program, 1, i - 1))
OperandsListed(program) ==
  ArgumentSteps(ProgramSteps(m)) = UNION {{Before(program, i) + k : k \in program[i].numbers} : i \in DOMAIN program}
LoadedIsListed ==
  /\ lab.name = "boot" /\ kept.ram # <<>> => m.ram = kept.ram[1] /\ (UiIdle /\ ~May("load") => ListedLoadsBack)
  /\ lab.name = "listing" => OperandsListed(lab.desk.program)

(***************************************************************************)
(* CARD: blocks may stand anywhere in a preset (parseStateFile): with them *)
(* taken out, the file loads the same.                                     *)
(***************************************************************************)
WithoutBlocks(lines) ==
  LET take(p, l) ==
        CASE l.k \in Anywhere -> [p EXCEPT !.out = Append(@, l)]
          [] l.k = "card" -> [p EXCEPT !.in = TRUE]
          [] l.k = "end-card" -> [p EXCEPT !.in = FALSE]
          [] l.k = "keystrokes" -> [p EXCEPT !.in = FALSE, !.out = Append(@, l)]
          [] OTHER -> IF p.in THEN p ELSE [p EXCEPT !.out = Append(@, l)]
  IN FoldLeft(take, [in |-> FALSE, out |-> <<>>], lines).out
Plain(r) == <<r.contents, r.explicit, r.stages, r.module, r.printer, r.model,
              [i \in DOMAIN r.keystrokes |-> IF r.keystrokes[i].kind \in {"ArmCard", "InsertCard"}
                                             THEN [r.keystrokes[i] EXCEPT !.definition = <<>>] ELSE r.keystrokes[i]]>>
PresetBlocksApart ==
  [][\A lines \in lab.desk.presets :
     past'.calls = past.calls + 1 /\ ui' # <<>> /\ ui'[Len(ui')].do = "apply"
     => Plain(ParseStateFile(lines, MaxStep(m.model), HasConstantMemory(m.model)))
        = Plain(ParseStateFile(WithoutBlocks(lines), MaxStep(m.model), HasConstantMemory(m.model)))]_deskState

(***************************************************************************)
(* A CARD: block's bank (buildCardBank) is what the calculator would write *)
(* had the block's listing been loaded: the same registers of the RAM, the *)
(* header of its bank and their checksum.                                  *)
(***************************************************************************)
ListedRam(c) == ApplyReload([m EXCEPT !.ram = [i \in DOMAIN @ |-> Zeros]],
                            [partition |-> {}, steps |-> c.steps, registers |-> c.registers]).ram
RowOf(side, r) == DecodeRegisterLine([k \in 0..7 |-> side[4 + 8 * r + k]])
RowSum(side, r) == FoldFunction(LAMBDA a, b : a + b, 0, RowOf(side, r))
CardHoldsMemory ==
  [][\A e \in Range(queue.cards) \ Range(queue'.cards) :
     Doing("take") /\ ui' = Tail(ui) /\ e.card[1] = "mem" /\ e.definition # <<>> /\ e.card[2] \notin DOMAIN memory
     => LET c == e.definition[1]
            side == m'.card.full[0]
        IN /\ \A r \in 0..(BankRegs - 1) : RowOf(side, r) = ListedRam(c)[BankRegs * (c.bank - 1) + r]
           /\ BankOfPageByte(side[2]) = c.bank
           /\ side[Sum1] = (side[0] + side[1] + side[2] + RowSum(side, 0) + RowSum(side, 1) + RowSum(side, 2)) % 16]_deskState

(***************************************************************************)
(* Constant memory: between two calls of the UI thread the file holds the  *)
(* RAM of a running TI-58C, or a batch under way, the session's flag or    *)
(* the timer will still have it written.                                   *)
(***************************************************************************)
SavedRam == IF FileRam = <<>> THEN [i \in 0..(RamSize - 1) |-> Zeros] ELSE FileRam[1].ram
SavedOrDue ==
  UiIdle /\ running /\ lab.name \in {"boot", "constant"} /\ HasConstantMemory(m.model)
  => SavedRam = m.ram \/ saved.dirty \/ saved.due \/ saved.midBatch

\* Between any two calls of the UI thread the machine's library is that of
\* the module selected, and the cue card on show the one that belongs to what
\* is fitted, loaded and running: for a library program, that module's.  The
\* panel's program table is that of the library that is in the machine.
CueShown ==
  UiIdle =>
    /\ lab.desk.module # "" => m.lib = ImageOf[cue.module] /\ panel.image = ParseImage(m.lib)
    /\ LET c == CardsOf[cue.module]
       IN cue.shown = ResolveCueCard(cue.program, c.cards, c.info, UserOrFitted(cue, fitted))
================================================================================
