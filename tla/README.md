# Calc-U-59: a verification project in TLA+

Calc-U-59 emulates the TI-59, TI-58 and TI-58C calculators. The machine itself
(`Core/`) is sequential; around it a runtime (`Shared/`) runs it on a thread of
its own (or cooperatively, in a browser), paces it, freezes and steps it for the
debugger, types keys into it, feeds it cards and loads files while it runs. That
runtime has several threads and no global lock, and the state it moves about -
RAM, cards, memory files, a trace ring, printer queues, panels - is written on
one side and read on the other. This project models both: the threads at the
grain of their atomic stores and critical sections, the machine instruction by
instruction, and the files by what is in them.

## 1. The system

### 1.1 Components

| Component | State | Operations | Interacts with |
|---|---|---|---|
| `EmulationRunner` (+ `Pacing`) | `m_running`, `m_jobs`, `m_quit`, `m_fullSpeed`; cooperative: `m_carry`, `m_deadline`, `m_draining` | `start`, `stop`, `post`, `sync`, destructor; thread: `threadMain`, `runLoop`, `runOneBatch`; cooperative: `pump`, `drainJobs` | steps `TI59Machine`, calls `FreezeController::checkStep` per instruction, `freezeFired` and `batchDone` callbacks |
| `FreezeController` | four atomics: `m_pcArmed`, `m_scanArmed`, `m_seenLoop`, `m_armPC` | two arm and two disarm methods (UI), `checkStep` (emulation thread) | `EmulatorSession` |
| `EmulatorSession` | `DebugState` under `m_stateMutex`, `m_frozen`, trace consumers and files, `m_hostPending`, queued cards | freeze, resume, clear, arm, disarm, step, trace open/drain/close, card queue, module swap | owns runner, freeze controller, key sequencer, trace writers |
| `SessionController` | mirror of `DebugState`, model, fitted card, card pass, memory cards, cue cards, printer strip, persist timer, ASM overlay, suspended flag | start/switch model, resets, state files, reloads, cards, freeze/step, ASM, suspend, printer, tick | UI thread only; events hop to it from the session's threads |
| `KeySequencer` | two lanes of tasks, the held key, deferred releases | `play`, `cancel`, `keyDown`, `keyUp`, `releaseAll`, lane `step`, timer | presses keys in the machine, reads `isFrozen()` and the PC, waits on `hostPending()` |
| `TMC0501` (CPU), `RAM`, `ROM` | registers, SCOM, flags, key matrix, printer, card reader, display, frame ring, step boundary latch | `step`, `beginNextStep`, `reset` and the calls of the machine | `TI59Machine` |
| `TI59Machine` | the core under `m_keyMutex`, printer latches | `stepN`, `stepUntilNextKeycode`, keys, cards, printer, memory access, overlay | everything above |
| `StateFile`, `StateApplier` | the parser's section, step and open `CARD:` block | `parseStateFile`, `applyState`, `applyReload`, `powerOn`, `softReset`, `cleanReset` | controller, with the loop stopped |
| `CardFile`, `CueCard`, `ModuleCatalog`, `RomLoader`, `ConstantMemory`, `AsmOverlay`, `ModuleImage`, `KeyNames`, `Bcd` | none | decode and encode | controller, session, panels |
| `TraceWriter` | an open file, its counts | `open`, `write`, `close` | session, on two threads |
| `DebugModel`, `DebugSnapshots`, `RomHeatmap` | last snapshot, listing, counts | `tick`, `frozenView`, `rebuildLive`, `attach`, `moduleChanged` | reads the machine, 60 times a second |
| `FrameSampler`, `DisplayPov` | brightness of the last frames | `tick` | drains printer queues and display |
| Frontends (`App`, `Bridge`, `Qt6`, `Web`) | widgets | buttons, timers, background suspend | `SessionController` |

### 1.2 What is hard

* **Two writers without a common lock.** `start`/`stop` are an atomic flag plus
  a queue push; the loop reads the flag once a batch, and stops itself when an
  armed freeze fires. Old loop jobs stay in the queue.
* **Check, then act.** The controller reads `frozen()`, `isRunning()`, its copy of
  the debug state or an armed flag, and acts on it after other calls.
* **Store by store.** Arming writes three or four atomics in order, then
  `DebugState`; the other thread may test and clear between any two.
* **Late answers.** Views and debug events hop to the UI thread; a newer freeze or
  a resume may have come first. Generations tell them apart - for views, but
  not for the jobs that step the machine.
* **Waiting.** `sync()` blocks the UI thread until the loop leaves; the
  destructor joins.
* **Timing.** Key taps hold 100 ms, releases are deferred, playback waits for the
  scan loop and for the host; the memory file is written half a second after a
  batch.
* **Deferred effects in the core.** A RAM operation acts on the bus of the *next*
  instruction; a digit is dark or lit by when it was strobed last; a printed
  line's text and dots are queued at different moments and drained by two calls.
* **Things taken away meanwhile.** A card file may be replaced while it is
  fitted; a reload or preset takes the fitted card out while a card is in the
  reader; a module is swapped under a running program.
* **A ring and two files.** Both threads drain the trace ring into two files
  that either may open, close, or fill.

`PROJECT.json` lists each hazard at its line with the properties that cover it.

### 1.3 What makes each component correct

* Runner: one owner of the machine at a time; jobs once each, in order; no flag
  without a loop; `sync` and the destructor return; both threading modes keep
  the same promise.
* Freeze controller: never both freezes armed.
* Session and controller: never a machine that neither runs nor is frozen nor
  was stopped on purpose; the panels' copy and the trace flags settle to the
  session's state; a freeze is shown, and what is shown is the machine as it
  stands; frozen means stopped.
* Key sequencer: no key stays down; a press is held long enough to be seen; a
  script waits while the machine is frozen (section 4 says when it does not), and its
  full speed ends with it; playback ends once and always.
* Core: arithmetic is decimal, what is stored is recalled, a sweep finds the key
  that is down, the display shows the number, the printer's two queues tell of
  the same lines, a debugger's peek changes nothing.
* Cards: what the calculator has written is saved or its loss is reported; a
  card in the reader always has a pass that ends; a bank built from a listing is
  the bank the calculator would write.
* Presets and memory: what was loaded stays loaded through the ROM's start and
  is what the panel lists; the TI-58C's file follows its RAM.
* Trace: every executed instruction is in the file or counted as lost.

## 2. Modules

```
SerialExecutor            what the emulation thread promises (abstract)
  ^            ^
EmulationRunner  CooperativeRunner      its two implementations, both with a JobQueue
  ^                                     (...Proofs: theorems about each)
SessionController  --extends-->  EmulatorSession  --extends-->  FreezeController
  ^                                                               ^
  |                                          FreezeArming  (...Proofs)
  '- SessionControllerProofs <- SessionFreezeProofs
KeySequencer              keyboard, key lanes, playback and its host (...Proofs)

Desk                      SessionController around the machine (MachineProofs)
 |- Machine               the machine under its callers' interleavings
 |   |- TI59Machine       calls under m_keyMutex, as operators
 |   |   '- TMC0501       step() and all it executes
 |   |       |- Alu <- DigitSerial, Printer, CardReader, Display
 |   |       |- TraceRing, Models, ModuleCatalog <- CueCard
 |   |- TraceWriter, RomHeatmap, AsmOverlay
 |- StateApplier <- StateFile <- CardFile
 |- RomLoader
 '- CalcPanel             what the CALCULATOR panel reads out of the machine
```

### 2.1 The runtime

| Module | Models | State and actions |
|---|---|---|
| `SerialExecutor` | the class comment of `EmulationRunner.hpp` | who owns the machine (`owner`), jobs `pending`, whether the loop is `wanted` |
| `EmulationRunner` | `EmulationRunner.cpp`, `Threading::Threads` | `running`, `jobs` and `quit` are the members; `thread` and `client` are the two program counters. `start()` is two actions (`Start`, `PostLoop`): the exchange and the push; so is the loop's own stop (`BatchStops`, `StoreStopped`) |
| `CooperativeRunner` | the same file, `Threading::Cooperative` | `where` is the place in `pump`/`drainJobs`; the empty job that marks the loop is `"loop"` |
| `JobQueue` | `m_jobs` of both | `Posted(jobs)`: what was posted, without the loops |
| `FreezeController` | `FreezeController.cpp` | `flag` holds the four atomics; a method is the sequence of its stores; each load and each store of `checkStep` is an action |
| `FreezeArming` | the controller under its two threads | `todo[t]`: the stores thread `t` has still to make in its current call |
| `EmulatorSession` | the debugger part of `EmulatorSession.cpp`, with the run loop at instruction granularity | each thread runs a program of micro-operations: one atomic store, one critical section of `m_stateMutex`, one queue operation or one event each |
| `SessionController` | the run-state operations of `SessionController.cpp` and its events | `Program(c)` is the straight-line program of operation `c`; `mirror` is `m_debugState`; events are taken only between operations, as on a UI thread |
| `KeySequencer` | `KeySequencer.cpp` with the host side of playback (`hostDone`, the InsertCard queue, `playbackFinished`) | `task[l]` is a lane's `m_current`, its `phase` the code's, with `Pressing` and `Applying` added between a poll that succeeds and what it was for; `ui` is what the UI thread has still to do in its call |

### 2.2 The machine

The core is one record `m`; `TMC0501` and `TI59Machine` are operators on it that
return the next record, so that one call of the code is one operator and the
locking is decided where the operator is used.

| Module | Models |
|---|---|
| `DigitSerial`, `Alu` | the digit-serial adder, field masks, exchanges and an ALU opcode's sources (`alu`, `xch`, `mask_info`) |
| `Printer` | the print buffer, BUSY, the text and the code queue |
| `CardReader` | the bank buffer, the direction of a swipe, what is ejected |
| `Display` | strobes, zero suppression, decay, what a poll integrates |
| `TraceRing` | the frame ring: capture, finish, patch, drain with overrun, read (theorems in `MachineProofs`) |
| `TMC0501` | `step()`: every opcode, the RAM operation that acts an instruction later, key scan, library, peripherals, branches, the step boundary latch, `beginNextStep`, the debug overlay's injected run |
| `TI59Machine` | `stepN`, `stepUntilNextKeycode`, `reset`, partition, steps and registers |
| `Machine` | the emulation thread's `MachineStep` interleaved with the calls of the UI thread and the sequencer's: keys, cards, printer switches, the tick in its two drains, heatmap, and the two trace files (`drainTrace` item by item, opening, closing, trace flags) |
| `TraceWriter`, `RomHeatmap`, `AsmOverlay` | a trace file's records and size limit; counts per ROM address; the words of an ASM file |

### 2.3 The desk

| Module | Models | State and actions |
|---|---|---|
| `Models` | `MachineVariant`, `MachineModelInfo` | the three calculators' sizes |
| `CueCard`, `CardFile` | cue cards; both text layouts and the binary layouts of a card file, banks, checksums, a bank made from a `CARD:` block | operators on files as sequences of line records |
| `StateFile` | `parseStateFile`: sections, `CARD:` blocks, stages, errors | a fold over the lines, its accumulator the parser's locals |
| `StateApplier` | loading, reloading, power-on and resets with the ROM's start; `ConstantMemory` | operators on `m` |
| `ModuleCatalog`, `RomLoader` | `cuecards.txt`, a module's ROM file, the calculators' images | operators; a damaged image is `<<>>` |
| `CalcPanel` | `DebugSnapshots`, `ModuleImage`, the operand grammar of `KeyNames`, decimal conversions of `Bcd`, `DebugModel`'s live part | `Snapshot(c, image)` is `buildLiveSnapshot`; a number is sign, 13 digits and a power of ten |
| `Desk` | cards fitted, fed, ejected and written back, queued cards of a script, reloads, presets, resets, model switch, modules, memory file, suspend, cue card, CALCULATOR panel | a call of the UI thread leaves the steps it has still to make in `ui`; the machine steps between any two. `kept` is history for the properties |

Operators introduced as "Mutant of X" are deliberately wrong variants of `X`,
each a bug this code could plausibly have. No specification uses them:
substituting one for `X` makes the property that `PROJECT.json` pairs with it
fail, which shows that the property depends on that piece of code.

### 2.4 Abstractions

* Runtime: a batch is a number of instructions (`BatchLength`), an instruction is a
  nondeterministic new PC and a call of `checkStep`. Of PC values only four
  differ for this code: 0x0000, the scan loop, a step dispatch, anything else.
  `TI59Machine` locks itself per call, so a machine call is one step; a STEP or
  FREEZE job is one step, followed by a second one for its event. `shown` records
  for which generation the frozen view was built and whether the machine has
  moved since. A successful model switch replaces the session: it is `Init`
  again there, and in full in `Desk`.
* Key timing: time is counted in ticks (`Hold` ticks for 100 ms) and passes only
  while no code is between two waits; what is due may run arbitrarily late. A
  lane polls every 1.5 ms; in the model the poll is a step that is possible when
  it would succeed, and may miss any opportunity. A lane's generation is one bit
  of its task in progress. A request of a script is `awaited` until the script
  ends, then `late`: a label for the properties that no guard reads. So is who
  asked for `fullSpeed`, `user` or `script`: the runner has one flag. A reset and a load
  reset the machine, which opens every contact (`DoMachineReset`) and leaves what the
  sequencer knows of its keys as it is.
* Memory is sequentially consistent. The two relaxed loads of `checkStep` could
  only be seen later than here, which the model covers by letting the
  arming stores happen later.
* Machine: pacing, the tick counter, log lines and what only fades (the LED's
  brightness over frames, the indicator's opacity) are left out. A line of the
  paper is its number, so that a text and its dots can be told apart.
* `SavedOrDue` relies on a batch being over when the loop stops: the batch under
  way is `saved.midBatch`, and every call that stops the loop ends it.
* Files are sequences of records, one for a line's kind; splitting a line, case
  and comments are left out. A text is an opaque value. A file that another
  application writes is one of a lab's `changes`.
* A preset's lines are those its section takes.

## 3. Runs

| Run | Instance | Shows |
|---|---|---|
| `runner` | two jobs and `sync`, queue of 4 | the runner's invariants, that `sync` and the destructor return, and that it implements `SerialExecutor` |
| `cooperative_runner` | two jobs and `sync`, queue of 5 | the same promise without a thread; a running machine is pumped |
| `freeze_arming` | four PCs | arming is exclusive store by store |
| `session` | threaded and cooperative sessions with chosen operations | never a dead machine, the panels' copy and the trace flags settle, frozen is stopped, the view is current, what is shown as armed is armed |
| `session_progress` | all operations, any 2 | operations return, freezes are shown, the session's loop is `EmulationRunner`'s |
| `key_lanes` | one load, two taps, a reset, lost focus, the user's speed twice, one freeze or program run | no key stays down, none comes up early unless the machine is reset, a script's full speed ends with it |
| `key_cooperative` | one press, key-up, tap, load with an InsertCard and reset, cooperative | keys come up and cancelled tasks end even if the machine stays busy or frozen for ever; playback waits for its card, and no longer |
| `machine` | some 4000 labs, see below | the properties of the core, the trace files, the cards, presets, memory, cue card and panel |
| `frozen_and_running` | arm, reload | **violation**: a reload undoes a freeze that fires while it starts |
| `short_press` | two presses, a key-up | **violation**: a deferred release cuts the next press of its key short |
| `load_while_inserting` | two loads | **violation**: the new script never plays |
| `lost_card_write` | a script that arms a card file and reloads a cue card | **violation**: what the calculator wrote is neither saved nor reported |

### 3.1 Labs

A lab is one initial state of `machine`: a ROM of a few words, the registers it
starts from, the calls that are made while it runs (`calls`), how many
(`budget`), how many instructions (`steps`), and a desk (files, presets, script).
All labs run under one specification, so each property is checked on all.

| Family | What runs | Properties it feeds |
|---|---|---|
| `Arithmetic` | one ALU opcode: 9 fields x 28 operations x 16 operand pairs | `AluIsDecimal` |
| `Keyboard` | WAIT D0 and KEY in a loop, with and without the switch's line, keys pressed and released at any step | `SweepFindsKey` |
| `Memory` | store and recall through SCOM, `RAM_OP`, MEMWR/MEMRD, with idle instructions, peeks and keys between | `StoredIsRecalled`, `PeekInvisible` |
| `Library` | 0 to 3 digits of the pointer read, then four written and read | `LibraryRoundTrip` |
| `Displayed` | numbers, blanking codes, points in IDLE, with a poll at any step | `DigitsShown` |
| `Printing`, `Switches` | lines, feeds, a second line too early; printer attached, TRACE, reset | `PaperAligned`, `PhysicalLines` |
| `Tracing` | three instructions in a loop, both files, the panel, a ring that overflows, a file that fills | `TraceAccounted` |
| `Cards` | the ROM's reads and writes against insert, eject, reset | `PhysicalLines`, `NoOrphanCard` |
| `Keycodes`, `Overlays` | `stepUntilNextKeycode`, flags, breakpoints, subroutines; ASM files with every error | `PeekInvisible`, all disjuncts |
| `Fitting`, `Scripts` | a ROM that waits for a card and writes bank 2: hand-fed and scripted cards, files replaced, truncated, unreadable, writes that fail | `WriteReachesCard`, `NoOrphanCard`, `CardHoldsMemory` |
| `Booting` | presets with everything and presets with every error, on each calculator, while a breakpoint cuts the start short | `LoadedIsListed`, `PresetBlocksApart` |
| `Constant`, `Failing` | a ROM that stores in turn, against ticks, suspend, resets, model switches, images that do not load | `SavedOrDue` |
| `Showing` | library programs, fitted cards, modules with and without cards or image, presets | `CueShown` |
| `Viewing`, `Listing_` | the panel for every program source and form of X; 1052 programs of one and two instructions | `CueShown`, `LoadedIsListed` |

### 3.2 Bounds

* Runner: `MaxJobs` bounds the queue: two stale loop jobs with a posted job and a
  `sync` between them need four, and no code path looks deeper into the queue than
  its head. `BatchLength` is one: longer batches only postpone the test of `m_running`.
* Session: `MaxCalls` bounds the operations of the UI thread: every race needs one
  operation to arm, one to be raced and one to observe. `MaxGen` bounds the
  generation, which two freezes that fire and two operations raise to four.
* Keys: `Budget` allows each call of the keyboard and of playback so many times: a
  deferred release needs a press and a key-up, and one more press to disturb;
  `MaxTurns` allows one freeze or one run of a program. `Hold` is two ticks, so that
  a press may be released before, halfway and after.
* Machine: what is a size in the code is a constant, and small: a ring of 3
  frames for 1024, drained 3 at a time; banks of 30 bytes for 246 and 12
  registers for 120 (a side is a quarter of them, a partition's unit a twelfth, as
  there); 3 print columns for 20; BUSY of 5 and 2 steps; files of 400 bytes for 50
  MB (three frames and a gap); overlays of 3 words for 2048 and a heatmap below
  address 32; images of 3 words and 2 constant rows; a start of 8 steps, long
  enough for the longest ROM of the `Booting` labs to clear the RAM and return;
  12 ROM keycodes for 384. The 16 digits of a register, the 12 places of the
  display, the 16 rows of the key matrix and the 13-bit opcodes are the real ones.
* A lab ends after `steps` instructions and `budget` calls: 2 to 4 calls, each at
  any point between two instructions, which is one call to set a scene, one to
  be disturbed and one to observe.

**Deadlock** is not checked where the system may stop: the runner has been
destroyed, or the bounded number of operations has been used up. In `machine` a
lab that is over repeats its last state (`Rest`).

**Fairness.** Weak fairness of the emulation thread and of the UI thread's current
call and events: both are operating-system threads that are never starved.
Nothing obliges the user to call anything, and no freeze need ever fire. The lanes,
the timer and the clock are fair likewise, but the machine is not: it need not
come back to its scan loop or be resumed. In cooperative mode the frontend keeps
calling `pump()` (a 60 Hz timer) and a pump ends (its deadline passes `now`, or
the full-speed slice is over), hence the strong fairness of `BatchesDone`.
`machine` checks safety only and states no fairness.

## 4. Disagreements found

Shown by a run each:

* `frozen_and_running`: `applyReloadStage` reads `frozen()` before `stop()`; a freeze
  that fires in between leaves the machine frozen *and running*. (The other
  operations that start the loop in the end have the same shape: a reset resumes
  first and may be overtaken by a freeze that fires before its `stop()`,
  `suspend` reads `isRunning()` before it stops.)
* `short_press`: a key typed twice within 100 ms comes up early the second time,
  when the first press's deferred release is due. It needs one thread only.
* `load_while_inserting`: `applyState()` drops an InsertCard card that the playing
  script waits for. The script then waits for ever, and so does the one just
  loaded. One load while a card is queued is enough - for a sixtieth of a second,
  or as long as another card is in the reader or the debugger has frozen the machine.
* `lost_card_write`: `adoptPresetCue()` drops the fitted card while a pass is under
  way; when the calculator has written the card, `ejectCard()` has no file to
  write it to and reports nothing. `WriteReachesCard` states what holds otherwise.

Other behaviour the models contain, which limits where a property is stated:

* A script's lane polls `isFrozen()` and the scan loop and then presses
  (KeySequencer.cpp:148), with no lock over both: a freeze in between has the key
  pressed into the frozen machine, where it "would be lost" (StateFileFormat.md:269). In
  cooperative mode poll and press are one turn and nothing can come between.
* `hostDone()` lowers one counter for all requests (EmulatorSession.cpp:303). A reset
  cancels a script whose control is on its way; its answer then releases the next
  script before that one's own control is done, although "Playback waits until each
  control has taken effect" (StateFileFormat.md:320). `HostServedFirst` is therefore
  checked for one load; with two loads and a reset it fails. In `Desk` likewise:
  loading a preset clears the count, and a reload of the script before still answers.
* `armPcChange`/`armScanLoopExit` update `DebugState` after the controller's flags: a
  freeze that fires between the two stays shown as armed, although "freezing disarms
  both" (DebugAPI.md:87). `ArmedAsShown` is therefore checked in cooperative mode, where no
  such interleaving exists; with a second thread it fails.
* The loop clears `m_running` before the freeze is applied, so that for a moment the
  machine is stopped and not frozen.
* A queued FREEZE or STEP job has no generation check: after FREEZE, RESUME, FREEZE
  within one batch both jobs step.
* A reset or a load clears the key matrix (TMC0501.cpp:148) under a key that is held
  or tapped: it comes up before its 100 ms, and a key still held on the keyboard has to
  be pressed again. `MinimumHold` makes an exception of it (`MachineResets`).
* The end of a script sets the regular speed, also when the user has asked for full
  speed meanwhile; the user's call in turn ends a script's full speed.
* A key pressed within 100 ms of the one before is down together with it, as the
  deferred release of the first is still to come.
* `startMachine` and `suspend` persist the TI-58C's memory before they stop the
  loop: what is stored between the two is in no file. A soft reset of the TI-58C
  then restores the file (SharedArchitecture.md:404), which may be half a second
  behind the RAM it replaces.
* `cleanReset` clears the RAM and resets the CPU in two locked calls while the loop
  runs; the machine may store in between.
* `loadLibrary` takes no lock (TI59Machine.cpp:31), although CoreArchitecture.md:827
  lists the machine's calls as serialised: the machine may fetch from a library
  that is cleared and not yet filled. It does not clear the latched boundary
  either, so that the panel shows the old module's address until the next step.
* A failed model switch starts the loop of the old machine, in the background too.
* Entering an overlay raises COND once, so that a conditional branch at its start is
  taken ("Also guarantee COND=1", TMC0501.cpp:442); the keyboard loop still runs
  until its HOLD clears, and may lower COND again before the entry is reached.
* `CutPaper` empties both lists while the core may owe the code list a line
  (SessionController.cpp:391); from then on the two lists are not parallel, as the
  app's view model takes them to be (EmulatorViewModel.swift:87). Loading a preset
  cuts too, with the loop stopped but the queues as they are, and a calculator that is
  switched away takes the code lines it owes with it while the strip stays. Labs with
  these calls are left out of `PaperAligned`.
* A drain on the key sequencer's thread that reaches the manual file's limit tells
  nobody (EmulatorSession.cpp:342); the switch stays on until the next press.
* `RomHeatmap::clear` resets the newest number seen to zero: frames still in the
  ring are counted again after a clear while running (the property counts each
  once, since the counts start anew too), the very first frame of a machine is
  never counted, and after 2^32 instructions the number wraps.
* KeyNames.hpp says that operand bytes are never read as opcodes. `argumentSteps`
  reads a label's name after LBL (76) as an instruction, so `LBL STO` shows the
  step behind it as a number. Display only; no program of `Listing_` has it.
* A version 1 card of 984 bytes is written back with one side only; the metadata of
  an id that no section has carries the id of the last section read.

## 5. Proofs

TLAPS proves, for every value of the constants:

* `EmulationRunnerProofs`: `TypeCorrect`; `SyncCallerSafe` (`SyncCallerWaits`, which
  is inductive with the type invariant); `RunningLoopExists`
  (`RunningHasLoop`). The last is not inductive alone: between the two stores of
  `start()` it makes an exception for the client, and a `sync` job that ended
  there would end the exception too early - `SyncCallerWaits` excludes that.
* `CooperativeRunnerProofs`: `TypeCorrect`; `RunningLoopIsPumped`
  (`RunningIsPumped`), from the invariant that a running machine has its mark
  in the queue and that `pump` looks for it only when the jobs in front are done;
  `PumpIsSerialExecutor`.
* `FreezeArmingProofs`: `TypeCorrect`; `ArmingIsExclusive` (`ArmExclusive`). The
  inductive invariant (`IInv`) says that only the last store
  of a UI call arms a freeze and that until then the other one is disarmed or
  its disarming store is still ahead in the same call.
* `RunnerIsSerialExecutor`, `PumpIsSerialExecutor`: every step of either threading is a
  step of `SerialExecutor` or none, which is the safety part of `ImplementsExecutor`
  (its fairness stays with TLC). The thread needs that whoever destroys the runner
  has stopped the loop before and calls nothing afterwards (`DestroyerStops`), which rests on
  `SyncCallerSafe`: a `sync` job that ended later than its caller would set it
  free in the middle of the destructor. `pump` needs
  that the loop has begun only while its mark is at the head of the queue, and that
  `sync` is called for a stopped machine (`QueueInv`): otherwise its job would
  overtake what waits behind the loop.
* `JobQueueProofs`: the facts the two rest on. `Posted` is recursive, so they are
  proved by induction: `Least` finds the least element of a set of numbers
  in the library's theorem that the subsets of a finite set are
  well-founded, `NatSetInduction` follows, then that the recursion defines one function
  (`KeepsExists`, `KeepsUnique`), then `PostedAppend` and `PostedTail`.
* `MachineProofs`, the trace ring: `RingHolds` says that the slot of each of the last
  `RingSize` numbers has the frame of that number, and its PC unless the frame is the
  oldest and says that it is not finished. It holds at the start and through
  every capture and finish (`RingHoldsAtStart`, `CaptureKeepsRing`,
  `FinishKeepsRing`); from it follow `DrainMissesNothing`, `DrainReachesHead` and
  `ReadMissesNothing`. `TraceAccounted` checks what is written from these drains for a ring of three
  frames; the theorems hold for 1024. Two numbers less than the ring's size
  apart never share a slot (`SlotsDiffer`), which is division with remainder.
* `MachineProofs`, the machine and the desk: four invariants of the run `machine` hold
  of `DeskSpec` for every lab, that is for every ROM, library, preset, card
  and set of calls, and for any number of them: `LinesOfSwitches` (`PhysicalLines`),
  `PaperInOrder` (`PaperAligned`), `CardPasses` (`NoOrphanCard`) and `CueCardShown`
  (`CueShown`). All four follow from the invariant `DeskInv` (`DeskInvariant`).
  - From one instruction upwards. `Sound` says of a machine that its card switch
    stands where the card is, that no card is in while one is awaited, and that the
    printer's queues hold consecutive lines (`PrnOk`: how many were drained is the
    serial number less what is queued, and the line that is printing owes one code line
    while BUSY runs). `Held(c, d)` says that d is as sound as c, with the same
    library, switches and drained lines, and no card that c had not. Every opcode, the
    deferred RAM operation, the key scan and the step boundary are `Held`, whatever the
    words of the ROM; so is any number of instructions, as the loops of `stepN`,
    `stepUntilNextKeycode`, the overlay's entry and the ROM's start are folds
    with a value at every number (`RunExists`, by `NatSetInduction` of
    `JobQueueProofs`). Writes into RAM are `Same`: of no concern here.
  - What is not `Held` is named: `Cleaned` is a reset, which releases every key and
    ejects the card and must then set the card's and the printer's lines again;
    `Steady` is what the machine's own steps and its callers' leave as it is,
    the two drains and the switches included.
  - A look at the machine. `beginNextStep()` is called by the debugger as often as it likes,
    and again by the step itself. `PeekChangesNothing` (`PeekInvisible`) shows that it
    does twice what it does once (`BeginTwice`; a capture finds its own frame,
    because the last frame and the head have two slots: `CapturedTwice`) and that the
    printer's countdown, with which a step begins, commutes with it (`TickedBegun`).
    Of the invariant it needs that the machine is whole and its ring has a head (`Headed`).
  - The desk. A call of the UI thread is a list of steps still to be made, which
    a step may put more in front of, and the machine steps between them. None of the
    invariants holds in the middle of a call, so `DeskInv` says what is still
    to come when one does not: a card is in without its pass only while the step of a
    reset that takes it out is to come (`CardOk`, `Moves`); the cue card is out of date
    only until a preset's own is adopted (`CueOk`); library and panel are of the module
    selected unless they are about to be loaded (`LibraryOk`). `UiOk` is the part of
    `ui` that these need: the step that begins a reset, and the one that
    loads a library, are the first of what is left, and a reset that has begun has such a
    step behind it; otherwise a feed might come between the two, or a module's
    load might be taken for the one of a later call.

* `KeySequencerProofs`: `TypeCorrect` says with the types where in one of its calls
  the UI thread is (`CallInProgress`) and that a lane runs what was posted to it. With it
  `NothingIsStuck` (`NoStuckKey`, inductive: "held, released soon or pressed by a busy
  lane" has to hold of every closed contact between any two steps of a cancel) and
  `FullSpeedIsAScripts` (`SpeedOfScript`, with `PlayingIsBusy`): a script's full speed
  never outlasts it, whatever the user sets; the user's own may.
  `KeyOfOneLaneIsHeld` is about a key that no keyboard and no other lane presses
  (`OfOneLane`): `LongEnough` says that its contact's age and the lane's wake time
  add up to `kHold`, as long as the contact is closed. It gives `EveryKeyIsHeld` (`MinimumHold`)
  for an instance whose lanes press different keys and whose keyboard presses none;
  without that the code does otherwise, which is the run `short_press` of section 4. Both
  except the reset of the machine (`MachineResets`). `HostIsServedFirst`
  (`HostServedFirst`) is about one load (`Budget["load"] <= 1`): its invariant
  `OneLoad` follows the request from the lane to the pending count, the request, the
  queued card and the reader, of which exactly one has it; loading over a script
  that waits is a disagreement of section 4.
* `SessionControllerProofs`: programs are sequences of micro-operations, and the proofs say what
  is still to come in them: `Has(p, A)`, `Leads(p, A, B)` (every A has a B after it),
  `Ends(p, A)`. What holds of the parts holds of the programs that are joined from
  them (`Joined`) and of what is left when they have begun (`Begun`).
  `TypeCorrect` includes `SyncOK`: the job of `sync()` is queued or executed once while its
  caller waits. `TraceFlagsSettle` (`TraceFlagsCurrent`) and `MirrorSettles`
  (`MirrorCurrent`): after every change of the state its thread has still to
  recompute the flags, and to pull the state or raise the event that will
  (`FlagsDue`, `MirrorDue`), so nothing is left out of date when nothing is under way.
  `MachineIsRevivable` (`NeverStranded`) is inductive with `KeptAlive`: every stop
  is followed, in its own program, by a start, a freeze or the end of a
  suspension, and a thawed machine that does not run has a start coming.
  `SessionIsRunner` is the step part of `ImplementsRunner`: with its instructions,
  checks, events and panels left out the session is `EmulationRunner`, its UI thread being
  that module's one client. A client there posts only where the queue has room and never calls
  while it is in the middle of a `start()` or a `sync()`, so the invariant `RoomOK` says
  that of the programs: `Fits(p, n)`, what p and the programs that may replace its
  steps can still post fits in n places of the queue (`Roomy`), and the second half of a
  `start()` or a `sync()` is never behind another micro-operation (`HalfFirst`), so
  that the client's state can be read off the first one.
* `SessionFreezeProofs`: `FrozenIsAtRest` (`HaltedWhileFrozen`). No step of the code asks whether
  the machine may be started or frozen; what makes it right stands earlier in
  the same program. `Safe(p, A, B, C, c)` says that before every A of p
  the condition c holds, because it holds now or a B makes it true, and no C in between
  makes it false. `InOrder` is the invariant: only a fired freeze has the
  emulation thread change the state (`EmuFired`), what freezes, waits or enters an
  overlay has stopped the loop (`StoppedFirst`), a cooperative UI thread only takes
  events while a batch executes (`CoopAlone`), the debugger's buttons arm nothing
  (`NothingArmed`), and no program starts a frozen machine (`FrozenStops`). The
  last does not hold for overlapping operations on two threads, as the run
  `frozen_and_running` shows.
  `ArmedIsArmed` (`ArmedAsShown`): `ArmedDue` says with the same means that a freeze is
  armed before it is shown so, that what disarms it goes on to hide it, and that
  while it is shown it is armed, about to be hidden, or has fired; it needs
  `CoopAlone`, as on two threads the freeze fires between the two stores.
  `FrozenIsShown` (`ViewCurrent`) is about the debugger's buttons in either mode. Their
  programs are few, so `InDate` lists what may be left of them (`FreezeSpelled` spells them
  out) and in which generation it stands there: a job is posted in the generation it is for, a
  resumed machine is not frozen, a view is looked at with the panels up to date. `ViewDue` follows
  the present freeze's view from the job to be posted over the last step job in the queue and
  the job being executed to the event, the UI thread's hand and the screen; past the
  job nothing moves the machine, because the loop has been stopped (`FrozenStops`) and no
  freeze is armed (`NothingArmed`).

Assumptions: `RunnerAssumption`, `CooperativeAssumption`, `PcAssumption` (the PCs
with a meaning are PCs, 0xFFFF is none; job names are distinct), `RingAssumption`
(a ring has two slots at least), `SequencerAssumption` (keys, bindings and scripts are such,
`Hold` is positive), `SessionAssumption` and `ControllerAssumption` (the bounds are
numbers, and the queue holds a job at least, the loop the session starts with;
a frontend calls operations of the controller), `PrinterAssumption`,
`StartupAssumption` and `BudgetAssumption` (a line takes a cycle at least; the other
counts are numbers), `KeysAssumption` (no key is wired to the printer's or the
card's lines), `LabAssumption` (a lab starts with a machine that is whole, no key down, no
card in, an empty printer, an empty trace ring and its module's library; a test that works the reader
itself has no frames), and `PresetAssumption` (a preset that was parsed names one of
the three calculators and a printer that is there or not: the parser is a fold over the
lines, and what it yields for every file is induction over data; TLC evaluates it for
the presets of the labs). The bounds of the session's runs
(`MaxJobs`, `MaxGen`, `maxCalls`) are guards of the model, so its theorems hold for
every value of them that the assumptions allow.

Only model-checked: all liveness, with it the fairness of the refinements, that of
`ImplementsRunner` too; and of the machine and the desk what compares
data with data. `AluIsDecimal`, `StoredIsRecalled`, `LibraryRoundTrip`,
`DigitsShown` and `SweepFindsKey` are about a program in a ROM and what it has computed
when it ends, `LoadedIsListed`, `CardHoldsMemory` and `PresetBlocksApart` about files that
are read or written by folds over their lines: to prove them for every value is an
induction over data. `TraceAccounted` counts bytes of a file record by record,
likewise; its ring is proved. `SavedOrDue` compares the RAM with a file's contents, and
`WriteReachesCard` a card with the banks written in its pass. Liveness, ENABLED and
RECURSIVE operators are out of the prover's reach.

## 6. Not modelled, and the plan

Partly modelled, and what is missing:

* `EmulationRunner`: deadlines, the carry of cycles and the jitter of a batch.
* `EmulatorSession`: elapsed-time reports, where a trace file goes.
* `SessionController`: logs, settings, dropped files, paper export, the generation
  check of posted events; `startMachine` switching the manual trace off, and
  `clearAsm` with its reset.
* `TMC0501`: the debug log, tick counter, indicator and disassembler.
* `DebugModel`: the list of recent CPU instructions and the texts of the panels.
* `DisplayPov`: brightness over several frames.

Next, in order of importance:

1. Proofs: that a trace file is contiguous whatever the drains (`Contiguous`), by induction
   over its records; that the memory's file follows the RAM (`SavedOrDue`), on top of
   `DeskInv`, for which the file's encoding has to be shown to be lossless.
2. `Desk` and `SessionController` composed: a freeze that fires while a card is
   written or a reload waits.
3. A model of the library pointer's and the display's promise as abstract
   specifications that `Machine` refines.
4. Pacing: the carry of cycles over batches, and that a machine never runs ahead
   of its clock by more than a batch.

Left out for good: the graphical frontends, text formatting of debug panels,
font and key tables (no state), and the execution of the calculator's real ROM
(out of a model checker's reach).
