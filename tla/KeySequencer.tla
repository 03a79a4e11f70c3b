---------------------------- MODULE KeySequencer ----------------------------
(***************************************************************************)
(* src/Shared/KeySequencer.cpp: the physical keyboard and KEYSTROKES       *)
(* playback, pressing keys in one key matrix.  Two lanes run tasks (a      *)
(* script, a keyboard tap of two codes), a timer makes deferred releases,  *)
(* the UI thread presses and releases the held key and cancels lanes.      *)
(*                                                                         *)
(* Time advances in ticks while no code runs; a deadline is a countdown,   *)
(* and what is due may run late.  A lane's poll is a step enabled when the *)
(* poll would succeed.  A lane's generation is only ever compared with     *)
(* that of its task in progress (the cancel that raises it clears the      *)
(* queue), so a cancel marks that task instead.  Holding an erased         *)
(* m_releases entry before its releaseKey is not a state of its own: only  *)
(* the timer thread reads the list.                                        *)
(*                                                                         *)
(* The host is EmulatorSession: the key matrix, the frozen state, the      *)
(* speed, the count of requests not yet done, and the InsertCard queue.    *)
(* A reset or a load clears the key matrix under whoever holds a key.      *)
(***************************************************************************)
EXTENDS Naturals, Sequences, FiniteSets

CONSTANTS
  Key,          \* matrix codes
  Hold,         \* kHold, in ticks
  Sleep,        \* how long a Wait lasts, in ticks
  Scripts,      \* the KEYSTROKES of the state files that may be loaded
  Bindings,     \* the two-code bindings of the keyboard
  Physical,     \* the keys pressed on the keyboard
  Cooperative,  \* Threading::Cooperative: a step of a lane is never interrupted
  Budget,       \* bound: how often the UI thread makes each call
  MaxTurns      \* bound: how often the machine freezes or leaves its scan loop

Lanes == {"script", "keys"}
Calls == {"keyDown", "binding", "keyUp", "releaseAll", "load", "reset", "setFullSpeed"}

\* "armCard" stands for every directive that only calls the host.
EventKinds == {"key", "wait", "fullSpeed", "regularSpeed", "armCard", "insertCard", "reload", "control"}
Event == [kind : EventKinds, code : Key]

ASSUME SequencerAssumption ==
  /\ Hold \in Nat \ {0} /\ Sleep \in Nat /\ MaxTurns \in Nat
  /\ Budget \in [Calls -> Nat]
  /\ Physical \subseteq Key
  /\ Cooperative \in BOOLEAN
  /\ Scripts \subseteq Seq(Event)
  /\ Bindings \subseteq Key \X Key

VARIABLES
  down,       \* the key matrix: keys whose contact is closed
  age,        \* ticks since the last pressKey of a key, up to Hold
  held,       \* m_heldCode as a set, at most one key
  since,      \* ticks since m_heldSince, up to Hold
  releases,   \* m_releases: the codes to release, with the ticks to go
  highlight,  \* the key shown pressed, as a set
  tasks,      \* m_tasks of each lane
  task,       \* m_current of each lane, or NoTask
  playing,    \* m_playing
  fullSpeed,  \* the runner's speed: who asked last for full speed, or "nobody" at regular speed
  pending,    \* m_hostPending
  requests,   \* reloads and controls on their way to the UI thread, oldest first
  cards,      \* m_queuedCards: the InsertCard ones
  reader,     \* the InsertCard card in the reader (m_queuedCardInReader)
  frozen,     \* isFrozen()
  idle,       \* the PC is in the scan loop
  ui,         \* what the UI thread has still to do in its current call
  calls,      \* how often each call may still be made
  turns

matrix == <<down, age>>
keyboard == <<held, since, releases, highlight>>
lanes == <<tasks, task, playing>>
host == <<pending, requests, cards, reader>>
machine == <<frozen, idle>>
vars == <<down, age, held, since, releases, highlight, tasks, task, playing, fullSpeed,
          pending, requests, cards, reader, frozen, idle, ui, calls, turns>>

\* "Pressing" and "Applying": the poll has succeeded, what it was for is still to come.
Phases == {"Next", "WaitingToPress", "Pressing", "Holding", "WaitingIdle", "Sleeping",
           "WaitingToApply", "Applying", "WaitingHost"}

NewTask(events) ==
  [events |-> events, next |-> 0, phase |-> "Next", wake |-> 0, cancelled |-> FALSE, busy |-> TRUE]
NoTask == [events |-> <<>>, next |-> 0, phase |-> "Next", wake |-> 0, cancelled |-> FALSE, busy |-> FALSE]

\* A request waits to be "served"; when its script has ended it is "late".
Waits == {"awaited", "late"}

Init ==
  /\ down = {} /\ age = [k \in Key |-> Hold]
  /\ held = {} /\ since = Hold /\ releases = {} /\ highlight = {}
  /\ tasks = [l \in Lanes |-> <<>>] /\ task = [l \in Lanes |-> NoTask] /\ playing = FALSE
  /\ fullSpeed = "nobody"
  /\ pending = 0 /\ requests = <<>> /\ cards = <<>> /\ reader = "empty"
  /\ frozen = FALSE /\ idle = TRUE
  /\ ui = <<>> /\ calls = Budget /\ turns = 0

-----------------------------------------------------------------------------
(* The key matrix, and the threads: cooperatively, one thread runs the UI, *)
(* the lanes and the machine in turn.                                      *)

Press(k) == down' = down \union {k} /\ age' = [age EXCEPT ![k] = 0]
Release(k) == down' = down \ {k} /\ UNCHANGED age

MidStep(l) == task[l].phase \in {"Pressing", "Applying"}
Uninterrupted == Cooperative => \A l \in Lanes : ~MidStep(l)
LaneMayRun(l) == Cooperative => ui = <<>> /\ \A o \in Lanes \ {l} : ~MidStep(o)

-----------------------------------------------------------------------------
(* The UI thread *)

Op(o, arg) == <<o, arg>>

Begin(call, ops) ==
  /\ ui = <<>> /\ Uninterrupted
  /\ calls[call] > 0
  /\ calls' = [calls EXCEPT ![call] = @ - 1]
  /\ ui' = ops
  /\ UNCHANGED <<matrix, keyboard, lanes, fullSpeed, host, machine, turns>>

(* keyDown() of one code, and of a two-code binding *)
KeyDown(k) == Begin("keyDown", <<Op("keyUp", <<>>), Op("cancel", "keys"), Op("hold", k), Op("press", k)>>)
KeyDownBinding(codes) == Begin("binding", <<Op("keyUp", <<>>), Op("cancel", "keys"), Op("tap", codes)>>)
KeyUp == Begin("keyUp", <<Op("keyUp", <<>>)>>)
ReleaseAll == Begin("releaseAll", <<Op("cancel", "keys"), Op("releaseAll", <<>>)>>)

(* SessionController::applyState(); and resetMachine() or cleanResetMachine(), *)
(* which begin with beginReset().  Both clear the freeze and reset the machine. *)
Load(s) == Begin("load", <<Op("dropCards", <<>>), Op("resume", <<>>), Op("machineReset", <<>>), Op("play", s)>>)
Reset == Begin("reset", <<Op("cancel", "script"), Op("resume", <<>>), Op("emptyReader", <<>>),
                          Op("dropCards", <<>>), Op("machineReset", <<>>)>>)

(* SessionController::setFullSpeed(), the display held and let go.  It does *)
(* nothing when the controller shows that speed already, or it is set.      *)
SetFullSpeed ==
  /\ ui = <<>> /\ Uninterrupted
  /\ calls["setFullSpeed"] > 0
  /\ calls' = [calls EXCEPT !["setFullSpeed"] = @ - 1]
  /\ fullSpeed' = IF fullSpeed = "nobody" THEN "user" ELSE "nobody"
  /\ UNCHANGED <<matrix, keyboard, lanes, host, machine, ui, turns>>

CallUi ==
  \/ \E k \in Physical : KeyDown(k)
  \/ \E b \in Bindings : KeyDownBinding(b)
  \/ KeyUp
  \/ ReleaseAll
  \/ \E s \in Scripts : Load(s)
  \/ Reset
  \/ SetFullSpeed

UiOp(o) == ui # <<>> /\ Head(ui)[1] = o /\ ui' = Tail(ui) /\ Uninterrupted /\ UNCHANGED <<calls, turns>>
Arg == Head(ui)[2]

(* Mutant of DoKeyUp: a key-up that comes too soon is dropped. *)
DoKeyUpDropped ==
  /\ UiOp("keyUp")
  /\ held' = {}
  /\ highlight' = IF held = {} THEN highlight ELSE {}
  /\ down' = IF since = Hold THEN down \ held ELSE down
  /\ UNCHANGED <<age, since, releases, lanes, fullSpeed, host, machine>>

(* keyUp(): released at once after Hold, deferred before. *)
DoKeyUp ==
  /\ UiOp("keyUp")
  /\ held' = {}
  /\ highlight' = IF held = {} THEN highlight ELSE {}
  /\ \/ /\ since = Hold
        /\ down' = down \ held
        /\ UNCHANGED releases
     \/ /\ since < Hold
        /\ releases' = releases \union {<<Hold - since, k>> : k \in held}
        /\ UNCHANGED down
  /\ UNCHANGED <<age, since, lanes, fullSpeed, host, machine>>

DoCancel ==
  /\ UiOp("cancel")
  /\ tasks' = [tasks EXCEPT ![Arg] = <<>>]
  /\ task' = [task EXCEPT ![Arg].cancelled = task[Arg].busy]
  /\ UNCHANGED <<matrix, keyboard, playing, fullSpeed, host, machine>>

DoHold ==
  /\ UiOp("hold")
  /\ held' = {Arg}
  /\ since' = 0
  /\ highlight' = {Arg}
  /\ UNCHANGED <<matrix, releases, lanes, fullSpeed, host, machine>>

DoPress ==
  /\ UiOp("press")
  /\ Press(Arg)
  /\ UNCHANGED <<keyboard, lanes, fullSpeed, host, machine>>

Tap(codes) == [i \in DOMAIN codes |-> [kind |-> "key", code |-> codes[i]]]

DoPost ==
  /\ \/ UiOp("tap") /\ tasks' = [tasks EXCEPT !["keys"] = Append(@, Tap(Arg))]
     \/ UiOp("play") /\ tasks' = [tasks EXCEPT !["script"] = Append(@, Arg)]
  /\ UNCHANGED <<matrix, keyboard, task, playing, fullSpeed, host, machine>>

DoReleaseAll ==
  /\ UiOp("releaseAll")
  /\ down' = down \ held
  /\ held' = {}
  /\ highlight' = {}
  /\ UNCHANGED <<age, since, releases, lanes, fullSpeed, host, machine>>

(* dropPresetCards() *)
DoDropCards ==
  /\ UiOp("dropCards")
  /\ cards' = <<>>
  /\ UNCHANGED <<matrix, keyboard, lanes, fullSpeed, pending, requests, reader, machine>>

DoResume ==
  /\ UiOp("resume")
  /\ frozen' = FALSE
  /\ UNCHANGED <<matrix, keyboard, lanes, fullSpeed, host, idle>>

(* TI59Machine::reset(): every contact opens, also under a key that is held *)
(* or a lane's tap.  The ROM's start is run at once, or is still to come.   *)
DoMachineReset ==
  /\ UiOp("machineReset")
  /\ down' = {}
  /\ idle' \in BOOLEAN
  /\ UNCHANGED <<age, keyboard, lanes, fullSpeed, host, frozen>>

DoEmptyReader ==
  /\ UiOp("emptyReader")
  /\ reader' = "empty"
  /\ UNCHANGED <<matrix, keyboard, lanes, fullSpeed, pending, requests, cards, machine>>

UiThread ==
  \/ DoKeyUp \/ DoCancel \/ DoHold \/ DoPress \/ DoPost \/ DoReleaseAll
  \/ DoDropCards \/ DoResume \/ DoEmptyReader \/ DoMachineReset

HostDone == pending' = IF pending > 0 THEN pending - 1 ELSE 0
UiIdle == ui = <<>> /\ Uninterrupted

(* applyReloadStage() and applyControl(): a request reaches the UI thread. *)
ServeRequest ==
  /\ UiIdle
  /\ requests # <<>>
  /\ requests' = Tail(requests)
  /\ HostDone
  /\ UNCHANGED <<matrix, keyboard, lanes, fullSpeed, cards, reader, machine, ui, calls, turns>>

(* feedQueuedCard() on a tick, and the end of the card's pass (queuedCardDone) *)
FeedQueuedCard ==
  /\ UiIdle
  /\ reader = "empty" /\ cards # <<>> /\ ~frozen /\ idle
  /\ reader' = Head(cards)
  /\ cards' = Tail(cards)
  /\ UNCHANGED <<matrix, keyboard, lanes, fullSpeed, pending, requests, machine, ui, calls, turns>>

(* Mutant of QueuedCardDone: the host does not report the card's pass. *)
QueuedCardDoneSilent ==
  /\ UiIdle
  /\ reader # "empty"
  /\ reader' = "empty"
  /\ UNCHANGED <<matrix, keyboard, lanes, fullSpeed, pending, requests, cards, machine, ui, calls, turns>>

QueuedCardDone ==
  /\ UiIdle
  /\ reader # "empty"
  /\ reader' = "empty"
  /\ HostDone
  /\ UNCHANGED <<matrix, keyboard, lanes, fullSpeed, requests, cards, machine, ui, calls, turns>>

-----------------------------------------------------------------------------
(* A lane *)

TakeTask(l) ==
  /\ LaneMayRun(l)
  /\ ~task[l].busy /\ tasks[l] # <<>>
  /\ task' = [task EXCEPT ![l] = NewTask(Head(tasks[l]))]
  /\ tasks' = [tasks EXCEPT ![l] = Tail(@)]
  /\ playing' = IF l = "script" THEN TRUE ELSE playing
  /\ UNCHANGED <<matrix, keyboard, fullSpeed, host, machine, ui, calls, turns>>

At(l, p) == LaneMayRun(l) /\ task[l].busy /\ task[l].phase = p /\ UNCHANGED <<machine, ui, calls, turns>>
GotoFor(l, p, n) == task' = [task EXCEPT ![l].phase = p, ![l].wake = n] /\ UNCHANGED <<tasks, playing>>
Goto(l, p) == GotoFor(l, p, 0)

EventOf(l) == task[l].events[task[l].next]

(* Phase Next: the task is at its end, or has been cancelled, ... *)
Ended(l) == task[l].next = Len(task[l].events) \/ (l = "script" /\ task[l].cancelled)

Awaited == reader = "awaited" \/ \E s \in {requests, cards} : \E i \in DOMAIN s : s[i] = "awaited"
Late(s) == [i \in DOMAIN s |-> "late"]

(* Mutant of Finish: full speed outlives the script. *)
FinishAtSpeed(l) ==
  /\ At(l, "Next") /\ Ended(l)
  /\ task' = [task EXCEPT ![l] = NoTask]
  /\ IF l = "script"
     THEN /\ playing' = FALSE
          /\ pending' = 0
          /\ requests' = Late(requests) /\ cards' = Late(cards)
          /\ reader' = IF reader = "empty" THEN reader ELSE "late"
          /\ UNCHANGED highlight
     ELSE highlight' = {} /\ UNCHANGED <<playing, host>>
  /\ UNCHANGED <<matrix, held, since, releases, tasks, fullSpeed>>

(* finish(), then playbackFinished() for a script *)
Finish(l) ==
  /\ At(l, "Next") /\ Ended(l)
  /\ task' = [task EXCEPT ![l] = NoTask]
  /\ IF l = "script"
     THEN /\ playing' = FALSE
          /\ pending' = 0
          /\ requests' = Late(requests) /\ cards' = Late(cards)
          /\ reader' = IF reader = "empty" THEN reader ELSE "late"
          /\ fullSpeed' = "nobody"
          /\ UNCHANGED highlight
     ELSE highlight' = {} /\ UNCHANGED <<playing, fullSpeed, host>>
  /\ UNCHANGED <<matrix, held, since, releases, tasks>>

DropTap ==
  /\ At("keys", "Next") /\ ~Ended("keys") /\ task["keys"].cancelled
  /\ task' = [task EXCEPT !["keys"] = NoTask]
  /\ UNCHANGED <<matrix, keyboard, tasks, playing, fullSpeed, host>>

(* ... or runs its next event. *)
NextPhase ==
  [kind \in EventKinds |->
    CASE kind = "key" -> "WaitingToPress"
      [] kind = "wait" -> "Sleeping"
      [] kind \in {"insertCard", "reload"} -> "WaitingToApply"
      [] kind = "control" -> "WaitingHost"
      [] OTHER -> "Next"]

RunEvent(l) ==
  LET e == task[l].events[task[l].next + 1] IN
  /\ At(l, "Next") /\ ~Ended(l) /\ ~task[l].cancelled
  /\ task' = [task EXCEPT ![l].next = @ + 1, ![l].phase = NextPhase[e.kind],
                          ![l].wake = IF e.kind = "wait" THEN Sleep ELSE 0]
  /\ fullSpeed' = CASE e.kind = "fullSpeed" -> "script"
                    [] e.kind = "regularSpeed" -> "nobody"
                    [] OTHER -> fullSpeed
  /\ \/ e.kind = "control" /\ pending' = pending + 1 /\ requests' = Append(requests, "awaited")
     \/ e.kind # "control" /\ UNCHANGED <<pending, requests>>
  /\ UNCHANGED <<matrix, keyboard, tasks, playing, cards, reader>>

(* Mutants of Cancellable: a cancel cuts the hold short; the wait for the  *)
(* scan loop after a key ignores a cancel.                                 *)
CancellableHold(p) == p \in {"WaitingToPress", "WaitingToApply", "WaitingIdle", "Sleeping", "WaitingHost", "Holding"}
CancellableButIdle(p) == p \in {"WaitingToPress", "WaitingToApply", "Sleeping", "WaitingHost"}

(* The phases that a cancel ends: all that wait, but a hold *)
Cancellable(p) == p \in {"WaitingToPress", "WaitingToApply", "WaitingIdle", "Sleeping", "WaitingHost"}

(* The end of a wait: cancelled, or what it waited for. *)
WaitOver(l) ==
  /\ \/ At(l, task[l].phase) /\ task[l].cancelled /\ Cancellable(task[l].phase)
     \/ At(l, "WaitingIdle") /\ (frozen \/ idle)
     \/ At(l, "Sleeping") /\ task[l].wake = 0
     \/ At(l, "WaitingHost") /\ pending = 0
  /\ Goto(l, "Next")
  /\ UNCHANGED <<matrix, keyboard, fullSpeed, host>>

(* The poll, ... *)
MayPress(l) == IF l = "script" THEN ~frozen /\ idle ELSE frozen \/ idle

PollToPress(l) ==
  /\ At(l, "WaitingToPress") /\ ~task[l].cancelled /\ MayPress(l)
  /\ Goto(l, "Pressing")
  /\ UNCHANGED <<matrix, keyboard, fullSpeed, host>>

PollToApply(l) ==
  /\ At(l, "WaitingToApply") /\ ~task[l].cancelled /\ ~frozen /\ idle
  /\ Goto(l, "Applying")
  /\ UNCHANGED <<matrix, keyboard, fullSpeed, host>>

(* ... and what it was for *)
PressTapped(l) ==
  /\ At(l, "Pressing")
  /\ Press(EventOf(l).code)
  /\ highlight' = IF l = "keys" THEN {EventOf(l).code} ELSE highlight
  /\ GotoFor(l, "Holding", Hold)
  /\ UNCHANGED <<held, since, releases, fullSpeed, host>>

(* Mutant of ReleaseTapped: a cancel ends the hold. *)
ReleaseTappedEarly(l) ==
  /\ At(l, "Holding") /\ (task[l].wake = 0 \/ task[l].cancelled)
  /\ Release(EventOf(l).code)
  /\ Goto(l, "WaitingIdle")
  /\ UNCHANGED <<keyboard, fullSpeed, host>>

ReleaseTapped(l) ==
  /\ At(l, "Holding") /\ task[l].wake = 0
  /\ Release(EventOf(l).code)
  /\ Goto(l, "WaitingIdle")
  /\ UNCHANGED <<keyboard, fullSpeed, host>>

(* Mutant of Apply: a request the script does not wait for. *)
ApplyUncounted(l) ==
  /\ At(l, "Applying")
  /\ \/ EventOf(l).kind = "reload" /\ requests' = Append(requests, "awaited") /\ UNCHANGED cards
     \/ EventOf(l).kind = "insertCard" /\ cards' = Append(cards, "awaited") /\ UNCHANGED requests
  /\ Goto(l, "WaitingHost")
  /\ UNCHANGED <<matrix, keyboard, fullSpeed, pending, reader>>

Apply(l) ==
  /\ At(l, "Applying")
  /\ pending' = pending + 1
  /\ \/ EventOf(l).kind = "reload" /\ requests' = Append(requests, "awaited") /\ UNCHANGED cards
     \/ EventOf(l).kind = "insertCard" /\ cards' = Append(cards, "awaited") /\ UNCHANGED requests
  /\ Goto(l, "WaitingHost")
  /\ UNCHANGED <<matrix, keyboard, fullSpeed, reader>>

Step(l) ==
  \/ Finish(l) \/ (l = "keys" /\ DropTap) \/ RunEvent(l) \/ WaitOver(l)
  \/ PollToPress(l) \/ PollToApply(l) \/ PressTapped(l) \/ ReleaseTapped(l) \/ Apply(l)

Lane(l) == TakeTask(l) \/ Step(l)

-----------------------------------------------------------------------------
(* The timer thread, time, and the machine *)

ReleaseDue ==
  /\ Cooperative => UiIdle
  /\ \E r \in releases : r[1] = 0 /\ releases' = releases \ {r} /\ Release(r[2])
  /\ UNCHANGED <<held, since, highlight, lanes, fullSpeed, host, machine, ui, calls, turns>>

Sooner(n) == IF n > 0 THEN n - 1 ELSE 0
Older(n) == IF n < Hold THEN n + 1 ELSE Hold

Tick ==
  /\ ui = <<>> /\ \A l \in Lanes : ~MidStep(l)
  /\ age' = [k \in Key |-> Older(age[k])]
  /\ since' = Older(since)
  /\ releases' = {<<Sooner(r[1]), r[2]>> : r \in releases}
  /\ task' = [l \in Lanes |-> [task[l] EXCEPT !.wake = Sooner(@)]]
  /\ UNCHANGED <<down, held, highlight, tasks, playing, fullSpeed, host, machine, ui, calls, turns>>

(* The machine freezes, or its program starts; the end of a program and a  *)
(* RESUME are not counted.                                                 *)
Machine ==
  /\ Cooperative => UiIdle
  /\ \/ ~frozen /\ turns < MaxTurns /\ frozen' = TRUE /\ turns' = turns + 1 /\ UNCHANGED idle
     \/ ~frozen /\ idle /\ turns < MaxTurns /\ idle' = FALSE /\ turns' = turns + 1 /\ UNCHANGED frozen
     \/ ~frozen /\ ~idle /\ idle' = TRUE /\ UNCHANGED <<frozen, turns>>
     \/ frozen /\ frozen' = FALSE /\ UNCHANGED <<idle, turns>>
  /\ UNCHANGED <<matrix, keyboard, lanes, fullSpeed, host, ui, calls>>

Next ==
  \/ CallUi \/ UiThread \/ ServeRequest \/ FeedQueuedCard \/ QueuedCardDone
  \/ \E l \in Lanes : Lane(l)
  \/ ReleaseDue \/ Tick \/ Machine

Spec == Init /\ [][Next]_vars

(* Every thread runs what it can; nothing is assumed of the user, nor that *)
(* a frozen machine is resumed or a program comes to its end.              *)
Fairness ==
  /\ WF_vars(UiThread) /\ WF_vars(ServeRequest) /\ WF_vars(FeedQueuedCard) /\ WF_vars(QueuedCardDone)
  /\ \A l \in Lanes : WF_vars(Lane(l))
  /\ WF_vars(ReleaseDue) /\ WF_vars(Tick)

FairSpec == Spec /\ Fairness

-----------------------------------------------------------------------------
(* Properties *)

(* Every key that is down is about to come up: it is the key held on the   *)
(* keyboard, its release is deferred, or a lane is holding it.  No cancel, *)
(* key change or lost focus leaves a key behind (KeySequencer::step()'s    *)
(* "the key must still come up").                                          *)
NoStuckKey ==
  \A k \in down :
    \/ k \in held
    \/ \E r \in releases : r[2] = k
    \/ \E l \in Lanes : task[l].phase = "Holding" /\ EventOf(l).code = k

(* ... and it does come up, unless it is held on the keyboard, whatever    *)
(* the machine does meanwhile.                                             *)
KeysComeUp == \A k \in Key : (k \in down /\ k \notin held) ~> (k \notin down \/ k \in held)

(* A key is down for kHold at least, whoever pressed it and whatever was   *)
(* pressed, cancelled or frozen meanwhile ("A press is held at least       *)
(* 100 ms", KeySequencer::keyUp() and Phase::Holding).  Only a reset of    *)
(* the machine, its own or a load's, opens the contacts before.            *)
MachineResets == ui # <<>> /\ Head(ui)[1] = "machineReset" /\ ui' = Tail(ui)
MinimumHold ==
  [][\A k \in Key : k \in down /\ k \notin down' => age[k] = Hold \/ MachineResets]_vars

(* Playback goes on only after the host has done what it asked for: no     *)
(* request of a script is still waiting when the script has left           *)
(* Phase::WaitingHost, unless it was cancelled ("Playback waits until each *)
(* control has taken effect", StateFileFormat.md).  It holds of one load:  *)
(* hostDone() does not tell the requests of two scripts apart.             *)
HostServedFirst ==
  task["script"].phase # "WaitingHost" /\ ~task["script"].cancelled => ~Awaited

(* A cancelled task ends, even if the machine never again comes back to    *)
(* its scan loop or is never resumed (Lane::cancel()).                     *)
CancelEnds == \A l \in Lanes : task[l].cancelled ~> ~task[l].cancelled

(* A script that waits for the host goes on, provided the machine is not   *)
(* for ever frozen or busy: no request is lost (hostDone()).               *)
HostAnswers == <>[](~frozen /\ idle) => []<>(task["script"].phase # "WaitingHost")

(* A script that is loaded while another plays is played after it, under   *)
(* the same proviso: "A new load's KEYSTROKES queue behind a script still  *)
(* playing" (reference/StateFileFormat.md).                                *)
NewLoadPlays == <>[](~frozen /\ idle) => []<>(tasks["script"] = <<>>)

(* The full speed a script asked for ends with it, however it ends and     *)
(* whatever the user did to the speed meanwhile (playbackFinished(): "A    *)
(* script always ends at regular speed").  The user's own may outlast it.  *)
SpeedOfScript == fullSpeed = "script" => playing

=============================================================================
