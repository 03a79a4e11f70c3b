-------------------------- MODULE KeySequencerProofs --------------------------
(***************************************************************************)
(* Nothing is left pressed, a script's full speed ends with it, a key is   *)
(* held as long as it must be and no script runs ahead of its host: for    *)
(* every matrix, script and keyboard map, and any number of calls.         *)
(***************************************************************************)
EXTENDS KeySequencer, SequenceTheorems, TLAPS

-----------------------------------------------------------------------------
(* What each variable may hold.  A lane only ever runs what was posted to  *)
(* it: a script of a state file, or the two taps of a binding.             *)

Source(l) == IF l = "script" THEN Scripts ELSE {Tap(b) : b \in Bindings}

Task(l) == [events : Source(l) \union {<<>>}, next : Nat, phase : Phases, wake : Nat,
            cancelled : BOOLEAN, busy : BOOLEAN]

KeyPhases == {"WaitingToPress", "Pressing", "Holding"}

Speeds == {"nobody", "user", "script"}

(* Past its first step, a task is at one of its events. *)
TaskOK(l) ==
  /\ task[l] \in Task(l)
  /\ task[l].next <= Len(task[l].events)
  /\ task[l].phase # "Next" => task[l].busy /\ task[l].next > 0
  /\ task[l].phase \in KeyPhases => EventOf(l).kind = "key"

KeyboardOK ==
  /\ down \subseteq Key /\ age \in [Key -> 0..Hold]
  /\ held \subseteq Key /\ since \in 0..Hold
  /\ releases \subseteq (0..Hold) \X Key
  /\ highlight \subseteq Key

LanesOK ==
  /\ DOMAIN tasks = Lanes /\ DOMAIN task = Lanes
  /\ \A l \in Lanes : tasks[l] \in Seq(Source(l)) /\ TaskOK(l)
  /\ playing \in BOOLEAN /\ fullSpeed \in Speeds

HostOK ==
  /\ pending \in Nat /\ requests \in Seq(Waits) /\ cards \in Seq(Waits)
  /\ reader \in Waits \union {"empty"}
  /\ frozen \in BOOLEAN /\ idle \in BOOLEAN

(* What the UI thread has still to do is the end of one of its calls.  When *)
(* it is about to hold a key no other is held; when it is about to press    *)
(* one, that is the key held.                                               *)
EndOfKeyDown(k) ==
  \/ ui = <<Op("keyUp", <<>>), Op("cancel", "keys"), Op("hold", k), Op("press", k)>>
  \/ ui = <<Op("cancel", "keys"), Op("hold", k), Op("press", k)>> /\ held = {}
  \/ ui = <<Op("hold", k), Op("press", k)>> /\ held = {}
  \/ ui = <<Op("press", k)>> /\ held = {k}
EndOfBinding(b) ==
  \/ ui = <<Op("keyUp", <<>>), Op("cancel", "keys"), Op("tap", b)>>
  \/ ui = <<Op("cancel", "keys"), Op("tap", b)>>
  \/ ui = <<Op("tap", b)>>
EndOfLoad(s) ==
  \/ ui = <<Op("dropCards", <<>>), Op("resume", <<>>), Op("machineReset", <<>>), Op("play", s)>>
  \/ ui = <<Op("resume", <<>>), Op("machineReset", <<>>), Op("play", s)>>
  \/ ui = <<Op("machineReset", <<>>), Op("play", s)>>
  \/ ui = <<Op("play", s)>>
EndOfReset ==
  \/ ui = <<Op("cancel", "script"), Op("resume", <<>>), Op("emptyReader", <<>>),
            Op("dropCards", <<>>), Op("machineReset", <<>>)>>
  \/ ui = <<Op("resume", <<>>), Op("emptyReader", <<>>), Op("dropCards", <<>>), Op("machineReset", <<>>)>>
  \/ ui = <<Op("emptyReader", <<>>), Op("dropCards", <<>>), Op("machineReset", <<>>)>>
  \/ ui = <<Op("dropCards", <<>>), Op("machineReset", <<>>)>>
  \/ ui = <<Op("machineReset", <<>>)>>
EndOfRelease ==
  \/ ui = <<Op("keyUp", <<>>)>>
  \/ ui = <<Op("cancel", "keys"), Op("releaseAll", <<>>)>>
  \/ ui = <<Op("releaseAll", <<>>)>>

CallInProgress ==
  \/ ui = <<>>
  \/ EndOfRelease \/ EndOfReset
  \/ \E k \in Physical : EndOfKeyDown(k)
  \/ \E b \in Bindings : EndOfBinding(b)
  \/ \E s \in Scripts : EndOfLoad(s)

TypeOK ==
  /\ KeyboardOK /\ LanesOK /\ HostOK /\ CallInProgress
  /\ calls \in [Calls -> Nat] /\ turns \in Nat

PlayingIsBusy == playing = task["script"].busy

Pressed(l, k) == task[l].phase = "Holding" /\ EventOf(l).code = k
CodesOf(l) == UNION {{s[i].code : i \in {j \in DOMAIN s : s[j].kind = "key"}} : s \in Source(l)}
OfOneLane(k) == k \notin Physical /\ \A l \in Lanes : \A o \in Lanes \ {l} : k \in CodesOf(l) => k \notin CodesOf(o)

LongEnough(k) ==
  /\ k \notin held /\ \A r \in releases : r[2] # k
  /\ \A l \in Lanes : Pressed(l, k) => age[k] + task[l].wake >= Hold

NothingAsked == pending = 0 /\ requests = <<>> /\ cards = <<>> /\ reader = "empty"
OneAsked ==
  /\ pending = 1
  /\ \/ Len(requests) = 1 /\ cards = <<>> /\ reader = "empty"
     \/ requests = <<>> /\ Len(cards) = 1 /\ reader = "empty"
     \/ requests = <<>> /\ cards = <<>> /\ reader # "empty"
PlayDue == ui # <<>> /\ ui[Len(ui)][1] = "play"
DropDue == ui # <<>> /\ Head(ui)[1] \in {"resume", "emptyReader", "dropCards"}
Active == task["script"].busy /\ ~task["script"].cancelled

OneLoad ==
  /\ calls["load"] <= 1
  /\ calls["load"] > 0 => ~PlayDue /\ tasks["script"] = <<>>
  /\ PlayDue => tasks["script"] = <<>>
  /\ Len(tasks["script"]) <= 1
  /\ calls["load"] > 0 \/ PlayDue \/ tasks["script"] # <<>> => NothingAsked /\ ~task["script"].busy
  /\ DropDue => tasks["script"] = <<>> /\ ~Active
  /\ ~task["script"].busy => ~Awaited
  /\ Active => NothingAsked \/ (task["script"].phase = "WaitingHost" /\ OneAsked)

-----------------------------------------------------------------------------
(* What the lanes run is made of events, and the taps of key events.        *)
LEMMA SourceEvents ==
  /\ \A l \in Lanes : Source(l) \subseteq Seq(Event)
  /\ \A s \in Source("keys") : \A i \in 1..Len(s) : s[i].kind = "key"
<1>1. ASSUME NEW b \in Bindings
      PROVE  /\ Tap(b) \in Seq(Event) /\ Len(Tap(b)) = 2
             /\ \A i \in 1..2 : Tap(b)[i].kind = "key"
  <2>1. b \in Key \X Key
    BY SequencerAssumption DEF SequencerAssumption
  <2>2. DOMAIN b = 1..2 /\ \A i \in 1..2 : b[i] \in Key
    BY <2>1
  <2>3. Tap(b) \in [1..2 -> Event] /\ \A i \in 1..2 : Tap(b)[i].kind = "key"
    BY <2>2 DEF Tap, Event, EventKinds
  <2>4. Tap(b) \in Seq(Event)
    BY <2>3, SeqDef
  <2> QED
    BY <2>3, <2>4, LenProperties
<1>2. Scripts \subseteq Seq(Event)
  BY SequencerAssumption DEF SequencerAssumption
<1> QED
  BY <1>1, <1>2 DEF Source, Lanes

(* The event a running task is at is an event.                              *)
LEMMA AtAnEvent ==
  ASSUME NEW l \in Lanes, TaskOK(l), task[l].next > 0
  PROVE  /\ EventOf(l) \in Event
         /\ l = "keys" => EventOf(l).kind = "key"
         /\ EventOf(l).kind = "key" => EventOf(l).code \in CodesOf(l)
<1>1. task[l].events \in Source(l) /\ task[l].events \in Seq(Event)
  <2>1. task[l].events # <<>>
    BY DEF TaskOK, Task
  <2> QED
    BY <2>1, SourceEvents DEF TaskOK, Task
<1>2. task[l].next \in 1..Len(task[l].events)
  BY <1>1 DEF TaskOK, Task
<1>3. EventOf(l) \in Event
  BY <1>1, <1>2 DEF EventOf
<1>4. l = "keys" => EventOf(l).kind = "key"
  BY <1>1, <1>2, SourceEvents DEF EventOf
<1>5. EventOf(l).kind = "key" => EventOf(l).code \in CodesOf(l)
  <2>1. task[l].next \in DOMAIN task[l].events
    BY <1>1, <1>2
  <2> QED
    BY <1>1, <2>1 DEF EventOf, CodesOf
<1> QED
  BY <1>3, <1>4, <1>5

(* A task that is not at its end has a next event.                          *)
LEMMA NextEvent ==
  ASSUME NEW l \in Lanes, TaskOK(l), ~Ended(l)
  PROVE  /\ task[l].events \in Seq(Event) /\ task[l].next + 1 \in 1..Len(task[l].events)
         /\ task[l].events[task[l].next + 1] \in Event
         /\ l = "keys" => task[l].events[task[l].next + 1].kind = "key"
<1>1. task[l].events \in Seq(Event) /\ task[l].events \in Source(l) \union {<<>>}
  BY SourceEvents, EmptySeq DEF TaskOK, Task
<1>2. task[l].next + 1 \in 1..Len(task[l].events)
  <2>1. task[l].next # Len(task[l].events) /\ task[l].next <= Len(task[l].events) /\ task[l].next \in Nat
    BY DEF Ended, TaskOK, Task
  <2> QED
    BY <1>1, <2>1, LenProperties
<1>3. task[l].events # <<>>
  BY <1>2
<1> QED
  BY <1>1, <1>2, <1>3, SourceEvents, ElementOfSeq

LEMMA PhaseOfEvent ==
  ASSUME NEW k \in EventKinds
  PROVE  /\ NextPhase[k] \in Phases
         /\ NextPhase[k] \in KeyPhases => k = "key"
         /\ NextPhase[k] = "WaitingHost" => k = "control"
         /\ k = "control" => NextPhase[k] = "WaitingHost"
         /\ NextPhase[k] \notin {"Holding", "Pressing", "Applying"}
<1>1. NextPhase[k] = CASE k = "key" -> "WaitingToPress"
      [] k = "wait" -> "Sleeping"
      [] k \in {"insertCard", "reload"} -> "WaitingToApply"
      [] k = "control" -> "WaitingHost"
      [] OTHER -> "Next"
  BY DEF NextPhase
<1> QED
  BY <1>1 DEF Phases, KeyPhases, EventKinds

-----------------------------------------------------------------------------
(* The calls of the UI thread. *)

LEMMA InitTyped == Init => TypeOK
<1> SUFFICES ASSUME Init PROVE TypeOK
  OBVIOUS
<1>1. KeyboardOK
  BY SequencerAssumption DEF SequencerAssumption, Init, KeyboardOK
<1>2. LanesOK
  <2>1. \A l \in Lanes : TaskOK(l)
    BY DEF Init, TaskOK, Task, NoTask, Phases, KeyPhases
  <2> QED
    BY <2>1, EmptySeq DEF Init, LanesOK, Speeds
<1>3. HostOK /\ CallInProgress
  BY EmptySeq DEF Init, HostOK, CallInProgress
<1> QED
  BY <1>1, <1>2, <1>3, SequencerAssumption DEF SequencerAssumption, Init, TypeOK

(* Steps that leave the UI thread where it is.                              *)
LEMMA CallKept ==
  ASSUME CallInProgress, UNCHANGED <<held, ui>>
  PROVE  CallInProgress'
  BY DEF CallInProgress, EndOfRelease, EndOfReset, EndOfKeyDown, EndOfBinding, EndOfLoad

LEMMA CallTyped == TypeOK /\ CallUi => TypeOK'
<1> SUFFICES ASSUME TypeOK, CallUi PROVE TypeOK'
  OBVIOUS
<1>1. CASE SetFullSpeed
  <2>1. LanesOK'
    BY <1>1 DEF SetFullSpeed, Speeds, TypeOK, LanesOK, TaskOK, EventOf, lanes
  <2>2. calls' \in [Calls -> Nat]
    BY <1>1 DEF SetFullSpeed, TypeOK, Calls
  <2> QED
    BY <1>1, <2>1, <2>2, CallKept DEF SetFullSpeed, TypeOK, KeyboardOK, HostOK, matrix, keyboard, host, machine
<1>2. ASSUME ~SetFullSpeed PROVE TypeOK'
  <2>1. \E c \in Calls : \E p : Begin(c, p) /\ CallInProgress'
    BY <1>2 DEF CallUi, KeyDown, KeyDownBinding, KeyUp, ReleaseAll, Load, Reset, Calls, Begin, CallInProgress,
       EndOfRelease, EndOfReset, EndOfKeyDown, EndOfBinding, EndOfLoad
  <2>2. PICK c \in Calls : \E p : Begin(c, p) /\ CallInProgress'
    BY <2>1
  <2>3. PICK p : Begin(c, p) /\ CallInProgress'
    BY <2>2
  <2>4. KeyboardOK' /\ LanesOK' /\ HostOK'
    BY <2>3 DEF Begin, TypeOK, KeyboardOK, LanesOK, TaskOK, HostOK, EventOf, matrix, keyboard, lanes, host, machine
  <2>5. calls' \in [Calls -> Nat] /\ turns' \in Nat
    BY <2>3 DEF Begin, TypeOK
  <2> QED
    BY <2>3, <2>4, <2>5 DEF TypeOK
<1> QED
  BY <1>1, <1>2

(* What a step of a call does, and that what remains is the end of a call.  *)
HeldAfter(o) ==
  held' = IF o \in {"keyUp", "releaseAll"} THEN {} ELSE IF o = "hold" THEN {Arg} ELSE held
StepOfCall(o) ==
  /\ CallInProgress'
  /\ o = "cancel" => Arg \in Lanes
  /\ o \in {"hold", "press"} => Arg \in Physical
  /\ o = "hold" => held = {}
  /\ o = "press" => held = {Arg}
  /\ o = "tap" => Arg \in Bindings
  /\ o = "play" => Arg \in Scripts

LEMMA Tails ==
  \A a, b, c, d, e :
    /\ Head(<<a>>) = a /\ Tail(<<a>>) = <<>>
    /\ Head(<<a, b>>) = a /\ Tail(<<a, b>>) = <<b>>
    /\ Head(<<a, b, c>>) = a /\ Tail(<<a, b, c>>) = <<b, c>>
    /\ Head(<<a, b, c, d>>) = a /\ Tail(<<a, b, c, d>>) = <<b, c, d>>
    /\ Head(<<a, b, c, d, e>>) = a /\ Tail(<<a, b, c, d, e>>) = <<b, c, d, e>>
  OBVIOUS

LEMMA UiProgress ==
  ASSUME CallInProgress, NEW o, UiOp(o), HeldAfter(o)
  PROVE  StepOfCall(o)
<1>1. CASE EndOfRelease
  <2>1. ui' = <<>> \/ EndOfRelease'
    BY <1>1, Tails DEF EndOfRelease, UiOp
  <2>2. CallInProgress'
    BY <2>1 DEF CallInProgress
  <2> QED
    BY <1>1, <2>2 DEF EndOfRelease, StepOfCall, UiOp, Arg, Op, Lanes
<1>2. CASE EndOfReset
  <2>1. ui' = <<>> \/ EndOfReset'
    <3>1. CASE ui = <<Op("cancel", "script"), Op("resume", <<>>), Op("emptyReader", <<>>),
                      Op("dropCards", <<>>), Op("machineReset", <<>>)>>
      BY <3>1, Tails DEF EndOfReset, UiOp
    <3>2. CASE ui = <<Op("resume", <<>>), Op("emptyReader", <<>>), Op("dropCards", <<>>), Op("machineReset", <<>>)>>
      BY <3>2, Tails DEF EndOfReset, UiOp
    <3>3. CASE ui = <<Op("emptyReader", <<>>), Op("dropCards", <<>>), Op("machineReset", <<>>)>>
      BY <3>3, Tails DEF EndOfReset, UiOp
    <3>4. CASE ui = <<Op("dropCards", <<>>), Op("machineReset", <<>>)>> \/ ui = <<Op("machineReset", <<>>)>>
      BY <3>4, Tails DEF EndOfReset, UiOp
    <3> QED
      BY <1>2, <3>1, <3>2, <3>3, <3>4 DEF EndOfReset
  <2>2. CallInProgress'
    BY <2>1 DEF CallInProgress
  <2> QED
    BY <1>2, <2>2 DEF EndOfReset, StepOfCall, UiOp, Arg, Op, Lanes
<1>3. ASSUME NEW k \in Physical, EndOfKeyDown(k) PROVE StepOfCall(o)
  <2>1. ui' = <<>> \/ EndOfKeyDown(k)'
    <3>1. CASE ui = <<Op("keyUp", <<>>), Op("cancel", "keys"), Op("hold", k), Op("press", k)>>
      <4>1. o = "keyUp" /\ ui' = <<Op("cancel", "keys"), Op("hold", k), Op("press", k)>>
        BY <3>1, Tails DEF UiOp, Op
      <4> QED
        BY <4>1 DEF EndOfKeyDown, HeldAfter
    <3>2. CASE ui = <<Op("cancel", "keys"), Op("hold", k), Op("press", k)>> /\ held = {}
      <4>1. o = "cancel" /\ ui' = <<Op("hold", k), Op("press", k)>>
        BY <3>2, Tails DEF UiOp, Op
      <4> QED
        BY <3>2, <4>1 DEF EndOfKeyDown, HeldAfter
    <3>3. CASE ui = <<Op("hold", k), Op("press", k)>>
      <4>1. o = "hold" /\ Arg = k /\ ui' = <<Op("press", k)>>
        BY <3>3, Tails DEF UiOp, Op, Arg
      <4> QED
        BY <4>1 DEF EndOfKeyDown, HeldAfter
    <3>4. CASE ui = <<Op("press", k)>>
      BY <3>4, Tails DEF UiOp
    <3> QED
      BY <1>3, <3>1, <3>2, <3>3, <3>4 DEF EndOfKeyDown
  <2>2. CallInProgress'
    BY <2>1 DEF CallInProgress
  <2> QED
    BY <1>3, <2>2 DEF EndOfKeyDown, StepOfCall, UiOp, Arg, Op, Lanes
<1>4. ASSUME NEW b \in Bindings, EndOfBinding(b) PROVE StepOfCall(o)
  <2>1. ui' = <<>> \/ EndOfBinding(b)'
    <3>1. CASE ui = <<Op("keyUp", <<>>), Op("cancel", "keys"), Op("tap", b)>>
      BY <3>1, Tails DEF EndOfBinding, UiOp
    <3>2. CASE ui = <<Op("cancel", "keys"), Op("tap", b)>> \/ ui = <<Op("tap", b)>>
      BY <3>2, Tails DEF EndOfBinding, UiOp
    <3> QED
      BY <1>4, <3>1, <3>2 DEF EndOfBinding
  <2>2. CallInProgress'
    BY <2>1 DEF CallInProgress
  <2> QED
    BY <1>4, <2>2 DEF EndOfBinding, StepOfCall, UiOp, Arg, Op, Lanes
<1>5. ASSUME NEW s \in Scripts, EndOfLoad(s) PROVE StepOfCall(o)
  <2>1. ui' = <<>> \/ EndOfLoad(s)'
    <3>1. CASE ui = <<Op("dropCards", <<>>), Op("resume", <<>>), Op("machineReset", <<>>), Op("play", s)>>
      BY <3>1, Tails DEF EndOfLoad, UiOp
    <3>2. CASE ui = <<Op("resume", <<>>), Op("machineReset", <<>>), Op("play", s)>>
      BY <3>2, Tails DEF EndOfLoad, UiOp
    <3>3. CASE ui = <<Op("machineReset", <<>>), Op("play", s)>> \/ ui = <<Op("play", s)>>
      BY <3>3, Tails DEF EndOfLoad, UiOp
    <3> QED
      BY <1>5, <3>1, <3>2, <3>3 DEF EndOfLoad
  <2>2. CallInProgress'
    BY <2>1 DEF CallInProgress
  <2> QED
    BY <1>5, <2>2 DEF EndOfLoad, StepOfCall, UiOp, Arg, Op, Lanes
<1>6. ui # <<>>
  BY DEF UiOp
<1> QED
  BY <1>1, <1>2, <1>3, <1>4, <1>5, <1>6 DEF CallInProgress

(* A variable's conjunct of the type invariant survives what leaves its     *)
(* variables alone.                                                         *)
LEMMA LanesKept ==
  ASSUME LanesOK, UNCHANGED <<lanes, fullSpeed>>
  PROVE  LanesOK'
  BY DEF LanesOK, TaskOK, EventOf, lanes

LEMMA UiTyped == TypeOK /\ UiThread => TypeOK'
<1> SUFFICES ASSUME TypeOK, UiThread PROVE TypeOK'
  OBVIOUS
<1> USE DEF TypeOK
<1>1. CASE DoKeyUp
  <2>1. CallInProgress'
    BY <1>1, UiProgress DEF DoKeyUp, HeldAfter, StepOfCall
  <2>2. KeyboardOK'
    BY <1>1, SequencerAssumption DEF SequencerAssumption, DoKeyUp, KeyboardOK
  <2> QED
    BY <1>1, <2>1, <2>2, LanesKept DEF DoKeyUp, UiOp, HostOK, host, machine
<1>2. CASE DoCancel
  <2>1. CallInProgress' /\ Arg \in Lanes
    BY <1>2, UiProgress DEF DoCancel, HeldAfter, StepOfCall, keyboard
  <2>2. LanesOK'
    BY <1>2, <2>1, EmptySeq DEF DoCancel, LanesOK, TaskOK, Task, EventOf
  <2> QED
    BY <1>2, <2>1, <2>2 DEF DoCancel, UiOp, KeyboardOK, HostOK, matrix, keyboard, host, machine
<1>3. CASE DoHold
  <2>1. CallInProgress' /\ Arg \in Key
    BY <1>3, UiProgress, SequencerAssumption DEF SequencerAssumption, DoHold, HeldAfter, StepOfCall
  <2>2. KeyboardOK'
    BY <1>3, <2>1, SequencerAssumption DEF SequencerAssumption, DoHold, KeyboardOK, matrix
  <2> QED
    BY <1>3, <2>1, <2>2, LanesKept DEF DoHold, UiOp, HostOK, host, machine
<1>4. CASE DoPress
  <2>1. CallInProgress' /\ Arg \in Key
    BY <1>4, UiProgress, SequencerAssumption DEF SequencerAssumption, DoPress, HeldAfter, StepOfCall, keyboard
  <2>2. KeyboardOK'
    BY <1>4, <2>1, SequencerAssumption DEF SequencerAssumption, DoPress, Press, KeyboardOK, keyboard
  <2> QED
    BY <1>4, <2>1, <2>2, LanesKept DEF DoPress, UiOp, HostOK, host, machine
<1>5. CASE DoPost
  <2>1. PICK o \in {"tap", "play"} : UiOp(o) /\ (o = "tap" => tasks' = [tasks EXCEPT !["keys"] = Append(@, Tap(Arg))])
                 /\ (o = "play" => tasks' = [tasks EXCEPT !["script"] = Append(@, Arg)])
    BY <1>5 DEF DoPost
  <2>2. CallInProgress' /\ (o = "tap" => Arg \in Bindings) /\ (o = "play" => Arg \in Scripts)
    BY <1>5, <2>1, UiProgress DEF DoPost, HeldAfter, StepOfCall, keyboard
  <2>3. (o = "tap" => Tap(Arg) \in Source("keys")) /\ (o = "play" => Arg \in Source("script"))
    BY <2>2 DEF Source
  <2>4. DOMAIN tasks' = Lanes /\ \A l \in Lanes : tasks'[l] \in Seq(Source(l))
    <3>1. CASE o = "tap"
      <4>1. Append(tasks["keys"], Tap(Arg)) \in Seq(Source("keys"))
        BY <2>3, <3>1, AppendProperties DEF LanesOK, Lanes
      <4> QED
        BY <2>1, <3>1, <4>1 DEF LanesOK, Lanes
    <3>2. CASE o = "play"
      <4>1. Append(tasks["script"], Arg) \in Seq(Source("script"))
        BY <2>3, <3>2, AppendProperties DEF LanesOK, Lanes
      <4> QED
        BY <2>1, <3>2, <4>1 DEF LanesOK, Lanes
    <3> QED
      BY <3>1, <3>2
  <2>5. LanesOK'
    BY <1>5, <2>4 DEF DoPost, LanesOK, TaskOK, EventOf
  <2> QED
    BY <1>5, <2>1, <2>2, <2>5 DEF DoPost, UiOp, KeyboardOK, HostOK, matrix, keyboard, host, machine
<1>6. CASE DoReleaseAll
  <2>1. CallInProgress'
    BY <1>6, UiProgress DEF DoReleaseAll, HeldAfter, StepOfCall
  <2>2. KeyboardOK'
    BY <1>6 DEF DoReleaseAll, KeyboardOK
  <2> QED
    BY <1>6, <2>1, <2>2, LanesKept DEF DoReleaseAll, UiOp, HostOK, host, machine
<1>7. CASE DoDropCards
  <2>1. CallInProgress'
    BY <1>7, UiProgress DEF DoDropCards, HeldAfter, StepOfCall, keyboard
  <2>2. HostOK'
    BY <1>7, EmptySeq DEF DoDropCards, HostOK, machine
  <2> QED
    BY <1>7, <2>1, <2>2, LanesKept DEF DoDropCards, UiOp, KeyboardOK, matrix, keyboard
<1>8. CASE DoResume
  <2>1. CallInProgress'
    BY <1>8, UiProgress DEF DoResume, HeldAfter, StepOfCall, keyboard
  <2> QED
    BY <1>8, <2>1, LanesKept DEF DoResume, UiOp, KeyboardOK, HostOK, matrix, keyboard, host
<1>9. CASE DoEmptyReader
  <2>1. CallInProgress'
    BY <1>9, UiProgress DEF DoEmptyReader, HeldAfter, StepOfCall, keyboard
  <2> QED
    BY <1>9, <2>1, LanesKept DEF DoEmptyReader, UiOp, KeyboardOK, HostOK, matrix, keyboard, machine
<1>10. CASE DoMachineReset
  <2>1. CallInProgress'
    BY <1>10, UiProgress DEF DoMachineReset, HeldAfter, StepOfCall, keyboard
  <2> QED
    BY <1>10, <2>1, LanesKept DEF DoMachineReset, UiOp, KeyboardOK, HostOK, keyboard, host
<1> QED
  BY <1>1, <1>2, <1>3, <1>4, <1>5, <1>6, <1>7, <1>8, <1>9, <1>10 DEF UiThread

LEMMA ServiceTyped == TypeOK /\ (ServeRequest \/ FeedQueuedCard \/ QueuedCardDone) => TypeOK'
<1> SUFFICES ASSUME TypeOK, ServeRequest \/ FeedQueuedCard \/ QueuedCardDone PROVE TypeOK'
  OBVIOUS
<1>1. UNCHANGED <<matrix, keyboard, lanes, fullSpeed, machine, ui, calls, turns>>
  BY DEF ServeRequest, FeedQueuedCard, QueuedCardDone
<1>2. KeyboardOK' /\ LanesOK' /\ CallInProgress'
  BY <1>1, LanesKept, CallKept DEF TypeOK, KeyboardOK, matrix, keyboard
<1>3. HostOK'
  <2>1. CASE ServeRequest
    BY <1>1, <2>1, HeadTailProperties DEF ServeRequest, HostDone, TypeOK, HostOK, machine
  <2>2. CASE FeedQueuedCard
    BY <1>1, <2>2, HeadTailProperties DEF FeedQueuedCard, TypeOK, HostOK, machine
  <2>3. CASE QueuedCardDone
    BY <1>1, <2>3 DEF QueuedCardDone, HostDone, TypeOK, HostOK, machine
  <2> QED
    BY <2>1, <2>2, <2>3
<1> QED
  BY <1>1, <1>2, <1>3 DEF TypeOK

-----------------------------------------------------------------------------
(* The lanes. *)

(* One lane's task changes.                                                 *)
LEMMA TaskReplaced ==
  ASSUME LanesOK, NEW l \in Lanes, NEW t \in Task(l), task' = [task EXCEPT ![l] = t],
         t.next <= Len(t.events),
         t.phase # "Next" => t.busy /\ t.next > 0,
         t.phase \in KeyPhases => t.events[t.next].kind = "key",
         tasks' = tasks, playing' \in BOOLEAN, fullSpeed' \in Speeds
  PROVE  LanesOK'
<1>1. TaskOK(l)'
  BY DEF LanesOK, TaskOK, EventOf
<1>2. ASSUME NEW o \in Lanes \ {l} PROVE TaskOK(o)'
  BY <1>2 DEF LanesOK, TaskOK, EventOf
<1> QED
  BY <1>1, <1>2 DEF LanesOK

(* A step to another phase of the same event.                               *)
LEMMA PhaseTyped ==
  ASSUME LanesOK, NEW l \in Lanes, NEW p \in Phases, NEW n \in Nat, GotoFor(l, p, n),
         task[l].busy, p # "Next" => task[l].next > 0,
         p \in KeyPhases => task[l].phase \in KeyPhases, fullSpeed' = fullSpeed
  PROVE  LanesOK'
<1> DEFINE t == [task[l] EXCEPT !.phase = p, !.wake = n]
<1>1. t \in Task(l) /\ t.phase = p /\ t.busy /\ t.next = task[l].next /\ t.events = task[l].events
  BY DEF LanesOK, TaskOK, Task
<1>2. task' = [task EXCEPT ![l] = t]
  BY DEF GotoFor, LanesOK
<1> QED
  BY <1>1, <1>2, TaskReplaced DEF LanesOK, TaskOK, EventOf, GotoFor

LEMMA LaneLeavesCall ==
  ASSUME NEW l \in Lanes, Lane(l)
  PROVE  UNCHANGED <<held, since, releases, frozen, idle, ui, calls, turns>>
  BY DEF Lane, TakeTask, Step, Finish, DropTap, RunEvent, WaitOver, PollToPress, PollToApply, PressTapped,
     ReleaseTapped, Apply, At, keyboard, machine

LEMMA LaneTyped ==
  ASSUME TypeOK, NEW l \in Lanes, Lane(l)
  PROVE  TypeOK'
<1> USE DEF TypeOK
<1>0. UNCHANGED <<held, since, releases, frozen, idle, ui, calls, turns>> /\ CallInProgress'
  BY LaneLeavesCall, CallKept
<1>t. TaskOK(l) /\ task[l] \in Task(l)
  BY DEF LanesOK, TaskOK
<1>1. CASE TakeTask(l)
  <2>1. Head(tasks[l]) \in Source(l) /\ Tail(tasks[l]) \in Seq(Source(l))
    BY <1>1, HeadTailProperties DEF TakeTask, LanesOK
  <2>2. NewTask(Head(tasks[l])) \in Task(l)
    BY <2>1 DEF NewTask, Task, Phases
  <2>3. Len(Head(tasks[l])) \in Nat
    BY <2>1, SourceEvents, LenProperties
  <2>4. \A o \in Lanes : TaskOK(o)'
    BY <1>1, <2>2, <2>3 DEF TakeTask, LanesOK, TaskOK, EventOf, NewTask, KeyPhases
  <2>5. LanesOK'
    BY <1>1, <2>1, <2>4 DEF TakeTask, LanesOK
  <2> QED
    BY <1>0, <1>1, <2>5 DEF TakeTask, KeyboardOK, HostOK, matrix, keyboard, host, machine
<1>2. CASE Finish(l)
  <2>1. NoTask \in Task(l)
    BY DEF NoTask, Task, Phases
  <2>2. LanesOK'
    <3>1. task' = [task EXCEPT ![l] = NoTask] /\ tasks' = tasks /\ playing' \in BOOLEAN /\ fullSpeed' \in Speeds
      BY <1>2 DEF Finish, LanesOK, Speeds
    <3>2. NoTask.next <= Len(NoTask.events) /\ NoTask.phase = "Next" /\ NoTask.phase \notin KeyPhases
      BY DEF NoTask, KeyPhases
    <3>3. LanesOK
      OBVIOUS
    <3> QED
      BY <2>1, <3>1, <3>2, <3>3, TaskReplaced
  <2>3. Late(requests) \in Seq(Waits) /\ Late(cards) \in Seq(Waits)
    BY SeqDef DEF HostOK, Late, Waits
  <2>4. HostOK'
    BY <1>0, <1>2, <2>3 DEF Finish, HostOK, Waits, host
  <2>5. KeyboardOK'
    BY <1>2 DEF Finish, KeyboardOK, matrix
  <2> QED
    BY <1>0, <2>2, <2>4, <2>5
<1>3. CASE l = "keys" /\ DropTap
  <2>1. NoTask \in Task(l)
    BY DEF NoTask, Task, Phases
  <2>2. LanesOK'
    <3>1. task' = [task EXCEPT ![l] = NoTask] /\ tasks' = tasks /\ playing' \in BOOLEAN /\ fullSpeed' \in Speeds
      BY <1>3 DEF DropTap, LanesOK
    <3>2. NoTask.next <= Len(NoTask.events) /\ NoTask.phase = "Next" /\ NoTask.phase \notin KeyPhases
      BY DEF NoTask, KeyPhases
    <3>3. LanesOK
      OBVIOUS
    <3> QED
      BY <2>1, <3>1, <3>2, <3>3, TaskReplaced
  <2> QED
    BY <1>0, <1>3, <2>2 DEF DropTap, KeyboardOK, HostOK, matrix, keyboard, host
<1>4. CASE RunEvent(l)
  <2> DEFINE n == task[l].next + 1
             e == task[l].events[n]
             w == IF e.kind = "wait" THEN Sleep ELSE 0
             t == [task[l] EXCEPT !.next = n, !.phase = NextPhase[e.kind], !.wake = w]
  <2>1. task[l].events \in Seq(Event) /\ n \in 1..Len(task[l].events)
    BY <1>4, <1>t, NextEvent DEF RunEvent
  <2>2. e \in Event /\ w \in Nat
    BY <2>1, SequencerAssumption DEF SequencerAssumption
  <2>3. NextPhase[e.kind] \in Phases /\ (NextPhase[e.kind] \in KeyPhases => e.kind = "key")
    BY <2>2, PhaseOfEvent DEF Event
  <2>4. task' = [task EXCEPT ![l] = t] /\ task[l].busy
    BY <1>4 DEF RunEvent, At, LanesOK
  <2>5. t \in Task(l) /\ t.next = n /\ t.phase = NextPhase[e.kind] /\ t.busy = task[l].busy
        /\ t.events = task[l].events
    <3> HIDE DEF w, e, n
    <3>1. n \in Nat
      BY <2>1
    <3> QED
      BY <1>t, <2>2, <2>3, <3>1 DEF Task
  <2>6. fullSpeed' \in Speeds /\ playing' \in BOOLEAN /\ tasks' = tasks
    BY <1>4 DEF RunEvent, LanesOK, Speeds
  <2>7. LanesOK'
    <3> HIDE DEF t, e, w
    <3>1. t.events[t.next].kind = e.kind
      BY <2>5 DEF e
    <3>2. t.next <= Len(t.events) /\ t.next > 0
      BY <2>1, <2>5
    <3>3. (t.phase # "Next" => t.busy /\ t.next > 0) /\ (t.phase \in KeyPhases => t.events[t.next].kind = "key")
      BY <2>3, <2>4, <2>5, <3>1, <3>2
    <3>4. LanesOK
      OBVIOUS
    <3> HIDE DEF n
    <3> QED
      BY <2>4, <2>5, <2>6, <3>2, <3>3, <3>4, TaskReplaced
  <2> HIDE DEF t, e, w, n
  <2>8. HostOK'
    <3>1. Append(requests, "awaited") \in Seq(Waits)
      BY AppendProperties DEF HostOK, Waits
    <3>2. /\ cards' = cards /\ reader' = reader
          /\ \/ pending' = pending + 1 /\ requests' = Append(requests, "awaited")
             \/ pending' = pending /\ requests' = requests
      BY <1>4 DEF RunEvent
    <3>3. requests' \in Seq(Waits)
      BY <3>1, <3>2, Zenon DEF HostOK
    <3>4. pending' \in Nat
      BY <3>2 DEF HostOK
    <3> QED
      BY <1>0, <3>2, <3>3, <3>4 DEF HostOK
  <2> QED
    BY <1>0, <1>4, <2>7, <2>8 DEF RunEvent, KeyboardOK, matrix, keyboard
<1>5. CASE WaitOver(l)
  <2>1. LanesOK'
    BY <1>5, PhaseTyped DEF WaitOver, Goto, At, Phases, KeyPhases
  <2> QED
    BY <1>0, <1>5, <2>1 DEF WaitOver, KeyboardOK, HostOK, matrix, keyboard, host
<1>6. CASE PollToPress(l) \/ PollToApply(l)
  <2>1. LanesOK'
    BY <1>6, <1>t, PhaseTyped DEF PollToPress, PollToApply, Goto, At, Phases, KeyPhases, TaskOK
  <2> QED
    BY <1>0, <1>6, <2>1 DEF PollToPress, PollToApply, KeyboardOK, HostOK, matrix, keyboard, host
<1>7. CASE PressTapped(l) \/ ReleaseTapped(l)
  <2>1. LanesOK'
    BY <1>7, <1>t, PhaseTyped, SequencerAssumption
    DEF SequencerAssumption, PressTapped, ReleaseTapped, Goto, At, Phases, KeyPhases, TaskOK
  <2>2. EventOf(l).code \in Key
    BY <1>7, <1>t, AtAnEvent DEF PressTapped, ReleaseTapped, At, TaskOK, Event
  <2>3. KeyboardOK'
    BY <1>7, <2>2, SequencerAssumption
    DEF SequencerAssumption, PressTapped, ReleaseTapped, Press, Release, KeyboardOK, keyboard
  <2> QED
    BY <1>0, <1>7, <2>1, <2>3 DEF PressTapped, ReleaseTapped, HostOK, host
<1>8. CASE Apply(l)
  <2>1. LanesOK'
    BY <1>8, <1>t, PhaseTyped DEF Apply, Goto, At, Phases, KeyPhases, TaskOK
  <2>2. HostOK'
    <3>1. Append(requests, "awaited") \in Seq(Waits) /\ Append(cards, "awaited") \in Seq(Waits)
      BY AppendProperties DEF HostOK, Waits
    <3> QED
      BY <1>0, <1>8, <3>1 DEF Apply, HostOK
  <2> QED
    BY <1>0, <1>8, <2>1, <2>2 DEF Apply, KeyboardOK, matrix, keyboard
<1> QED
  BY <1>1, <1>2, <1>3, <1>4, <1>5, <1>6, <1>7, <1>8 DEF Lane, Step

-----------------------------------------------------------------------------
(* The timer, time and the machine. *)

LEMMA TickTyped == TypeOK /\ Tick => TypeOK'
<1> SUFFICES ASSUME TypeOK, Tick PROVE TypeOK'
  OBVIOUS
<1> USE DEF TypeOK
<1>1. \A n \in 0..Hold : Older(n) \in 0..Hold /\ Sooner(n) \in 0..Hold
  BY SequencerAssumption DEF SequencerAssumption, Older, Sooner
<1>2. KeyboardOK'
  <2>1. \A r \in releases : <<Sooner(r[1]), r[2]>> \in (0..Hold) \X Key
    BY <1>1 DEF KeyboardOK
  <2> QED
    BY <1>1, <2>1 DEF Tick, KeyboardOK
<1>3. LanesOK'
  <2>1. \A n \in Nat : Sooner(n) \in Nat
    BY DEF Sooner
  <2>2. ASSUME NEW l \in Lanes PROVE TaskOK(l)'
    <3> DEFINE t == [task[l] EXCEPT !.wake = Sooner(@)]
    <3>1. t \in Task(l) /\ t.events = task[l].events /\ t.next = task[l].next /\ t.phase = task[l].phase
          /\ t.busy = task[l].busy
      BY <2>1 DEF LanesOK, TaskOK, Task
    <3>2. task'[l] = t
      BY DEF Tick
    <3> HIDE DEF t
    <3> QED
      BY <3>1, <3>2 DEF LanesOK, TaskOK, EventOf
  <2> QED
    BY <2>2 DEF Tick, LanesOK
<1> QED
  BY <1>2, <1>3, CallKept DEF Tick, HostOK, host, machine

LEMMA TimerAndMachineTyped == TypeOK /\ (ReleaseDue \/ Machine) => TypeOK'
<1> SUFFICES ASSUME TypeOK, ReleaseDue \/ Machine PROVE TypeOK'
  OBVIOUS
<1> USE DEF TypeOK
<1>1. CASE ReleaseDue
  BY <1>1, CallKept, LanesKept DEF ReleaseDue, Release, KeyboardOK, HostOK, host, machine
<1>2. CASE Machine
  <2>1. KeyboardOK' /\ LanesOK' /\ CallInProgress'
    BY <1>2, CallKept, LanesKept DEF Machine, KeyboardOK, matrix, keyboard
  <2>2. HostOK'
    BY <1>2 DEF Machine, HostOK, host
  <2> QED
    BY <1>2, <2>1, <2>2 DEF Machine
<1> QED
  BY <1>1, <1>2

(* Every reachable state is well typed, and a call in progress is one of    *)
(* the UI thread's calls.                                                   *)
THEOREM TypeCorrect == Spec => []TypeOK
<1>1. TypeOK /\ [Next]_vars => TypeOK'
  <2> SUFFICES ASSUME TypeOK, [Next]_vars PROVE TypeOK'
    OBVIOUS
  <2>1. CASE UNCHANGED vars
    BY <2>1, LanesKept, CallKept DEF vars, TypeOK, KeyboardOK, HostOK, lanes
  <2> QED
    BY <2>1, CallTyped, UiTyped, ServiceTyped, LaneTyped, TickTyped, TimerAndMachineTyped DEF Next
<1> QED
  BY <1>1, InitTyped, PTL DEF Spec

-----------------------------------------------------------------------------
(* Every key that is down is about to come up.                              *)
ComesUp(k) ==
  \/ k \in held
  \/ \E r \in releases : r[2] = k
  \/ \E l \in Lanes : Pressed(l, k)

(* No contact stays closed by itself: whoever closed it is still going to   *)
(* open it, through every cancel, reset and race of the lanes.              *)
THEOREM NothingIsStuck == Spec => []NoStuckKey
<1>1. Init => NoStuckKey
  BY DEF Init, NoStuckKey
<1>2. TypeOK /\ NoStuckKey /\ [Next]_vars => NoStuckKey'
  <2> SUFFICES ASSUME TypeOK, NoStuckKey, [Next]_vars, NEW k \in down' PROVE ComesUp(k)'
    BY DEF NoStuckKey, ComesUp, Pressed
  <2>0. k \in down => ComesUp(k)
    BY DEF NoStuckKey, ComesUp, Pressed
  <2>u. \A l \in Lanes : UNCHANGED <<lanes>> => (Pressed(l, k) => Pressed(l, k)')
    BY DEF Pressed, EventOf, lanes
  <2>1. CASE UNCHANGED <<matrix, keyboard, lanes>>
    BY <2>1, <2>0, <2>u DEF ComesUp, matrix, keyboard
  <2>2. CASE DoKeyUp
    <3>1. CASE k \in held
      <4>1. since < Hold
        BY <2>2, <3>1 DEF DoKeyUp
      <4>2. <<Hold - since, k>> \in releases'
        BY <2>2, <3>1, <4>1 DEF DoKeyUp
      <4> QED
        BY <4>2 DEF ComesUp
    <3>2. CASE k \notin held
      BY <2>2, <3>2, <2>0, <2>u DEF ComesUp, DoKeyUp
    <3> QED
      BY <3>1, <3>2
  <2>3. CASE DoCancel
    <3>1. \A l \in Lanes : Pressed(l, k) => Pressed(l, k)'
      BY <2>3 DEF DoCancel, Pressed, EventOf, TypeOK, LanesOK, TaskOK, Task
    <3> QED
      BY <2>3, <3>1, <2>0 DEF ComesUp, DoCancel, matrix, keyboard
  <2>4. CASE DoHold
    <3>1. held = {}
      BY <2>4, UiProgress DEF DoHold, HeldAfter, StepOfCall, TypeOK
    <3> QED
      BY <2>4, <3>1, <2>0, <2>u DEF ComesUp, DoHold, matrix
  <2>5. CASE DoPress
    <3>1. held = {Arg}
      BY <2>5, UiProgress DEF DoPress, HeldAfter, StepOfCall, TypeOK, keyboard
    <3> QED
      BY <2>5, <3>1, <2>0, <2>u DEF ComesUp, DoPress, Press, keyboard
  <2>6. CASE DoPost
    BY <2>6, <2>0 DEF ComesUp, DoPost, matrix, keyboard, Pressed, EventOf
  <2>7. CASE DoReleaseAll
    BY <2>7, <2>0, <2>u DEF ComesUp, DoReleaseAll
  <2>8. CASE ReleaseDue
    BY <2>8, <2>0, <2>u DEF ComesUp, ReleaseDue, Release
  <2>9. CASE Tick
    <3>1. \A l \in Lanes : Pressed(l, k) => Pressed(l, k)'
      BY <2>9 DEF Tick, Pressed, EventOf, TypeOK, LanesOK, TaskOK, Task
    <3>2. (\E r \in releases : r[2] = k) => \E r \in releases' : r[2] = k
      <4> SUFFICES ASSUME NEW r \in releases, r[2] = k PROVE \E q \in releases' : q[2] = k
        OBVIOUS
      <4>1. <<Sooner(r[1]), r[2]>> \in releases'
        BY <2>9 DEF Tick
      <4> QED
        BY <4>1
    <3> QED
      BY <2>9, <3>1, <3>2, <2>0 DEF ComesUp, Tick
  <2>10. ASSUME NEW l \in Lanes, Lane(l) PROVE ComesUp(k)'
    <3>1. UNCHANGED <<held, releases>> /\ \A o \in Lanes \ {l} : Pressed(o, k) => Pressed(o, k)'
      <4>1. PICK t : task' = [task EXCEPT ![l] = t]
        BY <2>10 DEF Lane, TakeTask, Step, Finish, DropTap, RunEvent, WaitOver, PollToPress, PollToApply,
           PressTapped, ReleaseTapped, Apply, Goto, GotoFor, TypeOK, LanesOK
      <4>2. \A o \in Lanes \ {l} : task'[o] = task[o]
        BY <4>1 DEF TypeOK, LanesOK
      <4> QED
        BY <2>10, <4>2, LaneLeavesCall DEF Pressed, EventOf
    <3>2. CASE PressTapped(l)
      <4>1. EventOf(l)' = EventOf(l) /\ task'[l].phase = "Holding"
        BY <3>2 DEF PressTapped, GotoFor, EventOf, TypeOK, LanesOK, TaskOK, Task
      <4> QED
        BY <3>1, <3>2, <4>1, <2>0 DEF ComesUp, PressTapped, Press, Pressed
    <3>3. CASE ReleaseTapped(l)
      BY <3>1, <3>3, <2>0 DEF ComesUp, ReleaseTapped, Release, Pressed
    <3>4. CASE ~PressTapped(l) /\ ~ReleaseTapped(l)
      <4>1. down' = down /\ ~Pressed(l, k)
        BY <2>10, <3>4 DEF Lane, TakeTask, Step, Finish, DropTap, RunEvent, WaitOver, PollToPress, PollToApply, Apply,
           At, Cancellable, Pressed, TypeOK, LanesOK, TaskOK, matrix
      <4> QED
        BY <3>1, <4>1, <2>0 DEF ComesUp
    <3> QED
      BY <3>2, <3>3, <3>4
  <2>11. CASE DoMachineReset
    BY <2>11 DEF DoMachineReset
  <2> QED
    BY <2>1, <2>2, <2>3, <2>4, <2>5, <2>6, <2>7, <2>8, <2>9, <2>10, <2>11
    DEF Next, CallUi, KeyDown, KeyDownBinding, KeyUp, ReleaseAll, Load, Reset, SetFullSpeed, Begin, UiThread, DoDropCards,
        DoResume, DoEmptyReader, DoMachineReset, ServeRequest, FeedQueuedCard, QueuedCardDone, Machine, vars, matrix, keyboard, lanes
<1> QED
  BY <1>1, <1>2, TypeCorrect, PTL DEF Spec

-----------------------------------------------------------------------------
(* m_playing is raised and cleared with the script lane's task.             *)
LEMMA SpeedKept ==
  ASSUME PlayingIsBusy, SpeedOfScript, UNCHANGED <<playing, fullSpeed>>, task'["script"].busy = task["script"].busy
  PROVE  PlayingIsBusy' /\ SpeedOfScript'
  BY DEF PlayingIsBusy, SpeedOfScript

(* The full speed a script asks for ends with it: the end of the script     *)
(* lane's task resets the speed, whoever set it last, and a tap's events do *)
(* not touch it.                                                            *)
THEOREM FullSpeedIsAScripts == Spec => []SpeedOfScript
<1>1. Init => PlayingIsBusy /\ SpeedOfScript
  <2> SUFFICES ASSUME Init PROVE PlayingIsBusy /\ SpeedOfScript
    OBVIOUS
  <2>1. task["script"] = NoTask /\ playing = FALSE /\ fullSpeed = "nobody"
    BY DEF Init, Lanes
  <2>2. NoTask.busy = FALSE
    BY DEF NoTask
  <2> QED
    BY <2>1, <2>2 DEF PlayingIsBusy, SpeedOfScript
<1>2. TypeOK /\ PlayingIsBusy /\ SpeedOfScript /\ [Next]_vars => PlayingIsBusy' /\ SpeedOfScript'
  <2> SUFFICES ASSUME TypeOK, PlayingIsBusy, SpeedOfScript, [Next]_vars
               PROVE  PlayingIsBusy' /\ SpeedOfScript'
    OBVIOUS
  <2>1. CASE UNCHANGED <<task, playing, fullSpeed>>
    BY <2>1, SpeedKept
  <2>2. CASE DoCancel
    <3>1. task'["script"].busy = task["script"].busy
      BY <2>2 DEF DoCancel, TypeOK, LanesOK, TaskOK, Task, Lanes
    <3> QED
      BY <2>2, <3>1, SpeedKept DEF DoCancel
  <2>3. CASE Tick
    <3>1. task'["script"].busy = task["script"].busy
      BY <2>3 DEF Tick, TypeOK, LanesOK, TaskOK, Task, Lanes
    <3> QED
      BY <2>3, <3>1, SpeedKept DEF Tick
  <2>4. CASE Lane("keys")
    <3>1. task'["script"] = task["script"] /\ playing' = playing
      BY <2>4 DEF Lane, TakeTask, Step, Finish, DropTap, RunEvent, WaitOver, PollToPress, PollToApply,
         PressTapped, ReleaseTapped, Apply, Goto, GotoFor, TypeOK, LanesOK, Lanes
    <3>2. fullSpeed' = fullSpeed
      <4>1. CASE RunEvent("keys")
        <5>1. task["keys"].events[task["keys"].next + 1].kind = "key"
          BY <4>1, NextEvent DEF RunEvent, TypeOK, LanesOK, Lanes
        <5> QED
          BY <4>1, <5>1 DEF RunEvent
      <4>2. CASE ~RunEvent("keys")
        BY <2>4, <4>2 DEF Lane, TakeTask, Step, Finish, DropTap, WaitOver, PollToPress, PollToApply,
           PressTapped, ReleaseTapped, Apply
      <4> QED
        BY <4>1, <4>2
    <3> QED
      BY <3>1, <3>2, SpeedKept
  <2>5. CASE Lane("script")
    <3>0. task["script"] \in Task("script") /\ DOMAIN task = Lanes
      BY DEF TypeOK, LanesOK, TaskOK, Lanes
    <3>1. CASE TakeTask("script")
      BY <2>5, <3>0, <3>1 DEF TakeTask, PlayingIsBusy, SpeedOfScript, NewTask, Lanes
    <3>2. CASE Finish("script")
      BY <2>5, <3>0, <3>2 DEF Finish, PlayingIsBusy, SpeedOfScript, NoTask, Lanes
    <3>3. CASE RunEvent("script")
      <4>1. task["script"].busy /\ playing' = playing /\ task'["script"].busy = task["script"].busy
        BY <3>0, <3>3 DEF RunEvent, At, Task, Lanes
      <4> QED
        BY <4>1 DEF PlayingIsBusy, SpeedOfScript
    <3>4. CASE \/ WaitOver("script") \/ PollToPress("script") \/ PollToApply("script")
               \/ PressTapped("script") \/ ReleaseTapped("script") \/ Apply("script")
      <4>1. UNCHANGED <<playing, fullSpeed>> /\ task'["script"].busy = task["script"].busy
        BY <3>0, <3>4 DEF WaitOver, PollToPress, PollToApply, PressTapped, ReleaseTapped, Apply, Goto, GotoFor,
           Task, Lanes
      <4> QED
        BY <4>1, SpeedKept
    <3> QED
      BY <2>5, <3>1, <3>2, <3>3, <3>4 DEF Lane, Step
  <2>6. CASE SetFullSpeed
    BY <2>6 DEF SetFullSpeed, PlayingIsBusy, SpeedOfScript, lanes
  <2> QED
    BY <2>1, <2>2, <2>3, <2>4, <2>5, <2>6
    DEF Next, CallUi, KeyDown, KeyDownBinding, KeyUp, ReleaseAll, Load, Reset, SetFullSpeed, Begin, UiThread, DoKeyUp, DoHold,
        DoPress, DoPost, DoReleaseAll, DoDropCards, DoResume, DoEmptyReader, DoMachineReset, ServeRequest, FeedQueuedCard,
        QueuedCardDone, ReleaseDue, Machine, vars, lanes, Lanes
<1> QED
  BY <1>1, <1>2, TypeCorrect, PTL DEF Spec

-----------------------------------------------------------------------------
(* A lane's task is at another event or phase only after a step of the lane *)
(* itself; time, the cancels and the other lane leave it where it was.      *)
LEMMA OtherSteps ==
  ASSUME TypeOK, [Next]_vars, NEW l \in Lanes
  PROVE  \/ Lane(l)
         \/ /\ task'[l].events = task[l].events /\ task'[l].next = task[l].next
            /\ task'[l].phase = task[l].phase /\ task'[l].busy = task[l].busy
            /\ task'[l].cancelled = task[l].cancelled \/ DoCancel
            /\ task'[l].wake = task[l].wake \/ (Tick /\ task'[l].wake = Sooner(task[l].wake))
<1>0. \A o \in Lanes : task[o] \in Task(o) /\ DOMAIN task = Lanes
  BY DEF TypeOK, LanesOK, TaskOK
<1>1. CASE UNCHANGED task
  BY <1>1
<1>2. CASE DoCancel
  BY <1>0, <1>2 DEF DoCancel, Task
<1>3. CASE Tick
  BY <1>0, <1>3 DEF Tick, Task
<1>4. ASSUME NEW o \in Lanes, Lane(o), o # l PROVE task'[l] = task[l]
  <2>1. PICK t : task' = [task EXCEPT ![o] = t]
    BY <1>4 DEF Lane, TakeTask, Step, Finish, DropTap, RunEvent, WaitOver, PollToPress, PollToApply,
       PressTapped, ReleaseTapped, Apply, Goto, GotoFor
  <2> QED
    BY <1>0, <1>4, <2>1
<1> QED
  BY <1>1, <1>2, <1>3, <1>4
  DEF Next, CallUi, KeyDown, KeyDownBinding, KeyUp, ReleaseAll, Load, Reset, SetFullSpeed, Begin, UiThread, DoKeyUp, DoHold,
      DoPress, DoPost, DoReleaseAll, DoDropCards, DoResume, DoEmptyReader, DoMachineReset, ServeRequest, FeedQueuedCard,
      QueuedCardDone, ReleaseDue, Machine, vars, lanes

(* Where a step of a lane leads to.                                         *)
LEMMA Phased ==
  ASSUME TypeOK, NEW l \in Lanes, Lane(l)
  PROVE  \/ task'[l].phase = "Next" /\ (TakeTask(l) \/ Finish(l) \/ (l = "keys" /\ DropTap) \/ WaitOver(l))
         \/ /\ EventOf(l)' = EventOf(l)
            /\ \/ PollToPress(l) /\ task'[l].phase = "Pressing"
               \/ PollToApply(l) /\ task'[l].phase = "Applying"
               \/ PressTapped(l) /\ task'[l].phase = "Holding" /\ task'[l].wake = Hold
               \/ ReleaseTapped(l) /\ task'[l].phase = "WaitingIdle"
               \/ Apply(l) /\ task'[l].phase = "WaitingHost"
         \/ RunEvent(l) /\ task'[l].phase \in Phases \ {"Pressing", "Applying", "Holding"}
<1>0. \A o \in Lanes : task[o] \in Task(o) /\ DOMAIN task = Lanes
  BY DEF TypeOK, LanesOK, TaskOK
<1>1. CASE TakeTask(l) \/ Finish(l) \/ (l = "keys" /\ DropTap)
  <2>1. NewTask(Head(tasks[l])).phase = "Next" /\ NoTask.phase = "Next"
    BY DEF NewTask, NoTask
  <2>2. task' = [task EXCEPT ![l] = NewTask(Head(tasks[l]))] \/ task' = [task EXCEPT ![l] = NoTask]
    BY <1>1 DEF TakeTask, Finish, DropTap
  <2> QED
    BY <1>0, <1>1, <2>1, <2>2
<1>2. \A p \in Phases, n \in Nat : GotoFor(l, p, n) =>
         task'[l].phase = p /\ task'[l].wake = n /\ EventOf(l)' = EventOf(l)
  BY <1>0 DEF GotoFor, EventOf, Task
<1>3. CASE WaitOver(l) \/ PollToPress(l) \/ PollToApply(l) \/ ReleaseTapped(l) \/ Apply(l)
  BY <1>2, <1>3 DEF WaitOver, PollToPress, PollToApply, ReleaseTapped, Apply, Goto, Phases
<1>4. CASE PressTapped(l)
  BY <1>2, <1>4, SequencerAssumption DEF SequencerAssumption, PressTapped, Phases
<1>5. CASE RunEvent(l)
  <2> DEFINE k == task[l].events[task[l].next + 1].kind
  <2>1. task'[l].phase = NextPhase[k]
    BY <1>0, <1>5 DEF RunEvent, Task
  <2>2. k \in EventKinds
    BY <1>5, NextEvent DEF RunEvent, Event, TypeOK, LanesOK
  <2> QED
    BY <1>5, <2>1, <2>2, PhaseOfEvent
<1> QED
  BY <1>1, <1>3, <1>4, <1>5 DEF Lane, Step

(* When a key was last pressed.                                             *)
LEMMA LastPressed ==
  ASSUME TypeOK, [Next]_vars, NEW k \in Key
  PROVE  \/ age'[k] = age[k] \/ (Tick /\ age'[k] = Older(age[k]))
         \/ DoPress /\ Arg = k
         \/ \E l \in Lanes : PressTapped(l) /\ EventOf(l).code = k /\ age'[k] = 0
<1>0. age \in [Key -> 0..Hold]
  BY DEF TypeOK, KeyboardOK
<1>1. CASE UNCHANGED age
  BY <1>1
<1>2. CASE Tick
  BY <1>0, <1>2 DEF Tick
<1>3. CASE DoPress
  BY <1>0, <1>3 DEF DoPress, Press
<1>4. ASSUME NEW l \in Lanes, PressTapped(l) PROVE age'[k] = age[k] \/ (EventOf(l).code = k /\ age'[k] = 0)
  BY <1>0, <1>4 DEF PressTapped, Press
<1> QED
  BY <1>1, <1>2, <1>3, <1>4
  DEF Next, CallUi, KeyDown, KeyDownBinding, KeyUp, ReleaseAll, Load, Reset, SetFullSpeed, Begin, UiThread, DoKeyUp, DoHold,
      DoCancel, DoPost, DoReleaseAll, DoDropCards, DoResume, DoEmptyReader, DoMachineReset, ServeRequest, FeedQueuedCard,
      QueuedCardDone, ReleaseDue, Release, Machine, vars, matrix, Lane, TakeTask, Step, Finish, DropTap, RunEvent,
      WaitOver, PollToPress, PollToApply, ReleaseTapped, Apply

(* A key that only one lane presses, and no physical key, is not held on    *)
(* the keyboard and not due for a release; a lane that holds it will hold   *)
(* it until it has been down for kHold.                                     *)
LEMMA LongEnoughKept ==
  ASSUME TypeOK, [Next]_vars, NEW k \in Key, OfOneLane(k), LongEnough(k)
  PROVE  LongEnough(k)'
<1>1. k \notin held'
  <2>1. CASE DoHold
    <3>1. Arg \in Physical
      BY <2>1, UiProgress DEF DoHold, HeldAfter, StepOfCall, TypeOK
    <3> QED
      BY <2>1, <3>1 DEF DoHold, OfOneLane
  <2>2. CASE ~DoHold
    <3>1. ASSUME NEW l \in Lanes, Lane(l) PROVE held' = held
      BY <3>1, LaneLeavesCall
    <3>2. held' = held \/ held' = {}
      BY <2>2, <3>1
      DEF Next, CallUi, KeyDown, KeyDownBinding, KeyUp, ReleaseAll, Load, Reset, SetFullSpeed, Begin, UiThread, DoKeyUp,
          DoPress, DoCancel, DoPost, DoReleaseAll, DoDropCards, DoResume, DoEmptyReader, DoMachineReset, ServeRequest,
          FeedQueuedCard, QueuedCardDone, ReleaseDue, Tick, Machine, vars, keyboard
    <3> QED
      BY <3>2 DEF LongEnough
  <2> QED
    BY <2>1, <2>2
<1>2. \A r \in releases' : r[2] # k
  <2>1. CASE DoKeyUp
    BY <2>1 DEF DoKeyUp, LongEnough
  <2>2. CASE Tick
    BY <2>2 DEF Tick, LongEnough
  <2>3. CASE ~DoKeyUp /\ ~Tick
    <3>1. ASSUME NEW l \in Lanes, Lane(l) PROVE releases' = releases
      BY <3>1, LaneLeavesCall
    <3>2. releases' \subseteq releases
      BY <2>3, <3>1
      DEF Next, CallUi, KeyDown, KeyDownBinding, KeyUp, ReleaseAll, Load, Reset, SetFullSpeed, Begin, UiThread, DoHold,
          DoPress, DoCancel, DoPost, DoReleaseAll, DoDropCards, DoResume, DoEmptyReader, DoMachineReset, ServeRequest,
          FeedQueuedCard, QueuedCardDone, ReleaseDue, Machine, vars, keyboard
    <3> QED
      BY <3>2 DEF LongEnough
  <2> QED
    BY <2>1, <2>2, <2>3
<1>3. ASSUME NEW l \in Lanes, Pressed(l, k)' PROVE age'[k] + task'[l].wake >= Hold
  <2>0. /\ age[k] \in 0..Hold /\ Hold \in Nat
        /\ TaskOK(l) /\ task[l].wake \in Nat
    BY SequencerAssumption DEF SequencerAssumption, TypeOK, KeyboardOK, LanesOK, TaskOK, Task
  <2>1. CASE PressTapped(l) /\ EventOf(l)' = EventOf(l) /\ task'[l].wake = Hold
    BY <1>3, <2>0, <2>1, SequencerAssumption DEF SequencerAssumption, PressTapped, Press, Pressed, TypeOK, KeyboardOK
  <2>2. CASE /\ task[l].phase = "Holding" /\ EventOf(l)' = EventOf(l)
             /\ task'[l].wake = task[l].wake \/ (Tick /\ task'[l].wake = Sooner(task[l].wake))
    <3>1. Pressed(l, k) /\ age[k] + task[l].wake >= Hold
      BY <1>3, <2>2 DEF Pressed, LongEnough
    <3>2. CASE age'[k] = age[k] /\ ~Tick
      BY <2>2, <3>1, <3>2
    <3>3. CASE Tick
      <4>1. age'[k] = Older(age[k]) /\ task'[l].wake = Sooner(task[l].wake)
        BY <3>3 DEF Tick, TypeOK, LanesOK, TaskOK, Task
      <4> QED
        BY <2>0, <3>1, <4>1 DEF Older, Sooner
    <3>4. CASE DoPress /\ Arg = k
      <4>1. Arg \in Physical
        BY <3>4, UiProgress DEF DoPress, HeldAfter, StepOfCall, TypeOK, keyboard
      <4> QED
        BY <3>4, <4>1 DEF OfOneLane
    <3>5. ASSUME NEW o \in Lanes, PressTapped(o), EventOf(o).code = k PROVE FALSE
      <4>1. /\ task[o].phase = "Pressing" /\ TaskOK(o)
        BY <3>5 DEF PressTapped, At, TypeOK, LanesOK
      <4>2. o # l /\ k \in CodesOf(o) /\ k \in CodesOf(l)
        BY <2>0, <2>2, <3>1, <3>5, <4>1, AtAnEvent DEF Pressed, TaskOK, KeyPhases
      <4> QED
        BY <4>2 DEF OfOneLane
    <3> QED
      BY <3>2, <3>3, <3>4, <3>5, LastPressed
  <2> QED
    BY <1>3, <2>1, <2>2, OtherSteps, Phased DEF Pressed, EventOf
<1> QED
  BY <1>1, <1>2, <1>3 DEF LongEnough

LEMMA ReleasedInTime ==
  ASSUME TypeOK, [Next]_vars, NEW k \in Key, LongEnough(k), k \in down, k \notin down'
  PROVE  age[k] = Hold \/ MachineResets
<1>0. CASE DoMachineReset
  BY <1>0 DEF DoMachineReset, UiOp, MachineResets
<1>1. ASSUME ~DoMachineReset PROVE \E l \in Lanes : ReleaseTapped(l) /\ EventOf(l).code = k
  <2>1. k \notin held /\ \A r \in releases : r[2] # k
    BY DEF LongEnough
  <2> QED
    BY <1>1, <2>1
    DEF Next, CallUi, KeyDown, KeyDownBinding, KeyUp, ReleaseAll, Load, Reset, SetFullSpeed, Begin, UiThread, DoKeyUp,
        DoHold, DoPress, DoCancel, DoPost, DoReleaseAll, DoDropCards, DoResume, DoEmptyReader, DoMachineReset, ServeRequest,
        FeedQueuedCard, QueuedCardDone, ReleaseDue, Press, Release, Tick, Machine, vars, matrix, Lane, TakeTask,
        Step, Finish, DropTap, RunEvent, WaitOver, PollToPress, PollToApply, PressTapped, ReleaseTapped, Apply
<1>2. ASSUME NEW l \in Lanes, ReleaseTapped(l), EventOf(l).code = k PROVE age[k] = Hold
  <2>1. Pressed(l, k) /\ task[l].wake = 0
    BY <1>2 DEF ReleaseTapped, At, Pressed
  <2>2. age[k] + 0 >= Hold
    BY <2>1 DEF LongEnough
  <2> QED
    BY <2>2, SequencerAssumption DEF SequencerAssumption, TypeOK, KeyboardOK
<1> QED
  BY <1>0, <1>1, <1>2

(* A key that only one lane presses comes up after kHold at the earliest,   *)
(* whatever is pressed or cancelled meanwhile, unless the machine is reset. *)
THEOREM KeyOfOneLaneIsHeld ==
  ASSUME NEW k \in Key, OfOneLane(k)
  PROVE  Spec => [][(k \in down /\ k \notin down' => age[k] = Hold \/ MachineResets)]_vars
<1>1. Init => LongEnough(k)
  BY DEF Init, LongEnough, Pressed, NoTask, Lanes
<1>2. TypeOK /\ LongEnough(k) /\ [Next]_vars => LongEnough(k)'
  BY LongEnoughKept
<1>3. TypeOK /\ LongEnough(k) /\ [Next]_vars => [(k \in down /\ k \notin down' => age[k] = Hold \/ MachineResets)]_vars
  BY ReleasedInTime
<1> QED
  BY <1>1, <1>2, <1>3, TypeCorrect, PTL DEF Spec

(* Where the keyboard holds no key and no other lane presses a lane's keys, *)
(* that is every key: the minimum hold of the run key_lanes.                *)
THEOREM EveryKeyIsHeld ==
  ASSUME Physical = {}, CodesOf("script") \intersect CodesOf("keys") = {}
  PROVE  Spec => MinimumHold
<1> DEFINE AllLongEnough == \A k \in Key : LongEnough(k)
<1>1. \A k \in Key : OfOneLane(k)
  BY DEF OfOneLane, Lanes
<1>2. Init => AllLongEnough
  BY DEF Init, LongEnough, Pressed, NoTask, Lanes
<1>3. TypeOK /\ AllLongEnough /\ [Next]_vars => AllLongEnough'
  BY <1>1, LongEnoughKept
<1>4. TypeOK /\ AllLongEnough /\ [Next]_vars => 
        [\A k \in Key : k \in down /\ k \notin down' => age[k] = Hold \/ MachineResets]_vars
  BY ReleasedInTime
<1> QED
  BY <1>2, <1>3, <1>4, TypeCorrect, PTL DEF Spec, MinimumHold

-----------------------------------------------------------------------------
(* The host has done all that a script asked for before the script goes on. *)

(* What a call in progress still does to the script's lane and its cards.   *)
UiOrdered(o) ==
  /\ o \in {"resume", "emptyReader", "dropCards"} => DropDue
  /\ DropDue' => DropDue \/ (o = "cancel" /\ Arg = "script")
  /\ o = "play" => PlayDue /\ ~DropDue'
  /\ PlayDue' => PlayDue /\ o # "play"

LEMMA UiOrder ==
  ASSUME CallInProgress, NEW o, UiOp(o)
  PROVE  UiOrdered(o)
<1> USE DEF UiOp, UiOrdered, DropDue, PlayDue, Arg, Op
<1>1. CASE EndOfRelease
  BY <1>1 DEF EndOfRelease
<1>2. CASE EndOfReset
  BY <1>2 DEF EndOfReset
<1>3. ASSUME NEW k \in Physical, EndOfKeyDown(k) PROVE UiOrdered(o)
  BY <1>3 DEF EndOfKeyDown
<1>4. ASSUME NEW b \in Bindings, EndOfBinding(b) PROVE UiOrdered(o)
  BY <1>4 DEF EndOfBinding
<1>5. ASSUME NEW s \in Scripts, EndOfLoad(s) PROVE UiOrdered(o)
  BY <1>5 DEF EndOfLoad
<1> QED
  BY <1>1, <1>2, <1>3, <1>4, <1>5 DEF CallInProgress

(* The host's side while nothing is asked, or one request is under way.     *)
LEMMA NobodyWaits == NothingAsked => ~Awaited
  BY DEF NothingAsked, Awaited

(* Steps that leave the script's lane alone.                                *)
LEMMA ScriptLeft ==
  ASSUME OneLoad, UNCHANGED <<calls, ui>>, UNCHANGED tasks,
         task'["script"].busy = task["script"].busy,
         task'["script"].cancelled = task["script"].cancelled,
         task'["script"].phase = task["script"].phase,
         NothingAsked => NothingAsked',
         OneAsked => OneAsked' \/ NothingAsked',
         ~Awaited => ~Awaited'
  PROVE  OneLoad'
  BY DEF OneLoad, Active, PlayDue, DropDue

LEMMA OneLoadStarts ==
  ASSUME Budget["load"] <= 1, Init
  PROVE  OneLoad
<1>1. /\ tasks["script"] = <<>> /\ calls["load"] <= 1 /\ ui = <<>> /\ NothingAsked
      /\ task["script"].busy = FALSE
  BY DEF Init, Lanes, NothingAsked, NoTask
<1> QED
  BY <1>1, NobodyWaits DEF OneLoad, PlayDue, DropDue, Active

LEMMA OneLoadCalled ==
  ASSUME TypeOK, OneLoad, CallUi
  PROVE  OneLoad'
<1>0. UNCHANGED <<tasks, task, pending, requests, cards, reader>> /\ calls \in [Calls -> Nat]
  BY DEF CallUi, KeyDown, KeyDownBinding, KeyUp, ReleaseAll, Load, Reset, SetFullSpeed, Begin, lanes, host, TypeOK
<1>1. ASSUME NEW s \in Scripts, Load(s) PROVE OneLoad'
  <2>1. /\ calls["load"] = 1 /\ calls'["load"] = 0
        /\ ui' = <<Op("dropCards", <<>>), Op("resume", <<>>), Op("machineReset", <<>>), Op("play", s)>>
    BY <1>0, <1>1 DEF Load, Begin, OneLoad, Calls
  <2>2. tasks["script"] = <<>> /\ NothingAsked /\ ~task["script"].busy
    BY <2>1 DEF OneLoad
  <2> QED
    BY <1>0, <2>1, <2>2, NobodyWaits DEF OneLoad, Active, NothingAsked, OneAsked, Awaited
<1>2. CASE \/ KeyUp \/ ReleaseAll \/ Reset \/ SetFullSpeed
           \/ (\E k \in Physical : KeyDown(k)) \/ (\E b \in Bindings : KeyDownBinding(b))
  <2>1. calls'["load"] = calls["load"] /\ ~PlayDue' /\ ~DropDue'
    <3>1. CASE SetFullSpeed
      BY <1>0, <3>1 DEF SetFullSpeed, Calls, PlayDue, DropDue
    <3>2. CASE KeyUp \/ ReleaseAll
      BY <1>0, <3>2 DEF KeyUp, ReleaseAll, Begin, Calls, PlayDue, DropDue, Op
    <3>3. CASE Reset
      BY <1>0, <3>3 DEF Reset, Begin, Calls, PlayDue, DropDue, Op
    <3>4. CASE (\E k \in Physical : KeyDown(k)) \/ (\E b \in Bindings : KeyDownBinding(b))
      <4>1. CASE \E k \in Physical : KeyDown(k)
        <5>1. PICK k \in Physical : KeyDown(k)
          BY <4>1
        <5>2. /\ calls' = [calls EXCEPT !["keyDown"] = @ - 1]
              /\ ui' = <<Op("keyUp", <<>>), Op("cancel", "keys"), Op("hold", k), Op("press", k)>>
          BY <5>1 DEF KeyDown, Begin
        <5>3. calls'["load"] = calls["load"]
          BY <1>0, <5>2 DEF Calls
        <5>4. ui' # <<>> /\ Head(ui')[1] = "keyUp" /\ ui'[Len(ui')][1] = "press"
          BY <5>2 DEF Op
        <5> QED
          BY <5>3, <5>4 DEF PlayDue, DropDue
      <4>2. CASE \E b \in Bindings : KeyDownBinding(b)
        <5>1. PICK b \in Bindings : KeyDownBinding(b)
          BY <4>2
        <5>2. /\ calls' = [calls EXCEPT !["binding"] = @ - 1]
              /\ ui' = <<Op("keyUp", <<>>), Op("cancel", "keys"), Op("tap", b)>>
          BY <5>1 DEF KeyDownBinding, Begin
        <5>3. calls'["load"] = calls["load"]
          BY <1>0, <5>2 DEF Calls
        <5>4. ui' # <<>> /\ Head(ui')[1] = "keyUp" /\ ui'[Len(ui')][1] = "tap"
          BY <5>2 DEF Op
        <5> QED
          BY <5>3, <5>4 DEF PlayDue, DropDue
      <4> QED
        BY <3>4, <4>1, <4>2
    <3> QED
      BY <1>2, <3>1, <3>2, <3>3, <3>4
  <2> QED
    BY <1>0, <2>1 DEF OneLoad, Active, NothingAsked, OneAsked, Awaited
<1> QED
  BY <1>1, <1>2 DEF CallUi

LEMMA OneLoadUi ==
  ASSUME TypeOK, OneLoad, UiThread
  PROVE  OneLoad'
<1>0. calls' = calls /\ DOMAIN tasks = Lanes /\ DOMAIN task = Lanes /\ task["script"] \in Task("script")
  BY DEF UiThread, DoKeyUp, DoCancel, DoHold, DoPress, DoPost, DoReleaseAll, DoDropCards, DoResume, DoEmptyReader, DoMachineReset,
     UiOp, TypeOK, LanesOK, TaskOK, Lanes
<1>1. CASE DoKeyUp \/ DoHold \/ DoPress \/ DoReleaseAll \/ DoResume \/ DoMachineReset
  <2>1. PICK o \in {"keyUp", "hold", "press", "releaseAll", "resume", "machineReset"} : UiOp(o)
    BY <1>1 DEF DoKeyUp, DoHold, DoPress, DoReleaseAll, DoResume, DoMachineReset
  <2>2. UiOrdered(o)
    BY <2>1, UiOrder DEF TypeOK
  <2>3. UNCHANGED <<tasks, task, pending, requests, cards, reader>>
    BY <1>1 DEF DoKeyUp, DoHold, DoPress, DoReleaseAll, DoResume, DoMachineReset, lanes, host
  <2> QED
    BY <1>0, <2>1, <2>2, <2>3 DEF OneLoad, UiOrdered, Active, NothingAsked, OneAsked, Awaited
<1>2. CASE DoCancel
  <2>1. UiOrdered("cancel") /\ UNCHANGED <<pending, requests, cards, reader>>
    BY <1>2, UiOrder DEF DoCancel, TypeOK, host
  <2>2. CASE Arg = "script"
    <3>1. tasks'["script"] = <<>> /\ task'["script"].busy = task["script"].busy /\ ~Active'
      BY <1>0, <1>2, <2>2 DEF DoCancel, Lanes, Active, Task
    <3> QED
      BY <1>0, <2>1, <3>1 DEF OneLoad, UiOrdered, NothingAsked, OneAsked, Awaited
  <2>3. CASE Arg # "script"
    <3>1. tasks'["script"] = tasks["script"] /\ task'["script"] = task["script"]
      BY <1>0, <1>2, <2>3 DEF DoCancel, Lanes
    <3> QED
      BY <1>0, <2>1, <2>3, <3>1 DEF OneLoad, UiOrdered, Active, NothingAsked, OneAsked, Awaited
  <2> QED
    BY <2>2, <2>3
<1>3. CASE DoPost
  <2>1. UNCHANGED <<task, pending, requests, cards, reader>>
    BY <1>3 DEF DoPost, host
  <2>2. CASE UiOp("play") /\ tasks' = [tasks EXCEPT !["script"] = Append(@, Arg)]
    <3>1. UiOrdered("play")
      BY <2>2, UiOrder DEF TypeOK
    <3>2. tasks["script"] = <<>> /\ NothingAsked /\ ~task["script"].busy /\ ~(calls["load"] > 0)
      BY <3>1 DEF OneLoad, UiOrdered, TypeOK, Calls
    <3>3. tasks'["script"] = <<Arg>>
      BY <1>0, <2>2, <3>2 DEF Lanes
    <3>4. ~PlayDue' /\ ~DropDue'
      BY <3>1 DEF UiOrdered
    <3> QED
      BY <1>0, <2>1, <3>2, <3>3, <3>4, NobodyWaits DEF OneLoad, Active, NothingAsked, OneAsked, Awaited
  <2>3. CASE UiOp("tap") /\ tasks' = [tasks EXCEPT !["keys"] = Append(@, Tap(Arg))]
    <3>1. UiOrdered("tap") /\ tasks'["script"] = tasks["script"]
      BY <1>0, <2>3, UiOrder DEF TypeOK, Lanes
    <3> QED
      BY <1>0, <2>1, <3>1 DEF OneLoad, UiOrdered, Active, NothingAsked, OneAsked, Awaited
  <2> QED
    BY <1>3, <2>2, <2>3 DEF DoPost
<1>4. CASE DoDropCards \/ DoEmptyReader
  <2>1. PICK o \in {"dropCards", "emptyReader"} : UiOp(o)
    BY <1>4 DEF DoDropCards, DoEmptyReader
  <2>2. UiOrdered(o)
    BY <2>1, UiOrder DEF TypeOK
  <2>3. tasks' = tasks /\ task' = task /\ (NothingAsked => NothingAsked') /\ (~Awaited => ~Awaited')
    BY <1>4 DEF DoDropCards, DoEmptyReader, lanes, NothingAsked, Awaited
  <2>4. ~Active /\ tasks["script"] = <<>>
    BY <2>1, <2>2 DEF OneLoad, UiOrdered
  <2> QED
    BY <1>0, <2>1, <2>2, <2>3, <2>4 DEF OneLoad, UiOrdered, Active
<1> QED
  BY <1>1, <1>2, <1>3, <1>4 DEF UiThread

LEMMA OneLoadServed ==
  ASSUME TypeOK, OneLoad, ServeRequest \/ FeedQueuedCard \/ QueuedCardDone
  PROVE  OneLoad'
<1>0. requests \in Seq(Waits) /\ cards \in Seq(Waits) /\ pending \in Nat
  BY DEF TypeOK, HostOK
<1>1. UNCHANGED <<calls, ui, tasks, task>>
  BY DEF ServeRequest, FeedQueuedCard, QueuedCardDone, lanes
<1>2. ~NothingAsked
  BY DEF ServeRequest, FeedQueuedCard, QueuedCardDone, NothingAsked
<1>3. OneAsked => OneAsked' \/ NothingAsked'
  <2>1. CASE ServeRequest
    BY <1>0, <2>1 DEF ServeRequest, HostDone, OneAsked, NothingAsked
  <2>2. CASE FeedQueuedCard
    BY <1>0, <2>2 DEF FeedQueuedCard, OneAsked, Waits
  <2>3. CASE QueuedCardDone
    BY <1>0, <2>3 DEF QueuedCardDone, HostDone, OneAsked, NothingAsked
  <2> QED
    BY <2>1, <2>2, <2>3
<1>4. ~Awaited => ~Awaited'
  <2>1. CASE ServeRequest
    BY <1>0, <2>1 DEF ServeRequest, Awaited
  <2>2. CASE FeedQueuedCard
    BY <1>0, <2>2 DEF FeedQueuedCard, Awaited
  <2>3. CASE QueuedCardDone
    BY <1>0, <2>3 DEF QueuedCardDone, Awaited
  <2> QED
    BY <2>1, <2>2, <2>3
<1> QED
  BY <1>1, <1>2, <1>3, <1>4, ScriptLeft

LEMMA OneLoadLanes ==
  ASSUME TypeOK, OneLoad, NEW l \in Lanes, Lane(l)
  PROVE  OneLoad'
<1>0. /\ DOMAIN tasks = Lanes /\ DOMAIN task = Lanes /\ UNCHANGED <<ui, calls>>
      /\ TaskOK("script") /\ task["script"] \in Task("script") /\ TaskOK("keys")
      /\ requests \in Seq(Waits) /\ cards \in Seq(Waits) /\ pending \in Nat
  BY LaneLeavesCall DEF TypeOK, LanesOK, HostOK, TaskOK, Lanes
<1>1. CASE l = "keys"
  <2>1. UNCHANGED <<pending, requests, cards, reader>>
    <3>1. CASE RunEvent("keys")
      <4>1. task["keys"].events[task["keys"].next + 1].kind = "key"
        BY <1>0, <3>1, NextEvent DEF RunEvent, Lanes
      <4> QED
        BY <3>1, <4>1 DEF RunEvent
    <3>2. CASE Apply("keys")
      BY <1>0, <3>2, AtAnEvent DEF Apply, At, TaskOK, Lanes
    <3> QED
      BY <1>1, <3>1, <3>2 DEF Lane, TakeTask, Step, Finish, DropTap, WaitOver, PollToPress, PollToApply, PressTapped,
         ReleaseTapped, host
  <2>2. tasks'["script"] = tasks["script"] /\ task'["script"] = task["script"]
    BY <1>0, <1>1 DEF Lane, TakeTask, Step, Finish, DropTap, RunEvent, WaitOver, PollToPress, PollToApply,
       PressTapped, ReleaseTapped, Apply, Goto, GotoFor, Lanes
  <2> QED
    BY <1>0, <2>1, <2>2 DEF OneLoad, Active, PlayDue, DropDue, NothingAsked, OneAsked, Awaited
<1>2. CASE l = "script" /\ TakeTask(l)
  <2>1. /\ tasks["script"] # <<>> /\ tasks'["script"] = <<>>
        /\ task'["script"] = NewTask(Head(tasks["script"])) /\ UNCHANGED <<pending, requests, cards, reader>>
    BY <1>0, <1>2 DEF TakeTask, OneLoad, Lanes, host, TypeOK, LanesOK
  <2>2. NothingAsked' /\ ~(calls'["load"] > 0) /\ ~PlayDue' /\ ~DropDue'
    BY <1>0, <2>1 DEF OneLoad, NothingAsked, PlayDue, DropDue
  <2> QED
    BY <1>0, <2>1, <2>2, NobodyWaits DEF OneLoad, NothingAsked, Awaited
<1>3. CASE l = "script" /\ Step(l)
  <2>1. tasks' = tasks
    BY <1>3 DEF Step, Finish, RunEvent, WaitOver, PollToPress, PollToApply, PressTapped, ReleaseTapped, Apply,
       Goto, GotoFor
  <2>2. task["script"].busy
    BY <1>3 DEF Step, Finish, RunEvent, WaitOver, PollToPress, PollToApply, PressTapped, ReleaseTapped, Apply, At
  <2>3. ~(calls["load"] > 0) /\ ~PlayDue /\ tasks["script"] = <<>> /\ (DropDue => ~Active)
    BY <2>2 DEF OneLoad
  <2>4. CASE Finish(l)
    <3>1. task'["script"] = NoTask /\ ~Awaited'
      BY <1>0, <1>3, <2>4 DEF Finish, Awaited, Late, Lanes
    <3> QED
      BY <1>0, <2>1, <2>3, <3>1 DEF OneLoad, NoTask, Active, PlayDue, DropDue
  <2>5. CASE ~Finish(l)
    <3>1. task'["script"].busy /\ task'["script"].cancelled = task["script"].cancelled
      <4>1. CASE RunEvent(l)
        BY <1>0, <1>3, <2>2, <4>1 DEF RunEvent, Task, Lanes
      <4>2. ASSUME NEW p, NEW n, GotoFor(l, p, n)
            PROVE task'["script"].busy /\ task'["script"].cancelled = task["script"].cancelled
        BY <1>0, <1>3, <2>2, <4>2 DEF GotoFor, Task, Lanes
      <4>3. CASE ~RunEvent(l)
        <5>1. \E p, n : GotoFor(l, p, n)
          BY <1>3, <2>5, <4>3 DEF Step, WaitOver, PollToPress, PollToApply, PressTapped, ReleaseTapped, Apply, Goto
        <5> QED
          BY <4>2, <5>1
      <4> QED
        BY <4>1, <4>3
    <3>2. Active => NothingAsked' \/ (task'["script"].phase = "WaitingHost" /\ OneAsked')
      <4> SUFFICES ASSUME Active PROVE NothingAsked' \/ (task'["script"].phase = "WaitingHost" /\ OneAsked')
        OBVIOUS
      <4>1. NothingAsked \/ (task["script"].phase = "WaitingHost" /\ OneAsked)
        BY DEF OneLoad
      <4>2. CASE RunEvent(l)
        <5>1. NothingAsked
          BY <1>3, <4>1, <4>2 DEF RunEvent, At
        <5> DEFINE e == task["script"].events[task["script"].next + 1]
        <5>2. CASE e.kind = "control"
          <6>1. task'["script"].phase = NextPhase[e.kind] /\ pending' = pending + 1 /\ requests' = Append(requests, "awaited")
                /\ UNCHANGED <<cards, reader>>
            BY <1>0, <1>3, <4>2, <5>2 DEF RunEvent, Task, Lanes
          <6>2. NextPhase[e.kind] = "WaitingHost"
            BY <5>2, PhaseOfEvent DEF EventKinds
          <6> QED
            BY <5>1, <6>1, <6>2 DEF NothingAsked, OneAsked
        <5>3. CASE e.kind # "control"
          <6>1. RunEvent("script")
            BY <1>3, <4>2
          <6>2. UNCHANGED <<pending, requests, cards, reader>>
            <7> HIDE DEF e
            <7>1. e = task["script"].events[task["script"].next + 1]
              BY DEF e
            <7> QED
              BY <5>3, <6>1, <7>1, Zenon DEF RunEvent
          <6> QED
            BY <5>1, <6>2 DEF NothingAsked
        <5> QED
          BY <5>2, <5>3
      <4>3. CASE Apply(l)
        <5>1. NothingAsked /\ task'["script"].phase = "WaitingHost"
          BY <1>0, <1>3, <4>1, <4>3 DEF Apply, At, Goto, GotoFor, Task, Lanes
        <5> QED
          BY <5>1, <4>3 DEF Apply, NothingAsked, OneAsked
      <4>4. CASE WaitOver(l) \/ PollToPress(l) \/ PollToApply(l) \/ PressTapped(l) \/ ReleaseTapped(l)
        <5>1. UNCHANGED <<pending, requests, cards, reader>>
          BY <4>4 DEF WaitOver, PollToPress, PollToApply, PressTapped, ReleaseTapped, host
        <5>2. NothingAsked
          BY <1>3, <4>1, <4>4 DEF WaitOver, PollToPress, PollToApply, PressTapped, ReleaseTapped, At, OneAsked, Active
        <5> QED
          BY <5>1, <5>2 DEF NothingAsked
      <4> QED
        BY <1>3, <2>5, <4>2, <4>3, <4>4 DEF Step
    <3> QED
      <4>1. (Active' <=> Active) /\ ~PlayDue' /\ (DropDue' => ~Active)
        BY <1>0, <2>2, <2>3, <3>1 DEF Active, PlayDue, DropDue
      <4>2. calls' = calls /\ tasks'["script"] = <<>> /\ task'["script"].busy
        BY <1>0, <2>1, <2>3, <3>1
      <4> QED
        BY <2>3, <3>2, <4>1, <4>2 DEF OneLoad
  <2> QED
    BY <2>4, <2>5
<1> QED
  BY <1>1, <1>2, <1>3 DEF Lane, Lanes

(* One script: no request of it is still waiting once it has left           *)
(* Phase::WaitingHost, unless it was cancelled.                             *)
THEOREM HostIsServedFirst ==
  ASSUME Budget["load"] <= 1
  PROVE  Spec => []HostServedFirst
<1>1. Init => OneLoad
  BY OneLoadStarts
<1>2. TypeOK /\ OneLoad /\ [Next]_vars => OneLoad'
  <2> SUFFICES ASSUME TypeOK, OneLoad, [Next]_vars PROVE OneLoad'
    OBVIOUS
  <2>1. CASE UNCHANGED vars
    BY <2>1, ScriptLeft DEF vars, NothingAsked, OneAsked, Awaited
  <2>2. CASE ReleaseDue \/ Machine
    BY <2>2, ScriptLeft DEF ReleaseDue, Machine, lanes, host, NothingAsked, OneAsked, Awaited
  <2>3. CASE Tick
    <3>1. /\ task'["script"].busy = task["script"].busy /\ task'["script"].cancelled = task["script"].cancelled
          /\ task'["script"].phase = task["script"].phase
      BY <2>3 DEF Tick, TypeOK, LanesOK, TaskOK, Task, Lanes
    <3> QED
      BY <2>3, <3>1, ScriptLeft DEF Tick, host, NothingAsked, OneAsked, Awaited
  <2> QED
    BY <2>1, <2>2, <2>3, OneLoadCalled, OneLoadUi, OneLoadServed, OneLoadLanes DEF Next
<1>3. TypeOK /\ OneLoad => HostServedFirst
  <2> SUFFICES ASSUME OneLoad, task["script"].phase # "WaitingHost", ~task["script"].cancelled PROVE ~Awaited
    BY DEF HostServedFirst
  <2> QED
    BY NobodyWaits DEF OneLoad, Active
<1> QED
  BY <1>1, <1>2, <1>3, TypeCorrect, PTL DEF Spec
=============================================================================
