------------------------- MODULE MCSessionController -------------------------
(* SessionController with one-instruction batches and four program counters: *)
(* reset, the keyboard scan loop, the step dispatch and any other code.      *)
EXTENDS SessionController

MCPC == {"0000", "scan", "step", "code"}
MCScanLoop == {"scan"}

Arming == {"armPcChange", "armScanLoopExit", "disarm"}
Freezing == {"freeze", "resume", "stepKeycode", "stepInstruction"}
Resets == {"resetMachine", "cleanReset", "applyState", "applyReload", "runAsm"}
Lifecycle == {"failedSwitch", "suspend", "resumeAfterSuspend"}

Everything == Arming \union Freezing \union Resets \union Lifecycle

Frontend(coop, ops, n) == [cooperative |-> coop, calls |-> ops, maxCalls |-> n]

TwoThreads == {Frontend(FALSE, Everything, 2)}
AllFrontends == {Frontend(FALSE, Everything, 3), Frontend(FALSE, Freezing, 4), Frontend(TRUE, Everything, 3)}
ReloadWhileArmed == {Frontend(FALSE, {"armPcChange", "applyReload"}, 3)}
=============================================================================
