--------------------------- MODULE MCKeySequencer ---------------------------
(* Scripts, bindings and call budgets of the KeySequencer runs.  The script *)
(* uses key "a", the bindings "b" (2nd) and "c", the keyboard its own.      *)
EXTENDS KeySequencer

K(k) == [kind |-> "key", code |-> k]
D(kind) == [kind |-> kind, code |-> "a"]

Keys == {"a", "b", "c"}
Shifted == {<<"b", "c">>}
None == {}

\* A key at full speed, then a control, as a measured run does.
Measured == {<<D("fullSpeed"), K("a"), D("control")>>}
\* Every kind of event between them.
Mixed == {<<K("a"), D("reload"), D("armCard"), D("regularSpeed")>>,
          <<D("fullSpeed"), D("wait"), D("control")>>}
Inserting == {<<D("insertCard"), K("a")>>}

Allow(n) == [c \in Calls |-> IF c \in DOMAIN n THEN n[c] ELSE 0]

TapsAndScripts == Allow([binding |-> 2, releaseAll |-> 1, load |-> 1, reset |-> 1, setFullSpeed |-> 2])
HeldKeys == Allow([keyDown |-> 2, keyUp |-> 1])
KeyOfScript == {"a"}
TwoLoads == Allow([load |-> 2])
EachCall == Allow([load |-> 1, reset |-> 1, binding |-> 1, keyDown |-> 1, keyUp |-> 1])
=============================================================================
