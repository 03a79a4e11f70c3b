-------------------------- MODULE MCEmulationRunner --------------------------
(* EmulationRunner with two distinguishable jobs and a queue of up to four:  *)
(* enough for two stale loop jobs around a posted job and a sync().          *)
EXTENDS EmulationRunner

CONSTANTS w1, w2, s

MCWork == {w1, w2}
=============================================================================
