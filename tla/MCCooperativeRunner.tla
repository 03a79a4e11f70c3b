------------------------- MODULE MCCooperativeRunner -------------------------
(* CooperativeRunner with two distinguishable jobs and a queue of up to five. *)
EXTENDS CooperativeRunner

CONSTANTS w1, w2, s

MCWork == {w1, w2}
=============================================================================
