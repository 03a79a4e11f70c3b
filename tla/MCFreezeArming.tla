--------------------------- MODULE MCFreezeArming ---------------------------
(* Four PCs tell apart what checkStep tells apart: reset, scan loop, *)
(* step dispatch and other code.                                            *)
EXTENDS FreezeArming

MCPC == {"0000", "scan", "step", "code"}
MCScanLoop == {"scan"}
=============================================================================
