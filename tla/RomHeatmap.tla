------------------------------- MODULE RomHeatmap -------------------------------
(***************************************************************************)
(* How often each ROM address ran (Shared/RomHeatmap.cpp): a bag of        *)
(* addresses, filled from the frames of the trace ring.  The ring is read  *)
(* without draining, so the newest number counted keeps a frame from being *)
(* counted twice.  How often the counts are shown is left out.             *)
(***************************************************************************)
EXTENDS TraceRing, BagsExt, SequencesExt

CONSTANT CodeWords        \* kCodeWords: 0x1400, below the overlay

\* clear(): number 0 counts as seen, so the very first frame is never counted,
\* and the frames still in the ring count again.
ColdHeatmap == [counts |-> EmptyBag, last |-> 0]

\* ingest().
Counted1(bag, frame) == IF frame.pc < CodeWords THEN BagAdd(bag, frame.pc) ELSE bag
\* Mutant of Ingested: every frame of the ring is counted at every tick.
IngestedAgain(h, frames) ==
  IF frames = <<>> THEN h ELSE [counts |-> FoldLeft(Counted1, h.counts, frames), last |-> Last(frames).seqno]
Ingested(h, frames) ==
  LET new == SelectSeq(frames, LAMBDA f : f.seqno > h.last)
  IN IF new = <<>> THEN h ELSE [counts |-> FoldLeft(Counted1, h.counts, new), last |-> Last(new).seqno]

\* resetHeatmapBaseline(): counting starts after the newest frame of the ring.
Baseline(frames) == IF frames = <<>> THEN ColdHeatmap ELSE [ColdHeatmap EXCEPT !.last = Last(frames).seqno]
================================================================================
