------------------------------ MODULE TraceWriter ------------------------------
(***************************************************************************)
(* A trace file (Shared/TraceWriter.cpp): its records, and when it closes. *)
(* Every operator is one call under m_mutex.  Sizes are those of format 2. *)
(***************************************************************************)
EXTENDS Integers, Sequences

CONSTANT MaxBytes     \* TraceLocation::maxBytes: 50 000 000

HeaderBytes == 16
Size(r) == 3 + CASE r.k = "frame" -> 125 [] r.k = "start" -> 9 [] r.k = "end" -> 8 [] OTHER -> 4

\* A writer: m_file # nullptr, the file's records, m_eventCount, m_bytesWritten.
NoFile == [open |-> FALSE, records |-> <<>>, events |-> 0, bytes |-> 0]
WriteRecord(w, r) == IF w.open THEN [w EXCEPT !.records = Append(@, r), !.bytes = @ + Size(r)] ELSE w

\* open() starts a fresh file, and leaves one that is open alone.
OpenWriter(w) == IF w.open THEN w
                 ELSE WriteRecord([NoFile EXCEPT !.open = TRUE, !.bytes = HeaderBytes], [k |-> "start"])
CloseWriter(w) == [WriteRecord(w, [k |-> "end", events |-> w.events]) EXCEPT !.open = FALSE]

\* write(): the frame that reaches the limit is the file's last.
WriteFrame(w, f) ==
  IF ~w.open THEN w
  ELSE LET n == [WriteRecord(w, [k |-> "frame", frame |-> f]) EXCEPT !.events = @ + 1]
       IN IF n.bytes >= MaxBytes THEN CloseWriter(n) ELSE n
WriteLostGap(w, count) == WriteRecord(w, [k |-> "gap", count |-> count])
WriteUserEvent(w) == WriteRecord(w, [k |-> "user"])

\* What a drain brings: a gap or a frame.
Lost(count) == [gap |-> count]
Traced(frame) == [gap |-> 0, frame |-> frame]
WriteItem(w, item) == IF item.gap = 0 THEN WriteFrame(w, item.frame) ELSE WriteLostGap(w, item.gap)
Limited(w, item) == w.open /\ ~WriteItem(w, item).open

(***************************************************************************)
(* What a file must tell: between two frames nothing is missing but what   *)
(* the gaps between them count, and the end counts the frames.             *)
(***************************************************************************)
FramesAt(w) == {i \in DOMAIN w.records : w.records[i].k = "frame"}
GapBetween(w, i, j) ==
  LET sum[n \in i..j] == IF n = i THEN 0 ELSE sum[n - 1] + (IF w.records[n].k = "gap" THEN w.records[n].count ELSE 0)
  IN sum[j]
Contiguous(w) ==
  \A i, j \in FramesAt(w) :
    i < j /\ (\A k \in FramesAt(w) : k <= i \/ k >= j)
    => w.records[j].frame.seqno = w.records[i].frame.seqno + 1 + GapBetween(w, i, j)
EndsWell(w) ==
  LET n == Len(w.records)
      count == Len(SelectSeq(w.records, LAMBDA r : r.k = "frame"))
  IN ~w.open /\ n > 0 => w.records[n] = [k |-> "end", events |-> count]
================================================================================
