-------------------------------- MODULE Display --------------------------------
(***************************************************************************)
(* The multiplexed display (Core/TMC0501.cpp): in IDLE every step strobes  *)
(* one of 12 positions, from 11 (leftmost) down to 0, and decides whether  *)
(* the digit there is dark; takeDisplay() integrates what was driven since *)
(* the last poll.  A holds the digits, B how each is shown, R5 the digit   *)
(* counter value of the decimal point.                                     *)
(***************************************************************************)
EXTENDS Integers, FiniteSets

Places == 0..11
DisplayAtStart ==
  [glyph |-> [i \in Places |-> <<0, 0>>],          \* m_digitSegmentsA, B
   lit |-> [i \in Places |-> 0], dpLit |-> [i \in Places |-> 0],
   suppressed |-> {}, running |-> TRUE,            \* m_zeroSuppressRunning
   thisRev |-> {}, lastRev |-> {},                 \* m_drivenThisRev, LastRev
   cSteps |-> 0, pollSteps |-> 0,
   shown |-> [suppressed |-> {}, driven |-> {}]]   \* m_lastDisplay

\* The circuit's decision at one strobe.  zero: every place further left was
\* a leading zero, and this one may be.  The decimal point, the place right
\* of it and a control digit from 8 end the leading zeros; place 0 is always
\* allowed to be dark.
MayBeDark(d, place, b, r5) ==
  \/ place = 0
  \/ (place = 11 \/ d.running) /\ place # 1 /\ r5 # place + 2 /\ b < 8
IsDark(d, place, a, b, r5) ==
  b \in {3, 7} \/ (b <= 4 /\ a = 0 /\ MayBeDark(d, place, b, r5))

\* Mutant of Strobe: the leftmost place does not start the leading zeros anew.
StrobeKeepsRunning(d, place, a, b, r5, w) ==
  LET zero == place = 0 \/ (d.running /\ place # 1 /\ r5 # place + 2 /\ b < 8)
      dark == b \in {3, 7} \/ (b <= 4 /\ a = 0 /\ zero)
  IN [d EXCEPT !.suppressed = IF dark THEN @ \cup {place} ELSE @ \ {place},
               !.running = zero /\ ~(~dark /\ b <= 1 /\ a # 0)]
\* postOperation() at a visible position.
Strobe(d, place, a, b, r5, w) ==
  LET dark  == IsDark(d, place, a, b, r5)
      glyph == ~dark /\ b \in {0, 1, 5, 6, 8, 9}
      dot   == r5 = place + 2
  IN [d EXCEPT
        !.suppressed = IF dark THEN @ \cup {place} ELSE @ \ {place},
        !.running = MayBeDark(d, place, b, r5) /\ ~(~dark /\ b <= 1 /\ a # 0),
        !.glyph[place] = IF glyph THEN <<a, b>> ELSE @,
        !.lit[place]   = IF glyph THEN @ + w ELSE @,
        !.dpLit[place] = IF dot THEN @ + w ELSE @,
        !.thisRev = IF glyph \/ dot THEN @ \cup {place} ELSE @]

\* postOperation() after each step: the position of the next digit counter
\* value is strobed in IDLE, and digit 0 closes the revolution.
AfterOperation(d, digit, idle, A, B, r5, w) ==
  LET place == digit - 3     \* strobeDigit - 2
      s == IF idle /\ place \in Places
           THEN Strobe(d, place, A[place + 2], B[place + 2], r5, w) ELSE d
  IN IF digit = 0 THEN [s EXCEPT !.lastRev = s.thisRev, !.thisRev = {}] ELSE s

\* The C indicator's and the poll's counters, at the end of step().
CountStep(d, cDriven, w) ==
  [d EXCEPT !.cSteps = IF cDriven THEN @ + 1 ELSE @, !.pollSteps = @ + w]

\* takeDisplay(): a window without a step changes nothing.
TakeDisplay(d) ==
  IF d.pollSteps = 0 THEN d
  ELSE [d EXCEPT !.shown = [suppressed |-> d.suppressed \ {i \in Places : d.lit[i] > 0},
                            driven |-> {i \in Places : d.lit[i] > 0}],
                 !.lit = [i \in Places |-> 0], !.dpLit = [i \in Places |-> 0],
                 !.cSteps = 0, !.pollSteps = 0]

(***************************************************************************)
(* What a steady display shows: the places that stay dark, read off the    *)
(* registers at once instead of strobe by strobe.                          *)
(***************************************************************************)
DarkPlaces(A, B, r5) ==
  LET a(i) == A[i + 2]
      b(i) == B[i + 2]
      ends(i) == i = 1 \/ r5 = i + 2 \/ b(i) >= 8
      significant(i) == b(i) <= 1 /\ a(i) # 0
      leading(i) == /\ \A j \in Places : j >= i => ~ends(j)
                    /\ \A j \in Places : j > i => ~significant(j)
  IN {i \in Places : b(i) \in {3, 7} \/ (b(i) <= 4 /\ a(i) = 0 /\ (leading(i) \/ i = 0))}
================================================================================
