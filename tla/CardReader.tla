------------------------------- MODULE CardReader -------------------------------
(***************************************************************************)
(* The magnetic card reader inside the TMC0501 (Core/TMC0501.cpp): a card  *)
(* of four banks, the buffer of the bank that swipes past, and the mode of *)
(* the swipe.  The card switch, bit 4 of a key row, is the caller's.       *)
(***************************************************************************)
EXTENDS Integers, Sequences

CONSTANTS BankSize,   \* 246 nibbles of a bank, one byte each
          Banks       \* 0..3

\* A swipe's direction (m_cardMode).
Off == 0
Reading == 1
Writing == 2

NoBank == [i \in 0..(BankSize - 1) |-> 0]
ReaderAtStart ==
  [present |-> FALSE, waiting |-> FALSE, full |-> [b \in Banks |-> NoBank], buf |-> NoBank,
   ptr |-> 0, mode |-> Off, last |-> -1]

\* Nibble 2 of a bank names it: 0, 3, 6, 9.
BankOf(c) == (c.buf[2] % 16) \div 3

\* IN CRD: the next nibble of a read swipe, otherwise 0; OUT CRD the reverse.
CardIn(c) == IF c.present /\ c.mode = Reading /\ c.ptr < BankSize
             THEN [nibble |-> c.buf[c.ptr], card |-> [c EXCEPT !.ptr = @ + 1]]
             ELSE [nibble |-> 0, card |-> c]
CardOut(c, v) == IF c.present /\ c.mode = Writing /\ c.ptr < BankSize
                 THEN [c EXCEPT !.buf[c.ptr] = v, !.ptr = @ + 1]
                 ELSE c

\* CRD_READ and CRD_WRITE start a swipe if none is under way.
CardRead(c) ==
  IF c.mode # Off THEN c
  ELSE [c EXCEPT !.buf = IF BankOf(c) \in Banks THEN c.full[BankOf(c)] ELSE @,
                 !.mode = Reading, !.ptr = 0]
CardWrite(c) == IF c.mode # Off THEN c ELSE [c EXCEPT !.mode = Writing, !.ptr = 0]

\* CRD_OFF: a written bank goes onto the card, a read one makes way for the
\* next; the card leaves the reader.
CardOff(c) ==
  LET kept == CASE c.mode = Writing /\ BankOf(c) \in Banks ->
                     [c EXCEPT !.full[BankOf(c)] = c.buf, !.last = BankOf(c)]
                [] c.mode = Reading -> [c EXCEPT !.buf[2] = (@ + 3) % 16]
                [] OTHER -> c
  IN [kept EXCEPT !.mode = Off, !.ptr = 0, !.present = FALSE]

\* insertCard(data): one bank goes to slot 0 whatever bank it holds, a file of
\* four banks fills the card.  The other slots are empty.
InsertedCard(c, data) ==
  [c EXCEPT !.full = [b \in Banks |-> IF b \in DOMAIN data THEN data[b] ELSE NoBank],
            !.buf = NoBank, !.ptr = 0, !.mode = Off, !.last = -1,
            !.present = TRUE, !.waiting = FALSE]

\* cardEject(): the bank written since the card went in, once; <<>> otherwise.
EjectedBank(c) == IF c.last \in Banks THEN <<c.full[c.last]>> ELSE <<>>
EjectedCard(c) == [c EXCEPT !.present = FALSE, !.waiting = FALSE, !.mode = Off, !.last = -1]

\* TST BUSY at the card switch's digit with no card in: the ROM waits for one.
WaitsForCard(c, switchHigh) == IF ~c.present /\ switchHigh THEN [c EXCEPT !.waiting = TRUE] ELSE c
================================================================================
