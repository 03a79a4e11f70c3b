------------------------------- MODULE AsmOverlay -------------------------------
(***************************************************************************)
(* The words of an ASM file (Shared/AsmOverlay.cpp): what follows its HEX: *)
(* line, as tokens of hexadecimal digits.  A token that 0x introduces may  *)
(* have any length, one without has at least four digits; four digits are  *)
(* a word, of which 13 bits are kept.                                      *)
(***************************************************************************)
EXTENDS Integers, SequencesExt

CONSTANT OverlayWords     \* OVERLAY_WORDS: 2048

IsToken(l) == l.k = "token" /\ (l.prefixed \/ Len(l.digits) >= 4)
WordAt(digits, n) == [i \in 1..4 |-> IF i = 1 THEN digits[4 * n - 3] % 2 ELSE digits[4 * n - 4 + i]]
WordsOf(token) == [n \in 1..(Len(token.digits) \div 4) |-> WordAt(token.digits, n)]

\* parseAsmWords(): <<>> stands for every error.
ParseAsmWords(lines) ==
  LET heads == {i \in DOMAIN lines : lines[i].k = "hex"}
      tokens == IF heads = {} THEN <<>>
                ELSE SelectSeq(SubSeq(lines, CHOOSE i \in heads : \A o \in heads : i <= o, Len(lines)), IsToken)
      words == FlattenSeq([i \in DOMAIN tokens |-> WordsOf(tokens[i])])
      whole == \A i \in DOMAIN tokens : Len(tokens[i].digits) % 4 = 0
  IN IF whole /\ Len(words) <= OverlayWords THEN words ELSE <<>>
================================================================================
