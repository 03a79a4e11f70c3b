-------------------------------- MODULE RomLoader --------------------------------
(***************************************************************************)
(* The calculators' images (Shared/RomLoader.cpp): text files of rows      *)
(* below a rule, whose concatenation must have the right length and, on a  *)
(* TI-59, the right ends.  What throws RomError there returns <<>> here.   *)
(***************************************************************************)
EXTENDS Models, SequencesExt

CONSTANTS
  RomFiles,      \* ModelInfo::romFiles: a model's files, in order
  ConstFiles,    \* ModelInfo::constFiles
  RomWordCount,  \* ModelInfo::romWordCount, 6144
  ConstantRows,  \* 64
  FirstWord,     \* words[0] of the TI-59's image
  LastWord       \* and words[6143]

NoNumber == -1       \* what is no hex number, or no hex digit

\* parseRomTxt(): the rows' addresses must parse and are not looked at.
RomLine(p, l) ==
  CASE l.k = "rule" -> [p EXCEPT !.inData = TRUE]
    [] l.k = "row" /\ p.inData -> [p EXCEPT !.words = @ \o l.words, !.bad = @ \/ NoNumber \in Range(l.words)]
    [] OTHER -> p
ParseRom(lines) ==
  LET p == FoldLeft(RomLine, [inData |-> FALSE, words |-> <<>>, bad |-> FALSE], lines)
  IN IF p.bad THEN <<>> ELSE <<p.words>>

\* parseConstantsTxt(): the rows between the numbers' title and the next rule,
\* those of another length than 16 digits left out, each from its last digit on.
ConstantLine(p, l) ==
  CASE p.over -> p
    [] ~p.over /\ l.k = "numbers" -> [p EXCEPT !.inNumber = TRUE]
    [] ~p.over /\ l.k = "rule" -> [p EXCEPT !.over = p.inNumber]
    [] ~p.over /\ l.k = "row" /\ p.inNumber /\ Len(l.words) = 16 ->
         [p EXCEPT !.rows = Append(@, Reverse(l.words)), !.bad = @ \/ NoNumber \in Range(l.words)]
    [] OTHER -> p
ParseConstants(lines) ==
  LET p == FoldLeft(ConstantLine, [inNumber |-> FALSE, over |-> FALSE, rows |-> <<>>, bad |-> FALSE], lines)
  IN IF p.bad THEN <<>> ELSE <<p.rows>>

\* The parts of an image, one after the other; none may be missing or bad.
Joined(parts) == IF <<>> \in Range(parts) THEN <<>> ELSE <<FlattenSeq([i \in DOMAIN parts |-> parts[i][1]])>>
LoadRom(d, texts) ==
  LET part(name) == IF name \in DOMAIN texts THEN ParseRom(texts[name]) ELSE <<>>
      image == Joined([i \in DOMAIN RomFiles[d] |-> part(RomFiles[d][i])])
      complete(words) == /\ Len(words) = RomWordCount
                         /\ HasLargeMemory(d) => words[1] = FirstWord /\ words[RomWordCount] = LastWord
  IN IF image # <<>> /\ complete(image[1]) THEN image ELSE <<>>
LoadConstants(d, texts) ==
  LET part(name) == IF name \in DOMAIN texts THEN ParseConstants(texts[name]) ELSE <<>>
      rows == Joined([i \in DOMAIN ConstFiles[d] |-> part(ConstFiles[d][i])])
  IN IF rows # <<>> /\ Len(rows[1]) = ConstantRows THEN rows ELSE <<>>

\* EmulatorSession(): both images, or the exception that startMachine() catches.
SessionBuilt(d, texts) == LoadRom(d, texts) # <<>> /\ LoadConstants(d, texts) # <<>>
================================================================================
