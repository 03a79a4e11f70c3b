--------------------------------- MODULE CueCard ---------------------------------
(***************************************************************************)
(* A cue card's contents (Shared/CueCard.cpp): what its "Key: value" lines *)
(* set, how they are written back, which labels are drawn as one span, and *)
(* which card is on show.  A text is an opaque value, "" none at all.      *)
(***************************************************************************)
EXTENDS Integers, Sequences, SequencesExt, FiniteSets

Labels == <<"A'", "B'", "C'", "D'", "E'", "A", "B", "C", "D", "E">>
Invisible == "blank"              \* kCueCardInvisibleMarker: joins a column to the one before

\* Every field but template and banks, with the value it has when not given.
Defaults ==
  [title |-> "", id |-> "", row1 |-> "", row1align |-> "center", row2 |-> "", row2align |-> "left",
   row2r |-> "", row2ralign |-> "left", style |-> "none", color |-> "black"]
FieldOrder == <<"row1", "row1align", "row2", "row2align", "row2r", "row2ralign", "style", "color">>
Templates == {"CueCard", "MagnetCard", "SolidStateCard"}

FreshCue == [template |-> "CueCard", left |-> {}, right |-> {}, text |-> Defaults, labels |-> [i \in 1..10 |-> ""]]

Known(key, value) ==
  CASE key = "style" -> value \in {"none", "button"}
    [] key = "color" -> value \in {"black", "pencil", "sharpie"}
    [] OTHER -> TRUE
Aligned(value) == IF value \in {"right", "center"} THEN value ELSE "left"

\* parseLine(): unknown keys, and unknown words where a word is expected, say nothing.
ParseCueLine(c, line) ==
  CASE line.key = "template" /\ line.value \in Templates -> [c EXCEPT !.template = line.value]
    [] line.key = "banks" -> [c EXCEPT !.left = line.value[1], !.right = line.value[2]]
    [] line.key \in {"row1align", "row2align", "row2ralign"} -> [c EXCEPT !.text[line.key] = Aligned(line.value)]
    [] line.key \in DOMAIN Defaults \ {"row1align", "row2align", "row2ralign"} /\ Known(line.key, line.value) ->
         [c EXCEPT !.text[line.key] = line.value]
    [] line.key \in Range(Labels) ->
         [c EXCEPT !.labels = [i \in 1..10 |-> IF Labels[i] = line.key THEN line.value ELSE @[i]]]
    [] OTHER -> c

Key(key, value) == [key |-> key, value |-> value]

\* encodeToLines(t): what differs from a fresh card; the banks only of a MagnetCard.
EncodeCue(c, t) ==
  LET given(key) == IF c.text[key] = Defaults[key] THEN <<>> ELSE <<Key(key, c.text[key])>>
      banks == IF t = "MagnetCard" /\ (c.left # {} \/ c.right # {}) THEN <<Key("banks", <<c.left, c.right>>)>> ELSE <<>>
      label(i) == IF c.labels[i] = "" THEN <<>> ELSE <<Key(Labels[i], c.labels[i])>>
  IN <<Key("template", t)>> \o given("title") \o banks \o given("id")
     \o FlattenSeq([i \in 1..10 |-> label(i)]) \o FlattenSeq([i \in DOMAIN FieldOrder |-> given(FieldOrder[i])])

\* labelSpans(): a label of row 0 or 1 with the blank columns after it.
LabelSpans(c, row) ==
  LET at(i) == c.labels[5 * row + i]
  IN {s \in (1..5) \X (1..5) :
        /\ at(s[1]) \notin {"", Invisible} /\ s[1] <= s[2]
        /\ \A j \in (s[1] + 1)..s[2] : at(j) = Invisible
        /\ s[2] < 5 => at(s[2] + 1) # Invisible}
\* dividersBetween(): the column borders that no span crosses.
Dividers(spans) == {i \in 1..4 : \A s \in spans : ~(s[1] <= i /\ i < s[2])}

ActiveLibraryProgram(scom9) == scom9[4] * 10 + scom9[3]
================================================================================
