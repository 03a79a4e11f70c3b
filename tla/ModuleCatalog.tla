----------------------------- MODULE ModuleCatalog -----------------------------
(***************************************************************************)
(* Solid-state modules: the catalogue cuecards.txt (Shared/ModuleCatalog)  *)
(* as the lines it is made of - sections that MODULE-ID opens, with the    *)
(* module's titles, its ROM file and a cue card for each library program - *)
(* and a module's ROM file (parseModuleTxt in Shared/RomLoader.cpp).       *)
(***************************************************************************)
EXTENDS CueCard, Functions

CONSTANT LibSize          \* 5000 bytes of library module

FreshModule == [id |-> "", title |-> "", menuTitle |-> "", menuSort |-> 0]

\* A number that does not parse leaves the place in the menu as it was.
Described(info, l) ==
  CASE l.k = "title"     -> [info EXCEPT !.title = l.text]
    [] l.k = "menuTitle" -> [info EXCEPT !.menuTitle = l.text]
    [] l.k = "menuSort"  -> [info EXCEPT !.menuSort = IF l.n = <<>> THEN @ ELSE l.n[1]]
    [] OTHER             -> info

\* allModuleMetadata(): every module with an id, by menu number, then as listed.
AllModuleMetadata(lines) ==
  LET take(all, l) == CASE l.k = "id" -> Append(all, [FreshModule EXCEPT !.id = l.text])
                        [] l.k # "id" /\ all # <<>> -> [all EXCEPT ![Len(all)] = Described(@, l)]
                        [] OTHER -> all
      all == SelectSeq(FoldLeft(take, <<>>, lines), LAMBDA info : info.id # "")
      before(i, j) == all[i].menuSort < all[j].menuSort \/ (all[i].menuSort = all[j].menuSort /\ i < j)
      order == SetToSortSeq(DOMAIN all, before)
  IN [i \in DOMAIN order |-> all[order[i]]]

\* The section a line stands in: the last MODULE-ID at or above it.
SectionOf(lines, i) ==
  LET ids == {j \in 1..i : lines[j].k = "id"}
  IN IF ids = {} THEN <<>> ELSE <<lines[CHOOSE j \in ids : \A o \in ids : o <= j].text>>
\* moduleRomFile(): the first MODULE-ROM in a section of that name.
ModuleRomFile(lines, id) ==
  LET roms == {i \in DOMAIN lines : lines[i].k = "rom" /\ SectionOf(lines, i) = <<id>>}
  IN IF roms = {} THEN <<>> ELSE <<lines[CHOOSE i \in roms : \A o \in roms : i <= o].file>>

\* moduleCards(): the first section of that name.  A CUECARD: line keeps the
\* card before it under its number; an unknown name leaves the last section's id.
KeepCard(p) == IF p.current = <<>> THEN p.cards
               ELSE [n \in DOMAIN p.cards \cup {p.key} |-> IF n = p.key THEN p.current[1] ELSE p.cards[n]]
CatalogueLine(p, id, l) ==
  CASE l.k = "id" /\ p.inTarget  -> [p EXCEPT !.done = TRUE]
    [] l.k = "id" /\ ~p.inTarget -> [p EXCEPT !.inTarget = l.text = id, !.info.id = l.text]
    [] l.k # "id" /\ ~p.inTarget -> p
    [] p.inTarget /\ l.k = "cuecard" -> [p EXCEPT !.cards = KeepCard(p), !.key = l.n, !.current = <<FreshCue>>]
    [] p.inTarget /\ l.k = "field" /\ p.current # <<>> -> [p EXCEPT !.current = <<ParseCueLine(@[1], l.field)>>]
    [] OTHER -> [p EXCEPT !.info = Described(@, l)]
ModuleCards(lines, id) ==
  LET p == FoldLeft(LAMBDA q, l : IF q.done THEN q ELSE CatalogueLine(q, id, l),
                    [inTarget |-> FALSE, done |-> FALSE, key |-> 0, current |-> <<>>,
                     cards |-> [n \in {} |-> FreshCue], info |-> FreshModule], lines)
  IN [cards |-> KeepCard(p), info |-> p.info]

\* parseModuleTxt(): rows of an address and its bytes, below the rule.  Bytes
\* that do not parse are left out, so those after them move up; an image ends
\* at its last byte, and without any there is none.
BadByte == -1
ParseModule(lines) ==
  LET rules == {i \in DOMAIN lines : lines[i].k = "rule"}
      rows == IF rules = {} THEN <<>>
              ELSE SelectSeq(SubSeq(lines, CHOOSE i \in rules : \A o \in rules : i <= o, Len(lines)), LAMBDA l : l.k = "row")
      bytes(r) == SelectSeq(r.bytes, LAMBDA b : b # BadByte)
      place(image, r) == [a \in DOMAIN image \cup {a \in 0..(LibSize - 1) : a - r.addr + 1 \in DOMAIN bytes(r)} |->
                            IF a - r.addr + 1 \in DOMAIN bytes(r) THEN bytes(r)[a - r.addr + 1] ELSE image[a]]
      given == FoldLeft(place, [a \in {} |-> 0], rows)
      size == IF DOMAIN given = {} THEN 0 ELSE 1 + CHOOSE a \in DOMAIN given : \A o \in DOMAIN given : o <= a
  IN [i \in 1..size |-> IF i - 1 \in DOMAIN given THEN given[i - 1] ELSE 0]

\* resolveCueCard(): a library program's card covers the user's.
ResolveCueCard(program, cards, info, user) ==
  CASE program > 0 /\ program \in DOMAIN cards -> <<cards[program]>>
    [] program > 0 /\ program \notin DOMAIN cards /\ (info.title # "" \/ info.id # "") ->
         <<[FreshCue EXCEPT !.template = "SolidStateCard", !.text.title = info.title, !.text.id = info.id]>>
    [] program > 0 /\ program \notin DOMAIN cards /\ info.title = "" /\ info.id = "" -> <<>>
    [] OTHER -> user
================================================================================
