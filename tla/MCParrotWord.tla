---------------------------- MODULE MCParrotWord ----------------------------
(* A character of three bytes and one of four, for TLC. *)
EXTENDS ParrotWord

CONSTANTS x, y, Longest, Preds

MCTexts(n) == UNION {[1..k -> {x, y}] : k \in 1..n}
MCBytes(c) == IF c = x THEN 3 ELSE 4
MCWords == MCTexts(Longest)
MCSize == [w \in MCWords |-> FoldLeft(LAMBDA n, c : n + MCBytes(c), 0, w)]
MCStretches == MCTexts(Longest)
\* one or two words of two or three characters
MCShort ==
  LET entries == MCTexts(3) \ MCTexts(1)
  IN UNION {[{v, w} -> Preds] : v, w \in entries}
\* a word as long as a stretch, all of it but the first character, and the
\* third and fourth: where the last begins last, both others reach beyond
\* the flags and share places there
MCNested ==
  UNION {[{t, SubSeq(t, 2, Longest), SubSeq(t, 3, 4)} -> Preds] : t \in [1..Longest -> {x, y}]}
MCDicts == {<<>>} \cup MCShort \cup MCNested
=============================================================================
