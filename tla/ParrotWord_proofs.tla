-------------------------- MODULE ParrotWord_proofs --------------------------
(***************************************************************************)
(* Proofs about the placing of words in ParrotWord, for every dictionary,  *)
(* every text and every length.                                            *)
(***************************************************************************)
EXTENDS ParrotWord, TLAPS

(***************************************************************************)
(* The part of the state the placing works on, and its types.  What is     *)
(* counted and uploaded has no part in the argument.                       *)
(***************************************************************************)
Typed ==
  /\ dict \in Dicts
  /\ hints \subseteq Hint /\ \A h \in hints : h.from < h.to
  /\ minSize \in Nat \ {0}
  /\ pending \subseteq hints /\ selected \subseteq hints
  /\ pending \cap selected = {}
  /\ marked \subseteq placeholder

(* There is a flag for the first and the last place any hint begins at,    *)
(* and for every place in between.                                         *)
Flagged ==
  \A g, l \in hints, k \in Nat : (g.from <= k /\ k <= l.from) => k \in placeholder

(* The flags of a selected word are set.                                   *)
SelectedMarked == \A h \in selected : Span(h) \cap placeholder \subseteq marked

(* A flag is only set for a hint that was looked at.                       *)
MarkedFor == \A k \in marked : \E g \in hints \ pending : k \in Span(g)

(* What was looked at comes before what was not.                           *)
Sorted == \A g \in hints \ pending, h \in pending : Before(g, h)

IInv == Typed /\ Flagged /\ SelectedMarked /\ MarkedFor /\ Sorted
        /\ NoOverlap /\ TurnedDownForHeavier

-----------------------------------------------------------------------------
(* A word of the dictionary found in a stretch is a hint of at least two   *)
(* characters (getRawRank).                                                *)
LEMMA HintsTyped ==
  ASSUME NEW s \in Stretches, dict \in Dicts
  PROVE  HintsOf(s) \subseteq Hint /\ \A h \in HintsOf(s) : h.from < h.to
<1>1. SUFFICES ASSUME NEW k \in 1..Len(s), NEW l \in 1..Len(s), k < l,
                      SubSeq(s, k, l) \in DOMAIN dict
               PROVE  HintOf(s, k, l) \in Hint
  BY <1>1 DEF HintsOf, HintOf
<1>2. Len(s) \in Nat
  BY ParrotAssumption
<1>3. Size[SubSeq(s, k, l)] \in Nat \ {0}
  BY <1>1, ParrotAssumption
<1>4. dict[SubSeq(s, k, l)] \in Int
  BY <1>1, ParrotAssumption
<1> QED
  BY <1>1, <1>2, <1>3, <1>4 DEF Hint, HintOf

(* The order of the hints only depends on minSize, which the loop of       *)
(* calcPrediction leaves alone.                                            *)
LEMMA OrderStays ==
  ASSUME minSize' = minSize, NEW g, NEW h
  PROVE  Before(g, h)' <=> Before(g, h)
<1>1. Adjusted(g)' = Adjusted(g) /\ Adjusted(h)' = Adjusted(h)
  BY DEF Adjusted
<1> QED
  BY <1>1 DEF Before

(* The first and the last hint enclose a flag for every beginning          *)
(* (place_length of calcPrediction).                                       *)
LEMMA FlagsEnclose ==
  ASSUME NEW H, H \subseteq Hint, \A h \in H : h.from < h.to,
         NEW f, NEW r, IsFront(f, H), IsRear(r, H),
         NEW g \in H, NEW l \in H, NEW k \in Nat, g.from <= k, k <= l.from
  PROVE  k \in f.from..(r.from + Length(r))
<1>1. f \in Hint /\ r \in Hint /\ g \in Hint /\ l \in Hint /\ r.from < r.to
  BY DEF IsFront, IsRear
<1>2. f.from <= g.from /\ l.from <= r.from
  BY DEF IsFront, IsRear
<1> QED
  BY <1>1, <1>2 DEF Hint, Length

(* Words that overlap have a place in common that has a flag.              *)
LEMMA OverlapFlagged ==
  ASSUME Typed, Flagged, NEW g \in hints, NEW h \in hints, Overlap(g, h)
  PROVE  \E k \in placeholder : k \in Span(g) /\ k \in Span(h)
<1>1. g \in Hint /\ h \in Hint /\ g.from < g.to /\ h.from < h.to
  BY DEF Typed
<1>2. CASE g.from <= h.from
  <2>1. h.from \in placeholder
    BY <1>1, <1>2 DEF Flagged, Hint
  <2> QED
    BY <1>1, <1>2, <2>1 DEF Span, Overlap, Hint
<1>3. CASE h.from <= g.from
  <2>1. g.from \in placeholder
    BY <1>1, <1>3 DEF Flagged, Hint
  <2> QED
    BY <1>1, <1>3, <2>1 DEF Span, Overlap, Hint
<1> QED
  BY <1>1, <1>2, <1>3 DEF Hint

-----------------------------------------------------------------------------
(* Nothing is placed to begin with.                                        *)
LEMMA InitIInv == Init => IInv
  BY ParrotAssumption
  DEF Init, IInv, Typed, Flagged, SelectedMarked, MarkedFor, Sorted, NoOverlap,
      TurnedDownForHeavier

(* A new stretch: its hints are all pending (getRawRank).                  *)
LEMMA LearnStep ==
  ASSUME IInv, NEW s \in Stretches, Learn(s)
  PROVE  IInv'
<1>1. dict' = dict /\ dict \in Dicts /\ hints' = HintsOf(s) /\ pending' = hints'
      /\ marked' = {} /\ selected' = {}
  BY DEF IInv, Typed, Learn
<1>2. hints' \subseteq Hint /\ \A h \in hints' : h.from < h.to
  BY <1>1, HintsTyped
<1>3. minSize' \in Nat \ {0}
  BY <1>2, ParrotAssumption DEF Learn, Hint
<1>4. Flagged'
  <2>1. CASE hints' = {}
    BY <2>1 DEF Flagged
  <2>2. CASE hints' # {}
    <3>1. PICK f \in hints', r \in hints' :
            /\ IsFront(f, hints') /\ IsRear(r, hints')
            /\ placeholder' = f.from..(r.from + Length(r))
      BY <2>2 DEF Learn
    <3> QED
      BY <1>2, <3>1, FlagsEnclose DEF Flagged
  <2> QED
    BY <2>1, <2>2
<1> QED
  BY <1>1, <1>2, <1>3, <1>4
  DEF IInv, Typed, SelectedMarked, MarkedFor, Sorted, NoOverlap, TurnedDownForHeavier

(* One round of the loop of calcPrediction.                                *)
LEMMA PlaceStep ==
  ASSUME IInv, NEW h \in pending, Place(h)
  PROVE  IInv'
<1> DEFINE taken == Span(h) \cap marked
<1>1. /\ UNCHANGED <<dict, hints, minSize, placeholder>>
      /\ pending' = pending \ {h}
      /\ marked' = marked \cup {k \in Span(h) \cap placeholder : \A t \in taken : k < t}
      /\ selected' = IF taken = {} THEN selected \cup {h} ELSE selected
      /\ \A g \in pending \ {h} : Before(h, g)
  BY DEF Place
<1>2. /\ Typed /\ Flagged /\ SelectedMarked /\ MarkedFor /\ Sorted
      /\ NoOverlap /\ TurnedDownForHeavier
  BY DEF IInv
<1>3. h \in hints
  BY <1>2 DEF Typed
<1>4. \A x, y : Before(x, y)' <=> Before(x, y)
  BY <1>1, OrderStays
<1>5. Typed'
  BY <1>1, <1>2, <1>3 DEF Typed
<1>6. Flagged'
  BY <1>1, <1>2 DEF Flagged
<1>7. SelectedMarked'
  <2>1. ASSUME NEW g \in selected', NEW k \in Span(g) \cap placeholder
        PROVE  k \in marked'
    BY <1>1, <1>2, <2>1 DEF SelectedMarked
  <2> QED
    BY <1>1, <2>1 DEF SelectedMarked, Span
<1>8. MarkedFor'
  <2>1. ASSUME NEW k \in marked'
        PROVE  \E g \in hints \ (pending \ {h}) : k \in Span(g)
    BY <1>1, <1>2, <1>3, <2>1 DEF MarkedFor
  <2> QED
    BY <1>1, <2>1 DEF MarkedFor, Span
<1>9. Sorted'
  <2>1. ASSUME NEW g \in hints \ (pending \ {h}), NEW x \in pending \ {h}
        PROVE  Before(g, x)
    BY <1>1, <1>2, <2>1 DEF Sorted
  <2> QED
    BY <1>1, <1>4, <2>1 DEF Sorted
<1>10. NoOverlap'
  <2>1. ASSUME NEW g \in selected, taken = {}, Overlap(g, h)
        PROVE  FALSE
    <3>1. g \in hints
      BY <1>2 DEF Typed
    <3>2. PICK k \in placeholder : k \in Span(g) /\ k \in Span(h)
      BY <1>2, <1>3, <2>1, <3>1, OverlapFlagged
    <3>3. k \in marked
      BY <1>2, <3>2 DEF SelectedMarked
    <3> QED
      BY <2>1, <3>2, <3>3
  <2>2. ASSUME NEW g \in selected, taken = {}, Overlap(h, g)
        PROVE  FALSE
    <3>1. Overlap(g, h)
      BY <2>2 DEF Overlap
    <3> QED
      BY <2>1, <2>2, <3>1
  <2>3. ASSUME NEW g \in selected', NEW x \in selected', g # x, Overlap(g, x)
        PROVE  FALSE
    BY <1>1, <1>2, <2>1, <2>2, <2>3 DEF NoOverlap
  <2> QED
    BY <2>3 DEF NoOverlap, Overlap
<1>11. TurnedDownForHeavier'
  <2>1. ASSUME taken # {}
        PROVE  \E g \in hints \ pending : Before(g, h) /\ Overlap(g, h)
    <3>1. PICK t : t \in Span(h) /\ t \in marked
      BY <2>1
    <3>2. PICK g \in hints \ pending : t \in Span(g)
      BY <1>2, <3>1 DEF MarkedFor
    <3>3. Before(g, h)
      BY <1>2, <3>2 DEF Sorted
    <3>4. g \in Hint /\ h \in Hint
      BY <1>2, <1>3, <3>2 DEF Typed
    <3>5. Overlap(g, h)
      BY <3>1, <3>2, <3>4 DEF Span, Overlap, Hint
    <3> QED
      BY <3>2, <3>3, <3>5
  <2>2. ASSUME NEW x \in hints \ ((pending \ {h}) \cup selected')
        PROVE  \E g \in hints \ (pending \ {h}) : Before(g, x) /\ Overlap(g, x)
    <3>1. CASE x = h
      BY <1>1, <2>1, <2>2, <3>1
    <3>2. CASE x # h
      BY <1>1, <1>2, <2>2, <3>2 DEF TurnedDownForHeavier
    <3> QED
      BY <3>1, <3>2
  <2> QED
    BY <1>1, <1>4, <2>2 DEF TurnedDownForHeavier, Overlap
<1> QED
  BY <1>5, <1>6, <1>7, <1>8, <1>9, <1>10, <1>11 DEF IInv

(* Steps that leave the placing alone.                                     *)
LEMMA OtherStep ==
  ASSUME IInv, UNCHANGED cutting, dict' \in Dicts
  PROVE  IInv'
<1>1. UNCHANGED <<hints, minSize, pending, placeholder, marked, selected>>
  BY DEF cutting
<1>2. \A x, y : Before(x, y)' <=> Before(x, y)
  BY <1>1, OrderStays
<1>3. Typed' /\ Flagged' /\ SelectedMarked' /\ MarkedFor' /\ NoOverlap'
  BY <1>1 DEF IInv, Typed, Flagged, SelectedMarked, MarkedFor, NoOverlap, Span, Overlap
<1>4. Sorted' /\ TurnedDownForHeavier'
  BY <1>1, <1>2 DEF IInv, Sorted, TurnedDownForHeavier, Overlap
<1> QED
  BY <1>3, <1>4 DEF IInv

(* The end of an article: nothing is placed any more.                      *)
LEMMA CommitStep ==
  ASSUME IInv, Commit
  PROVE  IInv'
  BY ParrotAssumption
  DEF Commit, IInv, Typed, Flagged, SelectedMarked, MarkedFor, Sorted, NoOverlap,
      TurnedDownForHeavier

LEMMA StepIInv == IInv /\ [Next]_vars => IInv'
<1> SUFFICES ASSUME IInv, [Next]_vars PROVE IInv'
  OBVIOUS
<1>1. dict \in Dicts
  BY DEF IInv, Typed
<1>2. ASSUME NEW s \in Stretches, LearnNothing(s) PROVE IInv'
  BY <1>1, <1>2, OtherStep DEF LearnNothing
<1>3. ASSUME NEW s \in Stretches, Learn(s) PROVE IInv'
  BY <1>3, LearnStep
<1>4. ASSUME NEW h \in pending, Place(h) PROVE IInv'
  BY <1>4, PlaceStep
<1>5. CASE PlaceEnd
  BY <1>1, <1>5, OtherStep DEF PlaceEnd
<1>6. CASE CollectWord
  BY <1>1, <1>6, OtherStep DEF CollectWord
<1>7. CASE Commit
  BY <1>7, CommitStep
<1>8. CASE NextArticle
  BY <1>8, OtherStep DEF NextArticle
<1>9. CASE UNCHANGED vars
  BY <1>1, <1>9, OtherStep DEF vars
<1> QED
  BY <1>2, <1>3, <1>4, <1>5, <1>6, <1>7, <1>8, <1>9 DEF Next

(* The inductive invariant of the placing holds in every state.            *)
THEOREM Invariance == Spec => []IInv
  BY InitIInv, StepIInv, PTL DEF Spec

(* calcPrediction never places two words that overlap, for every           *)
(* dictionary and every text (parrotword.cpp, the loop over weightElem).   *)
THEOREM PlacedApart == Spec => []NoOverlap
<1>1. IInv => NoOverlap
  BY DEF IInv
<1> QED
  BY <1>1, Invariance, PTL

(* calcPrediction only turns a word down for one that is at least as heavy *)
(* and needs one of its places.                                            *)
THEOREM HeavierGoFirst == Spec => []TurnedDownForHeavier
<1>1. IInv => TurnedDownForHeavier
  BY DEF IInv
<1> QED
  BY <1>1, Invariance, PTL
=============================================================================
