----------------------------- MODULE ParrotWord -----------------------------
(***************************************************************************)
(* A parrot worker (tools/parrot.cpp, watorword/parrotword.cpp) looks the  *)
(* words of the dictionary up in a stretch of text, places them greedily,  *)
(* the heaviest first, without overlap, cuts the placed words out of the   *)
(* stretch and counts what is left over: single characters the dictionary  *)
(* does not explain.  At the end of an article the frequent ones are       *)
(* uploaded.                                                               *)
(*                                                                         *)
(* Positions are counted in characters; the code counts bytes, but every   *)
(* word begins and ends with a character.  The sizes, which decide the     *)
(* weights, are in bytes.  A weight is kept as its logarithm to base 2.    *)
(***************************************************************************)
EXTENDS Integers, Sequences, FiniteSets, Bags, SequencesExt

CONSTANTS
  Words,        \* the sequences of characters the system may meet
  Size,         \* word.size(): their bytes
  Stretches,    \* the stretches of an article, from claw.eachSentence
  Dicts,        \* the dictionaries: the logarithm of getDoublePred where > 0
  gWordLength,  \* 32 in the code
  SizeMax,      \* statisticsMinWordSize_ to begin with, 32 in the code
  minWordRepeateTimes_, \* 5 in the code
  ChunkWords,   \* 256 in the code
  Space,        \* what a word that was cut out is replaced by
  MaxStretches  \* bound: stretches of one article

ASSUME ParrotAssumption ==
  /\ Size \in [Words -> Nat \ {0}]
  /\ Stretches \subseteq Words
  /\ \A s \in Stretches :
       /\ s \in Seq({s[k] : k \in DOMAIN s})
       /\ \A k \in DOMAIN s : s[k] # Space
       /\ \A k, l \in DOMAIN s : k <= l => SubSeq(s, k, l) \in Words
  /\ \A d \in Dicts : d \in [DOMAIN d -> Int] /\ DOMAIN d \subseteq Words
  /\ {gWordLength, SizeMax, minWordRepeateTimes_, MaxStretches} \subseteq Nat \ {0}
  /\ ChunkWords \in Nat \ {0, 1}

VARIABLES
  dict,        \* the dictionary of the article's language
  pc,          \* "idle", "place", "collect", "sent"
  stretch,     \* the text in hand
  hints,       \* wordHintSeq_: the words of the dictionary found in it
  minSize,     \* statisticsMinWordSize_
  pending,     \* the hints calcPrediction has not looked at yet
  placeholder, \* the places calcPrediction keeps a flag for
  marked,      \* those whose flag is set
  selected,    \* wordSeqTopSelected_
  multiWord,   \* multiWordOfOneArticle_
  uploads,     \* the word lists sent for the article
  stretches    \* stretches of the article learnt so far

cutting == <<hints, minSize, pending, placeholder, marked, selected>>
vars == <<dict, pc, stretch, cutting, multiWord, uploads, stretches>>

Init ==
  /\ dict \in Dicts
  /\ pc = "idle"
  /\ stretch = <<>>
  /\ hints = {} /\ minSize = SizeMax
  /\ pending = {} /\ placeholder = {} /\ marked = {} /\ selected = {}
  /\ multiWord = EmptyBag
  /\ uploads = <<>>
  /\ stretches = 0

-----------------------------------------------------------------------------
(* Hints *)

Span(h) == h.from..h.to
Overlap(g, h) == g.from <= h.to /\ h.from <= g.to
Length(h) == h.to - h.from + 1
WordOf(h) == SubSeq(stretch, h.from, h.to)

(* getRawRank: the words of two to gWordLength characters with a weight.   *)
HintOf(s, k, l) ==
  [from |-> k, to |-> l, size |-> Size[SubSeq(s, k, l)], pred |-> dict[SubSeq(s, k, l)]]
HintsOf(s) ==
  {HintOf(s, p[1], p[2]) :
     p \in {q \in (1..Len(s)) \X (1..Len(s)) :
              /\ q[1] < q[2] /\ q[2] - q[1] < gWordLength
              /\ SubSeq(s, q[1], q[2]) \in DOMAIN dict}}

(* adjustWeight, weight * 256 ^ (size / minSize - 1): the logarithm, times *)
(* minSize.                                                                *)
Adjusted(h) == h.pred * minSize + 8 * (h.size - minSize)

(* The order of weightElem read from its end: the heaviest first, and of   *)
(* equal weights the one inserted last, which is the one further behind.   *)
Before(g, h) ==
  \/ Adjusted(g) > Adjusted(h)
  \/ Adjusted(g) = Adjusted(h) /\ g.from > h.from
  \/ Adjusted(g) = Adjusted(h) /\ g.from = h.from /\ g.to > h.to

IsFront(h, S) == h \in S /\ \A g \in S : h.from <= g.from
(* wordHintSeq_.rbegin(): of those that begin last the longest.            *)
IsRear(h, S) == h \in S /\ \A g \in S : g.from <= h.from /\ (g.from = h.from => g.to <= h.to)
-----------------------------------------------------------------------------
(* ParrotWord::learn *)

Skip(s) == Len(s) < 2

(* A stretch of one character is left alone.                               *)
LearnNothing(s) ==
  /\ pc = "idle" /\ stretches < MaxStretches
  /\ Skip(s)
  /\ stretches' = stretches + 1
  /\ UNCHANGED <<dict, pc, stretch, cutting, multiWord, uploads>>

(* getRawRank, and calcPrediction up to its loop; without hints it returns *)
(* at once.                                                                *)
Learn(s) ==
  /\ pc = "idle" /\ stretches < MaxStretches
  /\ ~Skip(s)
  /\ pc' = "place"
  /\ stretch' = s
  /\ hints' = HintsOf(s)
  /\ LET sizes == {SizeMax} \cup {h.size : h \in hints'}
     IN \E m \in sizes : (\A n \in sizes : m <= n) /\ minSize' = m
  /\ pending' = hints'
  /\ marked' = {} /\ selected' = {}
  /\ \/ hints' = {} /\ placeholder' = {}
     \/ \E f, r \in hints' :
          /\ IsFront(f, hints') /\ IsRear(r, hints')
          /\ placeholder' = f.from..(r.from + Length(r))
  /\ stretches' = stretches + 1
  /\ UNCHANGED <<dict, multiWord, uploads>>

(* Faulty variant: the word is taken when its first place is free.         *)
PlaceFirstOnly(h) ==
  /\ pc = "place"
  /\ h \in pending /\ \A g \in pending \ {h} : Before(h, g)
  /\ pending' = pending \ {h}
  /\ marked' = marked \cup (Span(h) \cap placeholder)
  /\ selected' = IF h.from \notin marked THEN selected \cup {h} ELSE selected
  /\ UNCHANGED <<dict, pc, stretch, hints, minSize, placeholder, multiWord, uploads, stretches>>
(* Faulty variant: the loop walks weightElem from its begin.               *)
PlaceLightFirst(h) ==
  /\ pc = "place"
  /\ h \in pending /\ \A g \in pending \ {h} : Before(g, h)
  /\ pending' = pending \ {h}
  /\ LET taken == Span(h) \cap marked
     IN /\ marked' = marked \cup {k \in Span(h) \cap placeholder : \A t \in taken : k < t}
        /\ selected' = IF taken = {} THEN selected \cup {h} ELSE selected
  /\ UNCHANGED <<dict, pc, stretch, hints, minSize, placeholder, multiWord, uploads, stretches>>

(* One round of the loop.  The flags of a word are set one by one up to    *)
(* the first that is set already; they stay set when the word is turned    *)
(* down for that.                                                          *)
Place(h) ==
  /\ pc = "place"
  /\ h \in pending /\ \A g \in pending \ {h} : Before(h, g)
  /\ pending' = pending \ {h}
  /\ LET taken == Span(h) \cap marked
     IN /\ marked' = marked \cup {k \in Span(h) \cap placeholder : \A t \in taken : k < t}
        /\ selected' = IF taken = {} THEN selected \cup {h} ELSE selected
  /\ UNCHANGED <<dict, pc, stretch, hints, minSize, placeholder, multiWord, uploads, stretches>>

PlaceEnd ==
  /\ pc = "place"
  /\ pending = {}
  /\ pc' = "collect"
  /\ UNCHANGED <<dict, stretch, cutting, multiWord, uploads, stretches>>

(* replace_all from left to right.  One Space for each character instead   *)
(* of one for the word: the split makes no difference between them.        *)
Blank(text, word) ==
  LET n == Len(word)
      Find(starts, k) ==
        IF SubSeq(text, k, k + n - 1) = word /\ (k - n + 1)..(k - 1) \cap starts = {}
        THEN starts \cup {k} ELSE starts
      starts == FoldLeft(Find, {}, [k \in 1..(Len(text) - n + 1) |-> k])
  IN [k \in DOMAIN text |-> IF (k - n + 1)..k \cap starts # {} THEN Space ELSE text[k]]

Remain ==
  LET order == SetToSortSeq(selected, LAMBDA g, h : g.from < h.from)
  IN FoldLeft(Blank, stretch, [k \in DOMAIN order |-> WordOf(order[k])])

(* What stands alone and has two or three bytes.                           *)
Leftovers(text) ==
  {k \in DOMAIN text :
     /\ text[k] # Space
     /\ k - 1 \in DOMAIN text => text[k - 1] = Space
     /\ k + 1 \in DOMAIN text => text[k + 1] = Space
     /\ Size[<<text[k]>>] \in 2..3}

(* getWordPredictionOfOne and collectWord.                                 *)
CollectWord ==
  /\ pc = "collect"
  /\ pc' = "idle"
  /\ \E left \in {Leftovers(Remain)} :
       multiWord' = multiWord (+)
         [w \in {<<stretch[k]>> : k \in left} |-> Cardinality({k \in left : <<stretch[k]>> = w})]
  /\ UNCHANGED <<dict, stretch, cutting, uploads, stretches>>

-----------------------------------------------------------------------------
(* ParrotWord::commitArticle *)

PutEntry(acc, entry) ==
  LET open == Append(acc.open, entry)
      full == (acc.iCounter + 1) % ChunkWords = 0
  IN [out |-> IF full THEN Append(acc.out, open) ELSE acc.out,
      open |-> IF full THEN <<>> ELSE open,
      iCounter |-> acc.iCounter + 1]

(* Only an article that left nothing over gets the empty list; one whose   *)
(* leftovers are all rare gets none and is never marked done.              *)
PickupWordRanking ==
  LET often == SetToSeq({w \in DOMAIN multiWord : multiWord[w] >= minWordRepeateTimes_})
      entries == [k \in DOMAIN often |->
                    <<often[k], multiWord[often[k]] \div minWordRepeateTimes_>>]
      chunks == FoldLeft(PutEntry, [out |-> <<>>, open |-> <<>>, iCounter |-> 1], entries)
  IN chunks.out
       \o (IF chunks.open = <<>> THEN <<>> ELSE <<chunks.open>>)
       \o (IF multiWord = EmptyBag THEN << <<>> >> ELSE <<>>)

(* What the next getRawRank clears is cleared here.                        *)
Commit ==
  /\ pc = "idle"
  /\ pc' = "sent"
  /\ uploads' = PickupWordRanking
  /\ multiWord' = EmptyBag
  /\ stretch' = <<>> /\ hints' = {} /\ minSize' = SizeMax
  /\ pending' = {} /\ placeholder' = {} /\ marked' = {} /\ selected' = {}
  /\ UNCHANGED <<dict, stretches>>

(* The next article has the dictionary of its language.                    *)
NextArticle ==
  /\ pc = "sent"
  /\ pc' = "idle"
  /\ dict' \in Dicts
  /\ stretches' = 0
  /\ uploads' = <<>>
  /\ UNCHANGED <<stretch, cutting, multiWord>>

-----------------------------------------------------------------------------
Next ==
  \/ \E s \in Stretches : LearnNothing(s) \/ Learn(s)
  \/ \E h \in pending : Place(h)
  \/ PlaceEnd
  \/ CollectWord
  \/ Commit \/ NextArticle

Spec == Init /\ [][Next]_vars

-----------------------------------------------------------------------------
(* Properties *)

Hint == [from : Nat \ {0}, to : Nat \ {0}, size : Nat \ {0}, pred : Int]

(* The words placed do not overlap, although places behind the last flag   *)
(* are not checked and a longer word may reach beyond the one that begins  *)
(* last, which is what the number of flags is taken from.                  *)
NoOverlap ==
  \A g, h \in selected : g # h => ~Overlap(g, h)

(* A word is only turned down for one that was looked at before it, heavier*)
(* or as heavy, and needs one of its places.                               *)
TurnedDownForHeavier ==
  \A h \in hints \ (pending \cup selected) :
    \E g \in hints \ pending : Before(g, h) /\ Overlap(g, h)
=============================================================================
