----------------------------- MODULE PhoenixWord -----------------------------
(***************************************************************************)
(* The segmenters that look for the best way through a stretch of text:    *)
(* PhoenixWord in the phoenix worker (tools/phoenix.cpp), which learns     *)
(* pairs of neighbouring words, and ZhiZiWord in the dialogue service      *)
(* (watorword/api_wai.cpp), which cuts what a user sends, Japanese by the  *)
(* words alone and Chinese by the words and the phrases of two words.      *)
(*                                                                         *)
(* The words of the dictionary found in a stretch are hints, gaps between  *)
(* them become hints of a very small weight, and the hints are divided     *)
(* into clusters that do not overlap.  Each cluster is a graph of words    *)
(* that follow each other, and its shortest path is selected.              *)
(*                                                                         *)
(* Positions are counted in characters, all of them of three bytes.  The   *)
(* costs of the edges, floats in the code, are integers here: tables give  *)
(* 1 divided by a weight and what adjustWeight makes of a length, scaled.  *)
(***************************************************************************)
EXTENDS MasterDict, Bags, SequencesExt, FiniteSetsExt

CONSTANTS
  None,
  Worker,       \* the program that segments; the others only load
  Kinds,        \* what it may be: "phoenix", "ja", "cn"
  WordDb,       \* the words of its language
  PhraseDb,     \* the phrases; for the phoenix worker the other language
  Dash,         \* between the words of a phrase
  Texts,        \* the stretches it meets
  Gain,         \* gWeigthAdjustBase, 4096 in the code
  Inv,          \* 1 / weight, scaled
  MissInv,      \* 1 / dConstMissMatchPred, which is below every weight
  InvGain,      \* 1 / Gain ^ (length / least length - 1), scaled, by both
  gWordLength,  \* 32 in the code
  minWordRepeateTimes_, \* 2 in the code
  MaxStretches  \* bound: stretches of one article

ASSUME PhoenixAssumption ==
  /\ Worker \in Procs \ Tools
  /\ Kinds \subseteq {"phoenix", "ja", "cn"}
  /\ {WordDb, PhraseDb} \subseteq DbSet
  /\ \A t \in Texts : t \in Seq(Range(t)) /\ t # <<>> /\ Dash \notin Range(t)
  /\ {Gain, MissInv, gWordLength, minWordRepeateTimes_, MaxStretches} \subseteq Nat \ {0}
  /\ Inv \in [1..Unit -> 1..MissInv]
  /\ \A v, w \in 1..Unit : /\ v <= w => Inv[w] <= Inv[v]
                           /\ w <= v * Gain => Inv[v] <= Inv[w] * Gain
  /\ \A least, width \in 1..gWordLength : InvGain[least][width] \in Nat \ {0}
  /\ \A least, v, w \in 1..gWordLength :
       /\ v <= w => InvGain[least][w] <= InvGain[least][v]
       /\ least <= v /\ 2 * v <= w => InvGain[least][w] * Gain <= InvGain[least][v]
  /\ None \notin Nat

VARIABLES
  kind,      \* the kind of the worker
  text,      \* the stretch in hand, empty when there is none
  clusters,  \* of noConflictWordSeq_ those calcPrediction has not seen
  picked,    \* wordSeqTopSelected_
  dropped,   \* history: the clusters not selected to their end
  multiWord, \* multiWordOfOneArticle_: pairs of words
  uploads,   \* the pairs sent for the last article, None when no list was
  stretches  \* stretches of the article so far

segmenting == <<text, clusters, picked, dropped>>
learning == <<multiWord, uploads, stretches>>
vars == <<dictVars, kind, segmenting, learning>>

Idle == text = <<>> /\ clusters = {} /\ picked = <<>> /\ dropped = {}
Fresh == multiWord = EmptyBag /\ uploads = None /\ stretches = 0

Init ==
  /\ DictInit
  /\ kind \in Kinds
  /\ Idle /\ Fresh

-----------------------------------------------------------------------------
(* Hints *)

WordAt(t, h) == SubSeq(t, h.from, h.to)
Size(h) == h.to - h.from + 1

(* Every run of a text; the multimap has them by their place and, at one   *)
(* place, the shorter first.                                               *)
Runs(t) == {h \in [from : DOMAIN t, to : DOMAIN t] : h.from <= h.to}
Before(g, h) == g.from < h.from \/ (g.from = h.from /\ g.to < h.to)
Foremost(S) == CHOOSE h \in S : \A g \in S : ~Before(g, h)
Hindmost(S) == CHOOSE h \in S : \A g \in S : ~Before(h, g)

(* Faulty variant: single characters are no hints, as in ParrotWord.       *)
RawRankLong(t) ==
  {h \in Runs(t) : Size(h) \in 2..gWordLength /\ Pred(Worker, WordDb, WordAt(t, h)) > 0}
(* getRawRank: the runs of at most gWordLength characters with a weight.   *)
RawRank(t) ==
  {h \in Runs(t) : Size(h) <= gWordLength /\ Pred(Worker, WordDb, WordAt(t, h)) > 0}

Neighbours(S, g, h) == Before(g, h) /\ ~\E f \in S : Before(g, f) /\ Before(f, h)
Gap(g, h) == [from |-> g.to + 1, to |-> h.from - 1]
Gaps(S) ==
  {Gap(q[1], q[2]) : q \in {r \in S \X S : Neighbours(S, r[1], r[2]) /\ r[1].to + 1 < r[2].from}}

(* Faulty variant: the gaps are left out.                                  *)
HintsNoGaps(t) == RawRank(t)
(* getOutRank: what lies between a hint and the next one.  Text before the *)
(* first or behind the last is not looked at.                              *)
Hints(t) == LET seq == RawRank(t) IN seq \cup Gaps(seq)

(* getNoConflictSeq: a hint begins a cluster when all before it have ended,*)
(* and the cluster goes on to the hint before the next such one.           *)
Boundary(S, h) == \A g \in S : Before(g, h) => g.to < h.from
ClusterOf(S, h) ==
  {g \in S : ~Before(g, h) /\ \A f \in S : Boundary(S, f) /\ Before(h, f) => Before(g, f)}
Clusters(t) == LET seq == Hints(t) IN {ClusterOf(seq, h) : h \in {f \in seq : Boundary(seq, f)}}

-----------------------------------------------------------------------------
(* calcPrediction, calcPredictionPhrase *)

(* The graph ends where the last hint of the cluster ends, posLast.        *)
PosLast(c) == Hindmost(c).to

(* The ways from the start to the end.                                     *)
Paths(c) ==
  LET onwards[h \in c] ==
        (IF h.to = PosLast(c) THEN {<<h>>} ELSE {})
          \cup {<<h>> \o p : p \in UNION {onwards[g] : g \in {f \in c : f.from = h.to + 1}}}
  IN UNION {onwards[h] : h \in {f \in c : f.from = Foremost(c).from}}

(* Faulty variant: the length of a word does not count.                    *)
FlatCost(t, h) == IF h \in RawRank(t) THEN Inv[Pred(Worker, WordDb, WordAt(t, h))] ELSE MissInv
(* 1 / adjustWeight(size, weight).                                         *)
WordCost(t, h) ==
  LET words == RawRank(t)
      least == Min({Size(g) : g \in words})
  IN (IF h \in words THEN Inv[Pred(Worker, WordDb, WordAt(t, h))] ELSE MissInv)
       * InvGain[least][Size(h)]

(* 1 / getRangeMin: next to nothing when the phrases are missing or empty, *)
(* and None, infinite, when the least weight was kept as zero.             *)
RareCost ==
  IF ~HasRange(Worker, PhraseDb) THEN 0
  ELSE IF RangeMin(PhraseDb) = 0 THEN None
  ELSE Inv[RangeMin(PhraseDb)]

PhraseCost(t, g, h) ==
  LET pred == Pred(Worker, PhraseDb, WordAt(t, g) \o <<Dash>> \o WordAt(t, h))
  IN IF pred > 0 THEN Inv[pred] ELSE RareCost

(* The edge from a word to the next costs what the word costs, the edge to *)
(* the end nothing and the one from the start what the first word costs;   *)
(* with phrases the edge from the start is free and the others are         *)
(* multiplied by the cost of the phrase.                                   *)
PathCost(t, p) ==
  LET Edge(i) == IF kind = "cn"
                 THEN WordCost(t, p[i]) * (IF i = Len(p) THEN RareCost ELSE PhraseCost(t, p[i], p[i + 1]))
                 ELSE IF i = Len(p) THEN 0 ELSE WordCost(t, p[i])
      upTo[i \in 0..Len(p)] ==
        IF i = 0 THEN (IF kind = "cn" THEN 0 ELSE WordCost(t, p[1])) ELSE upTo[i - 1] + Edge(i)
  IN upTo[Len(p)]

(* dijkstra_shortest_paths: no path when there is none, or when every edge *)
(* to the end is infinite; of several best ones any.                       *)
BestPaths(t, c) ==
  IF kind = "cn" /\ RareCost = None THEN {}
  ELSE {p \in Paths(c) : \A q \in Paths(c) : PathCost(t, p) <= PathCost(t, q)}

(* insert into a multimap.                                                 *)
Insert(seq, h) == InsertAt(seq, Cardinality({k \in DOMAIN seq : seq[k].from <= h.from}) + 1, h)

(* The words of the path are looked up in the cluster again: by name and   *)
(* position, except in ZhiZiWord::calcPrediction, by name alone.           *)
Found(t, c, h) == IF kind = "ja" THEN Foremost({g \in c : WordAt(t, g) = WordAt(t, h)}) ELSE h

(* wordSeqTopSelected_ with the words of a path.                           *)
Selected(seq, t, c, p) ==
  LET upTo[n \in 0..Len(p)] == IF n = 0 THEN seq ELSE Insert(upTo[n - 1], Found(t, c, p[n]))
  IN upTo[Len(p)]

(* History: hints of the cluster end behind the end of its graph.          *)
Ragged(c) == \E h \in c : h.to > PosLast(c)
ClusterSpan(c) == [from |-> Foremost(c).from, to |-> Max({h.to : h \in c})]

-----------------------------------------------------------------------------
(* The worker *)

(* The phoenix worker needs its dictionaries; the dialogue service does not*)
(* look at what loadMaster returns.                                        *)
Ready == pc[Worker] = "loaded" \/ (pc[Worker] = "refused" /\ kind # "phoenix")

(* learn() leaves a single character alone.                                *)
LearnNothing(t) ==
  /\ Ready /\ text = <<>> /\ kind = "phoenix"
  /\ Len(t) < 2 /\ stretches < MaxStretches
  /\ stretches' = stretches + 1
  /\ UNCHANGED <<dictVars, kind, segmenting, multiWord, uploads>>

(* learn() or cut() up to the clusters.                                    *)
Read(t) ==
  /\ Ready /\ text = <<>>
  /\ kind = "phoenix" => Len(t) >= 2
  /\ stretches < MaxStretches
  /\ text' = t
  /\ clusters' = Clusters(t)
  /\ stretches' = IF kind = "phoenix" THEN stretches + 1 ELSE stretches
  /\ UNCHANGED <<dictVars, kind, picked, dropped, multiWord, uploads>>

(* calcPrediction of the next cluster: without a path it selects nothing.  *)
NextCluster == CHOOSE c \in clusters : \A d \in clusters : ~Before(Foremost(d), Foremost(c))
Pick ==
  /\ clusters # {}
  /\ LET c == NextCluster
         best == BestPaths(text, c)
     IN /\ \/ best = {} /\ UNCHANGED picked
           \/ \E p \in best : picked' = Selected(picked, text, c, p)
        /\ dropped' = IF best = {} \/ Ragged(c) THEN dropped \cup {ClusterSpan(c)} ELSE dropped
        /\ clusters' = clusters \ {c}
  /\ UNCHANGED <<dictVars, kind, text, learning>>

Done == text # <<>> /\ clusters = {}
SetDown == text' = <<>> /\ picked' = <<>> /\ dropped' = {} /\ UNCHANGED clusters

(* jointPair: each selected word with the next.                            *)
Pair(i) == <<WordAt(text, picked[i]), WordAt(text, picked[i + 1])>>
JointPair ==
  /\ Done /\ kind = "phoenix"
  /\ LET at2 == 1..Len(picked) - 1
     IN multiWord' = multiWord (+) [w \in {Pair(i) : i \in at2} |-> Cardinality({i \in at2 : Pair(i) = w})]
  /\ SetDown
  /\ UNCHANGED <<dictVars, kind, uploads, stretches>>

(* summaryCut.                                                             *)
Answer ==
  /\ Done /\ kind # "phoenix"
  /\ picked # <<>>
  /\ SetDown
  /\ UNCHANGED <<dictVars, kind, learning>>

(* summaryCut takes the last character off an empty sentence and the first *)
(* hint of an empty sequence: undefined.  The exception of a string too    *)
(* long ends in an empty answer, or the service dies.                      *)
AnswerNothing ==
  /\ Done /\ kind # "phoenix"
  /\ picked = <<>>
  /\ SetDown
  /\ \/ UNCHANGED dictVars
     \/ GoDown(Worker) /\ UNCHANGED <<disk, history>>
  /\ UNCHANGED <<kind, learning>>

(* commitArticle: the pairs repeated often enough; the lists are cut as in *)
(* ParrotWord.  An article all of whose pairs are rare gets no list.       *)
CommitArticle ==
  /\ Ready /\ text = <<>> /\ kind = "phoenix" /\ stretches > 0
  /\ LET often == {w \in DOMAIN multiWord : multiWord[w] >= minWordRepeateTimes_}
     IN uploads' = IF often = {} /\ multiWord # EmptyBag THEN None
                   ELSE [w \in often |-> multiWord[w] \div minWordRepeateTimes_]
  /\ multiWord' = EmptyBag
  /\ stretches' = 0
  /\ UNCHANGED <<dictVars, kind, segmenting>>

(* What a program that ends had in memory is gone.                         *)
Ends(p) ==
  /\ \/ Quit(p) /\ (p = Worker => kind = "phoenix")
     \/ Crash(p)
  /\ UNCHANGED kind
  /\ IF p = Worker
     THEN /\ text' = <<>> /\ clusters' = {} /\ picked' = <<>> /\ dropped' = {}
          /\ multiWord' = EmptyBag /\ uploads' = None /\ stretches' = 0
     ELSE UNCHANGED <<segmenting, learning>>

-----------------------------------------------------------------------------
Next ==
  \/ \E p \in Procs : (Start(p) \/ Load(p)) /\ UNCHANGED <<kind, segmenting, learning>>
  \/ \E d \in DbSet, m \in Masters : Deploy(d, m) /\ UNCHANGED <<kind, segmenting, learning>>
  \/ \E p \in Procs : Ends(p)
  \/ \E t \in Texts : LearnNothing(t) \/ Read(t)
  \/ Pick
  \/ JointPair \/ Answer \/ AnswerNothing
  \/ CommitArticle

Spec == Init /\ [][Next]_vars

-----------------------------------------------------------------------------
(* Properties *)

(* Looked up by name alone, a word that stands twice in the stretch is     *)
(* found where it stands first.                                            *)
Ambiguous(t) ==
  kind = "ja" /\ LET seq == Hints(t) IN \E g, h \in seq : g # h /\ WordAt(t, g) = WordAt(t, h)

(* The selection of a stretch has no overlap and no hole: each selected    *)
(* word begins where the one before it ends, so that the pairs learnt are  *)
(* neighbours, although every cluster is solved for itself.  Text is       *)
(* missing only where a cluster had no path, or ended before its longest   *)
(* hint, and then only within that cluster.                                *)
Tiled ==
  Done /\ ~Ambiguous(text) =>
    \A i \in 1..Len(picked) - 1 :
      LET gap == (picked[i].to + 1)..(picked[i + 1].from - 1)
      IN /\ picked[i].to < picked[i + 1].from
         /\ \A k \in gap : \E s \in dropped : k \in s.from..s.to

(* A word of the dictionary stays in one piece when no other word crosses  *)
(* its ends, the last word within it ends with it, and it weighs no less   *)
(* than the words within it or, if they are at most half as long, no less  *)
(* than what adjustWeight gives for the length (Gain, 4096 in the code).   *)
(* With phrases only while their least weight is known and not zero.       *)
WholeWordStays ==
  Done /\ (kind = "cn" => RareCost \notin {0, None}) =>
    LET words == Hints(text)
        Weight(h) == Pred(Worker, WordDb, WordAt(text, h))
    IN \A h \in words :
         LET near == {g \in words : g.from <= h.to /\ h.from <= g.to}
         IN /\ h \in RawRank(text)
            /\ \A g \in near : h.from <= g.from /\ g.to <= h.to
            /\ \A g \in near : (\A f \in near : f.from <= g.from) => \E f \in near : f.from = g.from /\ f.to = h.to
            /\ \A g \in near : Weight(g) <= Weight(h) * (IF 2 * Size(g) <= Size(h) THEN Gain ELSE 1)
            => h \in Range(picked)

Intact(d) == d \notin interrupted \cup replaced
SurvivesCast(d, k) ==
  k \in DOMAIN master[d] /\ CastWeight(master[d][k], TopRank(master[d])) > 0

(* A stretch each of whose characters is a word of the master that does    *)
(* not round to zero is selected whole, from the first character to the    *)
(* last, by a worker that could load; unless a crash cut the cast short,   *)
(* the master was replaced under it, or a phrase rounded to zero.  A word  *)
(* looked up by name alone may stand in the wrong place, but no character  *)
(* is lost or doubled by that.                                             *)
KnownTextWhole ==
  /\ Done /\ pc[Worker] = "loaded"
  /\ Intact(WordDb) /\ Intact(PhraseDb)
  /\ \A i \in DOMAIN text : SurvivesCast(WordDb, <<text[i]>>)
  /\ kind = "cn" => \A k \in DOMAIN master[PhraseDb] : SurvivesCast(PhraseDb, k)
  => LET cut == FlattenSeq([i \in DOMAIN picked |-> WordAt(text, picked[i])])
         Times(c, t) == Cardinality({i \in DOMAIN t : t[i] = c})
     IN IF Ambiguous(text)
        THEN Len(cut) = Len(text) /\ \A c \in Range(text) : Times(c, cut) = Times(c, text)
        ELSE cut = text
=============================================================================
