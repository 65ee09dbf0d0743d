---------------------------- MODULE OstrichWord -----------------------------
(***************************************************************************)
(* What an ostrich worker makes of one article (tools/ostrich.cpp,         *)
(* ipfs-tools/ostrich.cpp): ctrlclaw.cpp cuts the text into stretches of   *)
(* multi-byte characters, ostrichword.cpp counts every run of two to       *)
(* maxWordLength_ neighbouring characters of a stretch and uploads those   *)
(* repeated often enough.                                                  *)
(*                                                                         *)
(* A character is what parseUTF8 cuts off the text; Stops are those of one *)
(* or two bytes and those of gCtrlMultiByteWord.  A word is a sequence of  *)
(* characters and multiWordOfOneArticle_ a function on the words seen.     *)
(***************************************************************************)
EXTENDS Naturals, Sequences, FiniteSets, Bags, SequencesExt, FiniteSetsExt

CONSTANTS
  Chars,                \* the characters
  Stops,                \* those that end a stretch
  Articles,             \* the texts to learn
  maxWordLength_,       \* 32 in the code
  minWordRepeateTimes_, \* 3 in the code
  ChunkWords,           \* 256 in the code
  Ipfs                  \* the learners: TRUE, the one of ipfs-tools

ASSUME OstrichAssumption ==
  /\ Stops \subseteq Chars
  /\ Articles \subseteq Seq(Chars)
  /\ {maxWordLength_, ChunkWords} \subseteq Nat \ {0, 1}
  /\ minWordRepeateTimes_ \in Nat \ {0}
  /\ Ipfs \subseteq BOOLEAN

VARIABLES
  ipfs,        \* which of the two learners this one is
  pc,          \* "idle", "claw", "learn", "commit", "sent"
  article,     \* the text in hand
  i,           \* characters the loop of claw has passed
  subwords,    \* the characters from startIt to nowIt
  otherFlag, otherWord, \* the stops since the last character that is none
  sentences,   \* sentence_words_, each [word, multi]
  multiWord,   \* multiWordOfOneArticle_
  uploads      \* the word lists sent for the article

vars == <<ipfs, pc, article, i, subwords, otherFlag, otherWord, sentences, multiWord, uploads>>

Sentence(word, multi) == [word |-> word, multi |-> multi]

Init ==
  /\ ipfs \in Ipfs
  /\ pc = "idle"
  /\ article = <<>> /\ i = 0
  /\ subwords = <<>> /\ otherFlag = FALSE /\ otherWord = <<>>
  /\ sentences = <<>>
  /\ multiWord = EmptyBag
  /\ uploads = <<>>

-----------------------------------------------------------------------------
(* CtrlClaw::claw *)

(* A new article: clear() and the locals of claw.                          *)
Begin(text) ==
  /\ pc \in {"idle", "sent"}
  /\ pc' = "claw"
  /\ article' = text /\ i' = 0
  /\ subwords' = <<>> /\ otherFlag' = FALSE /\ otherWord' = <<>>
  /\ sentences' = <<>>
  /\ uploads' = <<>>
  /\ UNCHANGED <<ipfs, multiWord>>

(* A stop ends the stretch before it.                                      *)
ClawStop ==
  /\ pc = "claw" /\ i < Len(article)
  /\ article[i + 1] \in Stops
  /\ sentences' = IF subwords = <<>> THEN sentences
                                     ELSE Append(sentences, Sentence(subwords, TRUE))
  /\ subwords' = <<>>
  /\ otherFlag' = TRUE
  /\ otherWord' = Append(otherWord, article[i + 1])
  /\ i' = i + 1
  /\ UNCHANGED <<ipfs, pc, article, multiWord, uploads>>

(* Faulty variant: the stops of the stretch before are not cleared.        *)
ClawCharKeeps ==
  /\ pc = "claw" /\ i < Len(article)
  /\ article[i + 1] \notin Stops
  /\ subwords' = Append(subwords, article[i + 1])
  /\ sentences' = IF otherFlag THEN Append(sentences, Sentence(otherWord, FALSE)) ELSE sentences
  /\ otherFlag' = FALSE
  /\ i' = i + 1
  /\ UNCHANGED <<ipfs, pc, article, otherWord, multiWord, uploads>>
(* Another character; the stops before it are one piece of their own.      *)
ClawChar ==
  /\ pc = "claw" /\ i < Len(article)
  /\ article[i + 1] \notin Stops
  /\ subwords' = Append(subwords, article[i + 1])
  /\ sentences' = IF otherFlag THEN Append(sentences, Sentence(otherWord, FALSE)) ELSE sentences
  /\ otherWord' = IF otherFlag THEN <<>> ELSE otherWord
  /\ otherFlag' = FALSE
  /\ i' = i + 1
  /\ UNCHANGED <<ipfs, pc, article, multiWord, uploads>>

(* Behind the loop: the last stretch or the last stops.                    *)
ClawEnd ==
  /\ pc = "claw" /\ i = Len(article)
  /\ sentences' = sentences
       \o (IF subwords = <<>> THEN <<>> ELSE <<Sentence(subwords, TRUE)>>)
       \o (IF otherWord = <<>> THEN <<>> ELSE <<Sentence(otherWord, FALSE)>>)
  /\ pc' = "learn"
  /\ i' = 0
  /\ subwords' = <<>> /\ otherFlag' = FALSE /\ otherWord' = <<>>
  /\ UNCHANGED <<ipfs, article, multiWord, uploads>>

-----------------------------------------------------------------------------
(* OstrichWord::learn *)

(* The characters of preWords from the k-th on and c in one word.          *)
Joint(preWords, k, c) == SubSeq(preWords, k, Len(preWords)) \o <<c>>

(* pushMultiWord for every joint word that ends in character c; the list   *)
(* preWords holds the maxWordLength_ - 1 characters before it.             *)
JoinTo(acc, c) ==
  LET joint == {Joint(acc.preWords, k, c) : k \in DOMAIN acc.preWords}
      longer == Append(acc.preWords, c)
  IN [preWords |-> IF Len(longer) > maxWordLength_ - 1 THEN Tail(longer) ELSE longer,
      words |-> acc.words (+) SetToBag(joint)]

Learnt(words, chars) ==
  LET upTo[n \in 0..Len(chars)] ==
        IF n = 0 THEN [preWords |-> <<>>, words |-> words] ELSE JoinTo(upTo[n - 1], chars[n])
  IN upTo[Len(chars)].words

(* eachMultiByte hands the next stretch to learn(), which leaves one of a  *)
(* single character alone.                                                 *)
Learn ==
  /\ pc = "learn" /\ i < Len(sentences)
  /\ i' = i + 1
  /\ LET s == sentences[i + 1]
     IN multiWord' = IF s.multi /\ Len(s.word) >= 2 THEN Learnt(multiWord, s.word)
                                                   ELSE multiWord
  /\ UNCHANGED <<ipfs, pc, article, subwords, otherFlag, otherWord, sentences, uploads>>

LearnEnd ==
  /\ pc = "learn" /\ i = Len(sentences)
  /\ pc' = "commit"
  /\ UNCHANGED <<ipfs, article, i, subwords, otherFlag, otherWord, sentences, multiWord, uploads>>

-----------------------------------------------------------------------------
(* OstrichWord::commitArticle, commitArticleIpfs *)

Within(w, v) == \E k \in 0..Len(v) - Len(w) : SubSeq(v, k + 1, k + Len(w)) = w

(* The words with one count, as localMultiWordRank holds them.             *)
OfCount(n) == {w \in DOMAIN multiWord : multiWord[w] = n}
Counts == {n \in Range(multiWord) : n >= minWordRepeateTimes_}

(* Faulty variant: words of all counts are compared.                       *)
IsShortAnywhere(w) == \E v \in DOMAIN multiWord : v # w /\ Within(w, v)
(* isShort: a longer word of the same count contains it.                   *)
IsShort(w) == \E v \in OfCount(multiWord[w]) : v # w /\ Within(w, v)

(* Faulty variant: the word is counted after the look.                     *)
PutEntryLate(acc, entry) ==
  LET open == Append(acc.open, entry)
      iCounter == acc.iCounter + (IF ipfs THEN 0 ELSE 1)
      full == acc.iCounter % ChunkWords = 0
  IN [out |-> IF full THEN Append(acc.out, open) ELSE acc.out,
      open |-> IF full THEN <<>> ELSE open,
      iCounter |-> iCounter]
(* The counter of the chunks starts at one and counts the word before it   *)
(* is looked at; pickupWordRankingJson never counts.                       *)
PutEntry(acc, entry) ==
  LET open == Append(acc.open, entry)
      iCounter == acc.iCounter + (IF ipfs THEN 0 ELSE 1)
      full == iCounter % ChunkWords = 0
  IN [out |-> IF full THEN Append(acc.out, open) ELSE acc.out,
      open |-> IF full THEN <<>> ELSE open,
      iCounter |-> iCounter]

(* The words with their weights, the rarest first; words of one count in   *)
(* the order of the map, whatever that is.                                 *)
Entries(n) ==
  LET words == SetToSeq({w \in OfCount(n) : ~IsShort(w)})
  IN [k \in DOMAIN words |-> <<words[k], n \div minWordRepeateTimes_>>]
Ranking ==
  LET rarestFirst[S \in SUBSET Counts] ==
        IF S = {} THEN <<>> ELSE Entries(Min(S)) \o rarestFirst[S \ {Min(S)}]
  IN rarestFirst[Counts]

(* The lists after the entries of a ranking, and the one still open.       *)
Chunks(ranking) ==
  LET upTo[n \in 0..Len(ranking)] ==
        IF n = 0 THEN [out |-> <<>>, open |-> <<>>, iCounter |-> 1]
        ELSE PutEntry(upTo[n - 1], ranking[n])
  IN upTo[Len(ranking)]

(* pickupWordRanking: an empty ranking is one empty list; for ipfs it is   *)
(* none.                                                                   *)
PickupWordRanking ==
  LET chunks == Chunks(Ranking)
  IN chunks.out
       \o (IF chunks.open = <<>> THEN <<>> ELSE <<chunks.open>>)
       \o (IF Counts = {} /\ ~ipfs THEN << <<>> >> ELSE <<>>)

(* Faulty variant: the counts live on into the next article.               *)
CommitKeeps ==
  /\ pc = "commit"
  /\ pc' = "sent"
  /\ uploads' = PickupWordRanking
  /\ UNCHANGED <<ipfs, article, i, subwords, otherFlag, otherWord, sentences, multiWord>>
Commit ==
  /\ pc = "commit"
  /\ pc' = "sent"
  /\ uploads' = PickupWordRanking
  /\ multiWord' = EmptyBag
  /\ UNCHANGED <<ipfs, article, i, subwords, otherFlag, otherWord, sentences>>

-----------------------------------------------------------------------------
Next ==
  \/ \E text \in Articles : Begin(text)
  \/ ClawStop \/ ClawChar \/ ClawEnd
  \/ Learn \/ LearnEnd
  \/ Commit

Spec == Init /\ [][Next]_vars

-----------------------------------------------------------------------------
(* Properties *)

(* claw() loses, doubles and reorders nothing although it emits stretches  *)
(* and stops at different places of its loop: the pieces, in order, spell  *)
(* the article, and stretches and stops take turns.                        *)
PiecesSpell ==
  /\ FlattenSeq([k \in DOMAIN sentences |-> sentences[k].word]) \o otherWord \o subwords
       = IF pc = "claw" THEN SubSeq(article, 1, i) ELSE article
  /\ \A k \in DOMAIN sentences :
       /\ sentences[k].word # <<>>
       /\ Range(sentences[k].word) \subseteq (IF sentences[k].multi THEN Chars \ Stops ELSE Stops)
       /\ k > 1 => sentences[k].multi # sentences[k - 1].multi

(* Where a word stands in a text.                                          *)
Places(text, w) == {k \in 0..Len(text) - Len(w) : SubSeq(text, k + 1, k + Len(w)) = w}

(* The run from the k-th character to the l-th.                            *)
Run(text, k, l) == SubSeq(text, k, l)

(* The runs a text has, told from the text alone: two to maxWordLength_    *)
(* neighbours, no stop among them.                                         *)
RunsOf(text) ==
  {w \in {Run(text, k, l) : k \in DOMAIN text, l \in DOMAIN text} :
     Len(w) \in 2..maxWordLength_ /\ Range(w) \cap Stops = {}}

(* learn() over all stretches counts every run of the article exactly as   *)
(* often as it stands there, and nothing of an earlier article; that is    *)
(* what the one-pass list preWords has to amount to.                       *)
CountsExact ==
  pc = "commit" =>
    multiWord = [w \in RunsOf(article) |-> Cardinality(Places(article, w))]

Sent == FlattenSeq(uploads)
Repeated(text) ==
  {w \in RunsOf(text) : Cardinality(Places(text, w)) >= minWordRepeateTimes_}

(* The uploads of an article name exactly the repeated runs that no longer *)
(* one of the same count contains, each once, with its count over the      *)
(* threshold, in lists of fewer than ChunkWords words at first and at most *)
(* ChunkWords later; and a worker of the service always sends at least one *)
(* list, without which the article would never be marked done.             *)
RankingExact ==
  pc = "sent" =>
    LET Count(w) == Cardinality(Places(article, w))
    IN /\ Len(Sent) = Cardinality(Range(Sent))
       /\ Range(Sent) =
            {<<w, Count(w) \div minWordRepeateTimes_>> :
               w \in {v \in Repeated(article) :
                        \A x \in Repeated(article) \ {v} :
                          Count(x) = Count(v) => ~Within(v, x)}}
       /\ ~ipfs => \A k \in DOMAIN uploads : Len(uploads[k]) < ChunkWords + (IF k = 1 THEN 0 ELSE 1)
       /\ ipfs => Len(uploads) <= 1
       /\ ipfs \/ uploads # <<>>

(* Dropping the words that a longer one of the same count contains loses   *)
(* nothing: each repeated run stands within one that is sent with the same *)
(* weight.                                                                 *)
NothingRepeatedIsLost ==
  pc = "sent" =>
    \A w \in Repeated(article) : \E e \in Range(Sent) :
      /\ w = e[1] \/ Within(w, e[1])
      /\ e[2] = Cardinality(Places(article, w)) \div minWordRepeateTimes_
=============================================================================
