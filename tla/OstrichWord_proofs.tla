------------------------ MODULE OstrichWord_proofs -------------------------
(***************************************************************************)
(* Proofs about OstrichWord, for any characters, stops and articles: the   *)
(* cutting spells the article, the learning counts its runs, and the word  *)
(* lists name the repeated ones.                                           *)
(***************************************************************************)
EXTENDS OstrichWord, SequenceTheorems, FiniteSetTheorems, WellFoundedInduction, TLAPS

-----------------------------------------------------------------------------
(* Induction *)

(* A set of natural numbers that is not empty has a least element.         *)
LEMMA LeastNatural ==
  ASSUME NEW T, T \subseteq Nat, T # {}
  PROVE  \E n \in T : \A m \in T : n <= m
<1> DEFINE R == OpToRel(<, Nat)
<1>1. IsWellFoundedOn(R, Nat)
  BY NatLessThanWellFounded
<1>2. PICK n \in T : \A m \in T : ~ (<<m, n>> \in R)
  <2> HIDE DEF R
  <2> QED BY <1>1, WFMin
<1>3. ASSUME NEW m \in T PROVE n <= m
  <2>1. n \in Nat /\ m \in Nat
    OBVIOUS
  <2>2. ~ (<<m, n>> \in R)
    BY <1>2
  <2>3. ~ (m < n)
    BY <2>1, <2>2 DEF OpToRel
  <2> QED BY <2>1, <2>3
<1> QED BY <1>2, <1>3

(* Induction over the natural numbers, for a property given as a set.      *)
LEMMA InductionFromZero ==
  ASSUME NEW P, 0 \in P, \A n \in Nat : n \in P => n + 1 \in P
  PROVE  \A n \in Nat : n \in P
<1> DEFINE T == Nat \ P
<1> SUFFICES ASSUME T # {} PROVE FALSE
  OBVIOUS
<1>1. PICK n \in T : \A m \in T : n <= m
  <2>1. T \subseteq Nat
    OBVIOUS
  <2> HIDE DEF T
  <2> QED BY <2>1, LeastNatural
<1>2. n # 0 /\ n \in Nat /\ n \notin P
  OBVIOUS
<1>3. n - 1 \in Nat /\ (n - 1) + 1 = n /\ ~ (n <= n - 1)
  BY <1>2
<1>4. n - 1 \in P
  BY <1>1, <1>3
<1> QED BY <1>2, <1>3, <1>4

(* The same from 1.                                                        *)
LEMMA Induction ==
  ASSUME NEW P, 1 \in P, \A n \in Nat \ {0} : n \in P => n + 1 \in P
  PROVE  \A n \in Nat \ {0} : n \in P
<1> DEFINE Q == P \cup {0}
<1>1. 0 \in Q
  OBVIOUS
<1>2. ASSUME NEW n \in Nat, n \in Q PROVE n + 1 \in Q
  <2>1. n = 0 \/ n \in Nat \ {0}
    OBVIOUS
  <2> QED BY <1>2, <2>1
<1>3. \A n \in Nat : n \in Q
  <2> HIDE DEF Q
  <2> QED BY <1>1, <1>2, InductionFromZero
<1> QED BY <1>3

-----------------------------------------------------------------------------
(* What FlattenSeq makes of a sequence of sequences *)

(* What the function in FlattenSeq(q) says of its first n places.          *)
Flattened(q, u, k) == IF k = 1 THEN q[k] ELSE u[k - 1] \o q[k]
IsFlat(q, u, n) == \A k \in 1..n : u[k] = Flattened(q, u, k)

(* There is one.                                                           *)
LEMMA FlatExists ==
  ASSUME NEW S, NEW q \in Seq(Seq(S)), NEW n \in Nat \ {0}, n <= Len(q)
  PROVE  \E u \in [1..n -> Seq(S)] : IsFlat(q, u, n)
<1> DEFINE P == {m \in Nat \ {0} : m <= Len(q) => \E u \in [1..m -> Seq(S)] : IsFlat(q, u, m)}
<1>1. 1 \in P
  <2> SUFFICES ASSUME 1 <= Len(q) PROVE \E u \in [1..1 -> Seq(S)] : IsFlat(q, u, 1)
    OBVIOUS
  <2>1. PICK u : u = [k \in 1..1 |-> q[1]]
    OBVIOUS
  <2>2. q[1] \in Seq(S)
    BY ElementOfSeq
  <2> QED BY <2>1, <2>2 DEF IsFlat, Flattened
<1>2. ASSUME NEW m \in Nat \ {0}, m \in P PROVE m + 1 \in P
  <2> SUFFICES ASSUME m + 1 <= Len(q) PROVE \E v \in [1..m + 1 -> Seq(S)] : IsFlat(q, v, m + 1)
    OBVIOUS
  <2>1. Len(q) \in Nat
    BY LenProperties
  <2>2. PICK u \in [1..m -> Seq(S)] : IsFlat(q, u, m)
    BY <1>2, <2>1
  <2>3. PICK e : e = u[m] \o q[m + 1]
    OBVIOUS
  <2>4. e \in Seq(S)
    <3>1. m \in 1..m /\ m + 1 \in 1..Len(q)
      BY <2>1
    <3>2. u[m] \in Seq(S) /\ q[m + 1] \in Seq(S)
      BY <3>1, ElementOfSeq
    <3> QED BY <2>3, <3>2, ConcatProperties
  <2>5. PICK v : v = [k \in 1..m + 1 |-> IF k = m + 1 THEN e ELSE u[k]]
    OBVIOUS
  <2>6. v \in [1..m + 1 -> Seq(S)]
    BY <2>4, <2>5
  <2>7. ASSUME NEW k \in 1..m + 1 PROVE v[k] = Flattened(q, v, k)
    <3>1. CASE k = m + 1
      <4>1. k # 1 /\ k - 1 = m /\ m \in 1..m + 1 /\ m # m + 1
        BY <3>1
      <4>2. v[m] = u[m] /\ v[k] = e
        BY <2>5, <3>1, <4>1
      <4> QED BY <2>3, <3>1, <4>1, <4>2 DEF Flattened
    <3>2. CASE k # m + 1
      <4>1. k \in 1..m /\ v[k] = u[k] /\ u[k] = Flattened(q, u, k)
        BY <2>2, <2>5, <3>2 DEF IsFlat
      <4>2. k # 1 => k - 1 \in 1..m + 1 /\ k - 1 # m + 1 /\ v[k - 1] = u[k - 1]
        BY <2>5, <4>1
      <4> QED BY <4>1, <4>2 DEF Flattened
    <3> QED BY <3>1, <3>2
  <2> QED BY <2>6, <2>7 DEF IsFlat
<1>3. \A m \in Nat \ {0} : m \in P
  <2> HIDE DEF P
  <2> QED BY <1>1, <1>2, Induction
<1> QED BY <1>3

Agree(u, v, n) == \A k \in 1..n : u[k] = v[k]

(* Two of them agree, whatever follows in the sequences they are made of.  *)
LEMMA FlatUnique ==
  ASSUME NEW q, NEW r, NEW u, NEW v, NEW n \in Nat,
         Agree(q, r, n), IsFlat(q, u, n), IsFlat(r, v, n)
  PROVE  Agree(u, v, n)
<1> DEFINE P == {m \in Nat \ {0} : m <= n => u[m] = v[m]}
<1>1. 1 \in P
  BY DEF Agree, IsFlat, Flattened
<1>2. ASSUME NEW m \in Nat \ {0}, m \in P PROVE m + 1 \in P
  <2> SUFFICES ASSUME m + 1 <= n PROVE u[m + 1] = v[m + 1]
    OBVIOUS
  <2>1. m + 1 \in 1..n /\ m + 1 # 1 /\ (m + 1) - 1 = m
    OBVIOUS
  <2>2. u[m] = v[m] /\ q[m + 1] = r[m + 1]
    BY <1>2, <2>1 DEF Agree
  <2>3. u[m + 1] = Flattened(q, u, m + 1) /\ v[m + 1] = Flattened(r, v, m + 1)
    BY <2>1 DEF IsFlat
  <2>4. u[m + 1] = u[m] \o q[m + 1] /\ v[m + 1] = v[m] \o r[m + 1]
    BY <2>1, <2>3 DEF Flattened
  <2> QED BY <2>1, <2>2, <2>4
<1>3. \A m \in Nat \ {0} : m \in P
  <2> HIDE DEF P
  <2> QED BY <1>1, <1>2, Induction
<1> QED BY <1>3 DEF Agree

(* FlattenSeq returns its last value.                                      *)
LEMMA FlatIs ==
  ASSUME NEW S, NEW q \in Seq(Seq(S)), q # <<>>
  PROVE  \E u \in [1..Len(q) -> Seq(S)] : IsFlat(q, u, Len(q)) /\ FlattenSeq(q) = u[Len(q)]
<1>1. Len(q) \in Nat \ {0}
  BY EmptySeq
<1>2. PICK u \in [1..Len(q) -> Seq(S)] : IsFlat(q, u, Len(q))
  BY <1>1, FlatExists, SMTT(60)
<1> DEFINE Body(w) == [k \in 1..Len(q) |-> IF k = 1 THEN q[k] ELSE w[k - 1] \o q[k]]
           v == CHOOSE w : w = Body(w)
<1>3. u = Body(u)
  BY <1>2 DEF IsFlat, Flattened
<1>4. v = Body(v)
  BY <1>3
<1>5. IsFlat(q, v, Len(q))
  <2>1. ASSUME NEW k \in 1..Len(q) PROVE v[k] = Flattened(q, v, k)
    <3> DEFINE b == Body(v)
    <3>1. b[k] = Flattened(q, v, k)
      BY DEF Flattened
    <3> HIDE DEF v
    <3> QED BY <1>4, <3>1
  <2> QED BY <2>1 DEF IsFlat
<1>6. FlattenSeq(q) = v[Len(q)]
  BY <1>1 DEF FlattenSeq
<1>7. u[Len(q)] = v[Len(q)]
  <2> HIDE DEF v
  <2>1. Len(q) \in 1..Len(q)
    BY <1>1
  <2>2. Agree(q, q, Len(q)) /\ Len(q) \in Nat
    BY <1>1 DEF Agree
  <2>3. Agree(u, v, Len(q))
    BY <1>2, <1>5, <2>2, FlatUnique
  <2> QED BY <2>1, <2>3 DEF Agree
<1> QED BY <1>2, <1>6, <1>7

LEMMA FlattenEmpty == FlattenSeq(<<>>) = <<>>
BY DEF FlattenSeq

LEMMA FlattenType ==
  ASSUME NEW S, NEW q \in Seq(Seq(S))
  PROVE  FlattenSeq(q) \in Seq(S)
<1>1. CASE q = <<>>
  BY <1>1, FlattenEmpty, EmptySeq
<1>2. CASE q # <<>>
  <2>1. Len(q) \in 1..Len(q)
    BY <1>2, EmptySeq
  <2>2. PICK u \in [1..Len(q) -> Seq(S)] : FlattenSeq(q) = u[Len(q)]
    BY ONLY q \in Seq(Seq(S)), <1>2, FlatIs
  <2> QED BY ONLY <2>1, <2>2
<1> QED BY <1>1, <1>2

(* One more sequence comes at the end.                                     *)
LEMMA FlattenAppend ==
  ASSUME NEW S, NEW q \in Seq(Seq(S)), NEW e \in Seq(S)
  PROVE  FlattenSeq(Append(q, e)) = FlattenSeq(q) \o e
<1>1. PICK t : t = Append(q, e)
  OBVIOUS
<1>2. /\ t \in Seq(Seq(S)) /\ t # <<>> /\ Len(t) = Len(q) + 1 /\ Len(q) \in Nat
      /\ \A k \in 1..Len(q) : t[k] = q[k]
      /\ t[Len(q) + 1] = e
  BY <1>1, AppendProperties, LenProperties
<1>3. PICK v \in [1..Len(t) -> Seq(S)] : IsFlat(t, v, Len(t)) /\ FlattenSeq(t) = v[Len(t)]
  BY <1>2, FlatIs
<1>4. v[Len(t)] = Flattened(t, v, Len(q) + 1)
  BY <1>2, <1>3 DEF IsFlat
<1>5. CASE q = <<>>
  <2>1. Len(q) + 1 = 1
    BY <1>5
  <2>2. FlattenSeq(t) = e
    BY <1>2, <1>3, <1>4, <2>1 DEF Flattened
  <2> QED BY <1>1, <1>5, <2>2, FlattenEmpty, ConcatEmptySeq
<1>6. CASE q # <<>>
  <2>1. PICK u \in [1..Len(q) -> Seq(S)] : IsFlat(q, u, Len(q)) /\ FlattenSeq(q) = u[Len(q)]
    BY <1>6, FlatIs
  <2>2. Len(q) # 0 /\ Len(q) \in 1..Len(q) /\ (Len(q) + 1) - 1 = Len(q) /\ Len(q) + 1 # 1
    BY <1>2, <1>6, EmptySeq
  <2>3. IsFlat(t, v, Len(q))
    BY <1>2, <1>3 DEF IsFlat
  <2>4. u[Len(q)] = v[Len(q)]
    <3>1. Agree(q, t, Len(q))
      BY <1>2 DEF Agree
    <3>2. IsFlat(q, u, Len(q)) /\ Len(q) \in Nat
      BY <1>2, <2>1
    <3>3. Agree(u, v, Len(q))
      BY <2>3, <3>1, <3>2, FlatUnique
    <3> QED BY <2>2, <3>3 DEF Agree
  <2>5. v[Len(t)] = v[Len(q)] \o e
    BY <1>2, <1>4, <2>2 DEF Flattened
  <2> QED BY <1>1, <1>3, <2>1, <2>4, <2>5
<1> QED BY <1>5, <1>6

-----------------------------------------------------------------------------
(* The inductive invariant *)

(* What claw may put into sentence_words_.                                 *)
Stretches == {Sentence(w, TRUE) : w \in Seq(Chars \ Stops) \ {<<>>}}
Others == {Sentence(w, FALSE) : w \in Seq(Stops) \ {<<>>}}
Pieces == Stretches \cup Others

(* The part of the state the cutting works on, and its types.              *)
Typed ==
  /\ pc \in {"idle", "claw", "learn", "commit", "sent"}
  /\ article \in Seq(Chars) /\ i \in Nat
  /\ subwords \in Seq(Chars \ Stops)
  /\ otherFlag \in BOOLEAN /\ otherWord \in Seq(Stops)
  /\ sentences \in Seq(Pieces)

(* What waits behind the pieces is a stretch or stops, never both; the     *)
(* last piece is of the other sort, and only before the first character    *)
(* does nothing wait.                                                      *)
Waiting ==
  /\ pc = "claw" => i <= Len(article)
  /\ pc # "claw" => subwords = <<>> /\ otherWord = <<>>
  /\ otherFlag <=> otherWord # <<>>
  /\ otherFlag => subwords = <<>>
  /\ pc = "claw" /\ sentences # <<>> => sentences[Len(sentences)].multi = otherFlag
  /\ pc = "claw" /\ subwords = <<>> /\ ~ otherFlag => sentences = <<>>

WordsOf(s) == [k \in DOMAIN s |-> s[k].word]
Seen == IF pc = "claw" THEN SubSeq(article, 1, i) ELSE article

Spelt == FlattenSeq(WordsOf(sentences)) \o otherWord \o subwords = Seen
TakeTurns(s) == \A k \in DOMAIN s : k > 1 => s[k].multi # s[k - 1].multi

IInv == Typed /\ Waiting /\ Spelt /\ TakeTurns(sentences)

-----------------------------------------------------------------------------
(* Lemmas on sequences, free of the state *)

LEMMA AppendRight ==
  ASSUME NEW S, NEW s \in Seq(S), NEW t \in Seq(S), NEW e \in S
  PROVE  s \o Append(t, e) = Append(s \o t, e)
<1>1. <<e>> \in Seq(S) /\ s \o t \in Seq(S)
  BY ConcatProperties
<1>2. s \o Append(t, e) = s \o (t \o <<e>>)
  BY AppendIsConcat
<1>3. s \o (t \o <<e>>) = (s \o t) \o <<e>>
  BY <1>1, ConcatAssociative
<1>4. Append(s \o t, e) = (s \o t) \o <<e>>
  BY <1>1, AppendIsConcat
<1> QED BY <1>2, <1>3, <1>4

(* The text up to the next character.                                      *)
LEMMA OneMore ==
  ASSUME NEW S, NEW s \in Seq(S), NEW n \in Nat, n < Len(s)
  PROVE  SubSeq(s, 1, n + 1) = Append(SubSeq(s, 1, n), s[n + 1])
<1>1. Len(s) \in Nat /\ n + 1 \in 1..Len(s) /\ 1 \in 1..Len(s) /\ (n + 1) - 1 = n
  BY LenProperties
<1>2. SubSeq(s, 1, n + 1) = SubSeq(s, 1, n) \o <<s[n + 1]>>
  BY <1>1, SubSeqRecursiveSecond
<1>3. s[n + 1] \in S
  BY <1>1, ElementOfSeq
<1>4. SubSeq(s, 1, n) \in Seq(S)
  BY <1>1, SubSeqProperties, ElementOfSeq
<1> QED BY <1>2, <1>3, <1>4, AppendIsConcat

LEMMA PieceShape ==
  ASSUME NEW p \in Pieces
  PROVE  /\ p.word \in Seq(Chars) /\ p.word # <<>> /\ p.multi \in BOOLEAN
         /\ p.multi => p.word \in Seq(Chars \ Stops)
         /\ ~ p.multi => p.word \in Seq(Stops)
<1>1. CASE p \in Stretches
  <2>1. PICK w \in Seq(Chars \ Stops) \ {<<>>} : p = Sentence(w, TRUE)
    BY <1>1 DEF Stretches
  <2>2. w \in Seq(Chars)
    BY SeqMonotonic
  <2> QED BY <2>1, <2>2 DEF Sentence
<1>2. CASE p \in Others
  <2>1. Stops \subseteq Chars
    BY OstrichAssumption
  <2>2. PICK w \in Seq(Stops) \ {<<>>} : p = Sentence(w, FALSE)
    BY <1>2 DEF Others
  <2>3. w \in Seq(Chars)
    BY <2>1, SeqMonotonic
  <2> QED BY <2>2, <2>3 DEF Sentence
<1> QED BY <1>1, <1>2 DEF Pieces

LEMMA WordsType ==
  ASSUME NEW s \in Seq(Pieces)
  PROVE  /\ WordsOf(s) \in Seq(Seq(Chars))
         /\ FlattenSeq(WordsOf(s)) \in Seq(Chars)
<1>1. Len(s) \in Nat /\ DOMAIN s = 1..Len(s)
  BY LenProperties
<1>2. \A k \in 1..Len(s) : s[k].word \in Seq(Chars)
  BY ElementOfSeq, PieceShape
<1>3. WordsOf(s) \in Seq(Seq(Chars))
  BY <1>1, <1>2 DEF WordsOf
<1> QED BY <1>3, FlattenType

(* One more piece.                                                         *)
LEMMA WordsAppend ==
  ASSUME NEW s \in Seq(Pieces), NEW p \in Pieces
  PROVE  FlattenSeq(WordsOf(Append(s, p))) = FlattenSeq(WordsOf(s)) \o p.word
<1>1. PICK t : t = Append(s, p)
  OBVIOUS
<1>2. /\ t \in Seq(Pieces) /\ Len(t) = Len(s) + 1 /\ Len(s) \in Nat
      /\ \A k \in 1..Len(s) : t[k] = s[k]
      /\ t[Len(s) + 1] = p
  BY <1>1, AppendProperties, LenProperties
<1>3. WordsOf(s) \in Seq(Seq(Chars)) /\ WordsOf(t) \in Seq(Seq(Chars)) /\ p.word \in Seq(Chars)
  BY <1>2, WordsType, PieceShape
<1>4. Len(WordsOf(s)) = Len(s) /\ Len(WordsOf(t)) = Len(s) + 1
  BY <1>2 DEF WordsOf
<1>5. \A k \in 1..Len(s) : WordsOf(t)[k] = WordsOf(s)[k]
  BY <1>2 DEF WordsOf
<1>6. WordsOf(t)[Len(s) + 1] = p.word
  BY <1>2 DEF WordsOf
<1>7. WordsOf(t) = Append(WordsOf(s), p.word)
  <2>1. PICK r : r = Append(WordsOf(s), p.word)
    OBVIOUS
  <2>2. /\ r \in Seq(Seq(Chars)) /\ Len(r) = Len(s) + 1
        /\ \A k \in 1..Len(s) : r[k] = WordsOf(s)[k]
        /\ r[Len(s) + 1] = p.word
    BY <1>3, <1>4, <2>1, AppendProperties
  <2>3. \A k \in 1..Len(r) : WordsOf(t)[k] = r[k]
    <3> SUFFICES ASSUME NEW k \in 1..Len(r) PROVE WordsOf(t)[k] = r[k]
      OBVIOUS
    <3>1. k \in 1..Len(s) \/ k = Len(s) + 1
      BY <1>2, <2>2
    <3> QED BY <1>5, <1>6, <2>2, <3>1
  <2>4. Len(WordsOf(t)) = Len(r)
    BY <1>4, <2>2
  <2>5. WordsOf(t) = r
    BY <1>3, <2>2, <2>3, <2>4, SeqEqual
  <2> QED BY <2>1, <2>5
<1>8. FlattenSeq(WordsOf(t)) = FlattenSeq(WordsOf(s)) \o p.word
  BY <1>3, <1>7, FlattenAppend
<1> QED BY <1>1, <1>8

LEMMA PieceAppend ==
  ASSUME NEW s \in Seq(Pieces), NEW p \in Pieces
  PROVE  /\ Append(s, p) \in Seq(Pieces) /\ Append(s, p) # <<>>
         /\ Append(s, p)[Len(Append(s, p))] = p
<1>1. PICK t : t = Append(s, p)
  OBVIOUS
<1>2. t \in Seq(Pieces) /\ t # <<>> /\ Len(t) = Len(s) + 1 /\ t[Len(s) + 1] = p
  BY <1>1, AppendProperties
<1> QED BY <1>1, <1>2

(* A piece of the other sort than the last one.                            *)
LEMMA TurnAppend ==
  ASSUME NEW s \in Seq(Pieces), NEW p \in Pieces, TakeTurns(s),
         s # <<>> => s[Len(s)].multi # p.multi
  PROVE  TakeTurns(Append(s, p))
<1>1. PICK t : t = Append(s, p)
  OBVIOUS
<1>2. /\ t \in Seq(Pieces) /\ Len(t) = Len(s) + 1 /\ Len(s) \in Nat
      /\ \A k \in 1..Len(s) : t[k] = s[k]
      /\ t[Len(s) + 1] = p
      /\ DOMAIN t = 1..Len(t) /\ DOMAIN s = 1..Len(s)
  BY <1>1, AppendProperties, LenProperties
<1>3. ASSUME NEW k \in 1..Len(t), k > 1 PROVE t[k].multi # t[k - 1].multi
  <2>1. CASE k = Len(s) + 1
    <3>1. k - 1 = Len(s) /\ Len(s) \in 1..Len(s) /\ s # <<>>
      BY <1>2, <1>3, <2>1
    <3>2. t[k] = p /\ t[k - 1] = s[Len(s)]
      BY <1>2, <2>1, <3>1
    <3> QED BY <3>1, <3>2
  <2>2. CASE k # Len(s) + 1
    <3>1. k \in 1..Len(s) /\ k - 1 \in 1..Len(s)
      BY <1>2, <1>3, <2>2
    <3>2. t[k] = s[k] /\ t[k - 1] = s[k - 1]
      BY <1>2, <3>1
    <3> QED BY <1>2, <1>3, <3>1, <3>2 DEF TakeTurns
  <2> QED BY <2>1, <2>2
<1> QED BY <1>1, <1>2, <1>3 DEF TakeTurns

-----------------------------------------------------------------------------
(* The steps *)

LEMMA InitCut == Init => IInv
<1> SUFFICES ASSUME Init PROVE IInv
  OBVIOUS
<1>1. Typed /\ Waiting
  BY EmptySeq DEF Init, Typed, Waiting
<1>2. WordsOf(sentences) = <<>>
  BY DEF Init, WordsOf
<1>3. Spelt
  BY <1>2, FlattenEmpty, ConcatEmptySeq, EmptySeq DEF Init, Spelt, Seen
<1>4. TakeTurns(sentences)
  BY DEF Init, TakeTurns
<1> QED BY <1>1, <1>3, <1>4 DEF IInv

LEMMA BeginCut ==
  ASSUME NEW text \in Articles, Begin(text) PROVE IInv'
<1>1. text \in Seq(Chars) /\ Len(text) \in Nat
  BY OstrichAssumption, LenProperties
<1>2. Typed'
  BY <1>1, EmptySeq DEF Begin, Typed
<1>3. Waiting'
  BY <1>1 DEF Begin, Waiting
<1>4. WordsOf(sentences') = <<>> /\ SubSeq(text, 1, 0) = <<>>
  BY SubSeqEmpty DEF Begin, WordsOf
<1>5. Seen' = <<>>
  BY <1>4 DEF Begin, Seen
<1>6. Spelt'
  BY <1>4, <1>5, FlattenEmpty, ConcatEmptySeq, EmptySeq DEF Begin, Spelt
<1>7. TakeTurns(sentences')
  BY DEF Begin, TakeTurns
<1> QED BY <1>2, <1>3, <1>6, <1>7 DEF IInv

(* A stretch that waits, and what is spelt once it is a piece.             *)
LEMMA PieceOf ==
  ASSUME Typed
  PROVE  /\ subwords # <<>> => Sentence(subwords, TRUE) \in Pieces
         /\ otherWord # <<>> => Sentence(otherWord, FALSE) \in Pieces
         /\ subwords \in Seq(Chars) /\ otherWord \in Seq(Chars)
<1>1. Stops \subseteq Chars
  BY OstrichAssumption
<1>2. subwords \in Seq(Chars) /\ otherWord \in Seq(Chars)
  BY <1>1, SeqMonotonic DEF Typed
<1> QED BY <1>2 DEF Typed, Pieces, Stretches, Others

LEMMA StopCut ==
  ASSUME IInv, ClawStop PROVE IInv'
<1> DEFINE c == article[i + 1]
           f == FlattenSeq(WordsOf(sentences))
           p == Sentence(subwords, TRUE)
<1>1. Typed /\ Waiting /\ Spelt /\ TakeTurns(sentences)
  BY DEF IInv
<1>2. /\ pc = "claw" /\ pc' = "claw" /\ article' = article /\ i' = i + 1 /\ i \in Nat /\ i < Len(article)
      /\ article \in Seq(Chars) /\ Len(article) \in Nat
      /\ subwords' = <<>> /\ otherFlag' = TRUE /\ otherWord' = Append(otherWord, c)
      /\ c \in Stops /\ c \in Chars
  BY <1>1, OstrichAssumption, LenProperties DEF ClawStop, Typed
<1>3. f \in Seq(Chars) /\ subwords \in Seq(Chars) /\ otherWord \in Seq(Chars)
  BY <1>1, WordsType, PieceOf DEF Typed
<1>4. otherWord' \in Seq(Stops) /\ otherWord' # <<>>
  BY <1>1, <1>2, AppendProperties DEF Typed
<1>inside. i' \in Nat /\ i' <= Len(article')
  BY <1>2
<1>5. Seen' = Append(Seen, c)
  BY <1>2, OneMore DEF Seen
<1>6. CASE subwords = <<>>
  <2>1. sentences' = sentences
    BY <1>6 DEF ClawStop
  <2>2. Typed'
    BY <1>1, <1>2, <1>4, <2>1, EmptySeq DEF Typed
  <2>3. Waiting'
    BY <1>1, <1>2, <1>4, <1>inside, <1>6, <2>1 DEF Waiting, Typed
  <2>4. Spelt'
    <3>1. (f \o otherWord) \o <<>> = Seen
      BY <1>1, <1>6 DEF Spelt
    <3>2. f \o otherWord \in Seq(Chars)
      BY <1>3, ConcatProperties
    <3>3. f \o otherWord = Seen
      BY <3>1, <3>2, ConcatEmptySeq
    <3>4. f \o Append(otherWord, c) = Append(f \o otherWord, c)
      BY <1>2, <1>3, AppendRight, SMTT(60)
    <3>5. Append(f \o otherWord, c) \in Seq(Chars)
      BY <1>2, <3>2, AppendProperties
    <3>6. (f \o Append(otherWord, c)) \o <<>> = Append(Seen, c)
      BY <3>3, <3>4, <3>5, ConcatEmptySeq
    <3> QED BY <1>2, <1>5, <2>1, <3>6 DEF Spelt
  <2> QED BY <1>1, <2>1, <2>2, <2>3, <2>4 DEF IInv
<1>7. CASE subwords # <<>>
  <2>1. sentences' = Append(sentences, p) /\ p \in Pieces /\ p.word = subwords /\ p.multi = TRUE
    BY <1>1, <1>7, PieceOf DEF ClawStop, Sentence
  <2>2. otherFlag = FALSE /\ otherWord = <<>>
    BY <1>1, <1>7 DEF Waiting, Typed
  <2>3. /\ sentences' \in Seq(Pieces) /\ sentences' # <<>>
        /\ sentences'[Len(sentences')] = p
    BY <1>1, <2>1, PieceAppend DEF Typed
  <2>4. Typed'
    BY <1>1, <1>2, <1>4, <2>3, EmptySeq DEF Typed
  <2>5. Waiting'
    BY <1>2, <1>4, <1>inside, <2>1, <2>3 DEF Waiting
  <2>6. TakeTurns(sentences')
    <3>1. sentences # <<>> => sentences[Len(sentences)].multi # p.multi
      BY <1>1, <1>2, <2>1, <2>2 DEF Waiting
    <3> QED BY <1>1, <2>1, <3>1, TurnAppend DEF Typed
  <2>7. Spelt'
    <3>1. FlattenSeq(WordsOf(sentences')) = f \o subwords
      BY <1>1, <2>1, WordsAppend DEF Typed
    <3>2. f \o subwords = Seen
      BY <1>1, <1>3, <2>2, ConcatEmptySeq DEF Spelt
    <3>3. f \o subwords \in Seq(Chars) /\ <<>> \in Seq(Chars)
      BY <1>3, ConcatProperties, EmptySeq
    <3>4. (f \o subwords) \o Append(<<>>, c) = Append((f \o subwords) \o <<>>, c)
      BY <1>2, <3>3, AppendRight
    <3>5. (f \o subwords) \o <<>> = f \o subwords
      BY <3>3, ConcatEmptySeq
    <3>6. Append(f \o subwords, c) \in Seq(Chars)
      BY <1>2, <3>3, AppendProperties
    <3>7. ((f \o subwords) \o Append(<<>>, c)) \o <<>> = Append(Seen, c)
      BY <3>2, <3>4, <3>5, <3>6, ConcatEmptySeq
    <3> QED BY <1>2, <1>5, <2>2, <3>1, <3>7 DEF Spelt
  <2> QED BY <2>4, <2>5, <2>6, <2>7 DEF IInv
<1> QED BY <1>6, <1>7

LEMMA CharCut ==
  ASSUME IInv, ClawChar PROVE IInv'
<1> DEFINE c == article[i + 1]
           f == FlattenSeq(WordsOf(sentences))
           p == Sentence(otherWord, FALSE)
<1>1. Typed /\ Waiting /\ Spelt /\ TakeTurns(sentences)
  BY DEF IInv
<1>2. /\ pc = "claw" /\ pc' = "claw" /\ article' = article /\ i' = i + 1 /\ i \in Nat /\ i < Len(article)
      /\ article \in Seq(Chars) /\ Len(article) \in Nat
      /\ subwords' = Append(subwords, c) /\ otherFlag' = FALSE
      /\ c \in Chars \ Stops
  <2>1. i + 1 \in 1..Len(article)
    BY <1>1, LenProperties DEF ClawChar, Typed
  <2>2. c \in Chars
    BY <1>1, <2>1, ElementOfSeq DEF Typed
  <2> QED BY <1>1, <2>2, LenProperties DEF ClawChar, Typed
<1>3. f \in Seq(Chars) /\ subwords \in Seq(Chars) /\ otherWord \in Seq(Chars)
  BY <1>1, WordsType, PieceOf DEF Typed
<1>4. subwords' \in Seq(Chars \ Stops) /\ subwords' # <<>>
  BY <1>1, <1>2, AppendProperties DEF Typed
<1>5. Seen' = Append(Seen, c)
  BY <1>2, OneMore DEF Seen
<1>6. otherWord' = <<>> /\ otherWord' \in Seq(Stops)
  BY <1>1, EmptySeq DEF ClawChar, Waiting, Typed
<1>inside. i' \in Nat /\ i' <= Len(article')
  BY <1>2
<1>7. CASE ~ otherFlag
  <2>1. sentences' = sentences /\ otherWord = <<>>
    BY <1>1, <1>7 DEF ClawChar, Waiting
  <2>2. Typed'
    BY <1>1, <1>2, <1>4, <1>inside, <1>6, <2>1, EmptySeq DEF Typed
  <2>3. Waiting'
    <3>1. sentences # <<>> => sentences[Len(sentences)].multi = FALSE
      BY <1>1, <1>2, <1>7 DEF Waiting, Typed
    <3> QED BY <1>2, <1>4, <1>6, <1>inside, <2>1, <3>1 DEF Waiting
  <2>4. Spelt'
    <3>1. f \o <<>> = f
      BY <1>3, ConcatEmptySeq
    <3>2. f \o subwords = Seen
      BY <1>1, <2>1, <3>1 DEF Spelt
    <3>3. f \o Append(subwords, c) = Append(f \o subwords, c)
      BY <1>2, <1>3, AppendRight, SMTT(60)
    <3>4. (f \o <<>>) \o Append(subwords, c) = Append(Seen, c)
      BY <3>1, <3>2, <3>3
    <3> QED BY <1>2, <1>5, <1>6, <2>1, <3>4 DEF Spelt
  <2> QED BY <1>1, <2>1, <2>2, <2>3, <2>4 DEF IInv
<1>8. CASE otherFlag
  <2>1. otherWord # <<>> /\ subwords = <<>> /\ otherFlag = TRUE
    BY <1>1, <1>8 DEF Waiting, Typed
  <2>2. sentences' = Append(sentences, p) /\ p \in Pieces /\ p.word = otherWord /\ p.multi = FALSE
    BY <1>1, <1>8, <2>1, PieceOf DEF ClawChar, Sentence
  <2>3. /\ sentences' \in Seq(Pieces) /\ sentences' # <<>>
        /\ sentences'[Len(sentences')] = p
    BY <1>1, <2>2, PieceAppend DEF Typed
  <2>4. Typed'
    BY <1>1, <1>2, <1>4, <1>6, <1>inside, <2>3 DEF Typed
  <2>5. Waiting'
    BY <1>2, <1>4, <1>6, <1>inside, <2>2, <2>3 DEF Waiting
  <2>6. TakeTurns(sentences')
    <3>1. sentences # <<>> => sentences[Len(sentences)].multi # p.multi
      BY <1>1, <1>2, <2>1, <2>2 DEF Waiting
    <3> QED BY <1>1, <2>2, <3>1, TurnAppend DEF Typed
  <2>7. Spelt'
    <3>1. FlattenSeq(WordsOf(sentences')) = f \o otherWord
      BY <1>1, <2>2, WordsAppend DEF Typed
    <3>2. f \o otherWord \in Seq(Chars) /\ <<>> \in Seq(Chars)
      BY <1>3, ConcatProperties, EmptySeq
    <3>3. (f \o otherWord) \o <<>> = f \o otherWord
      BY <3>2, ConcatEmptySeq
    <3>4. f \o otherWord = Seen
      BY <1>1, <2>1, <3>3 DEF Spelt
    <3>5. (f \o otherWord) \o Append(<<>>, c) = Append((f \o otherWord) \o <<>>, c)
      BY <1>2, <3>2, AppendRight
    <3>6. ((f \o otherWord) \o <<>>) \o Append(<<>>, c) = Append(Seen, c)
      BY <3>3, <3>4, <3>5
    <3> QED BY <1>2, <1>5, <1>6, <2>1, <3>1, <3>6 DEF Spelt
  <2> QED BY <2>4, <2>5, <2>6, <2>7 DEF IInv
<1> QED BY <1>7, <1>8

LEMMA EndCut ==
  ASSUME IInv, ClawEnd PROVE IInv'
<1> DEFINE f == FlattenSeq(WordsOf(sentences))
           Joined(p) == sentences' = Append(sentences, p) /\ p \in Pieces /\ f \o p.word = article
                      /\ (sentences # <<>> => sentences[Len(sentences)].multi # p.multi)
<1>1. Typed /\ Waiting /\ Spelt /\ TakeTurns(sentences)
  BY DEF IInv
<1>2. /\ pc = "claw" /\ pc' = "learn" /\ article' = article /\ i' = 0 /\ i = Len(article)
      /\ article \in Seq(Chars)
      /\ subwords' = <<>> /\ otherFlag' = FALSE /\ otherWord' = <<>>
  BY <1>1 DEF ClawEnd, Typed
<1>3. f \in Seq(Chars) /\ subwords \in Seq(Chars) /\ otherWord \in Seq(Chars)
  BY <1>1, WordsType, PieceOf DEF Typed
<1>4. Seen = article /\ Seen' = article
  BY <1>2, SubSeqFull DEF Seen
<1>5. Waiting'
  BY <1>2 DEF Waiting
<1>6. sentences \o <<>> = sentences
  BY <1>1, ConcatEmptySeq DEF Typed
<1>7. CASE subwords = <<>> /\ otherWord = <<>>
  <2>1. sentences' = sentences
    BY <1>6, <1>7 DEF ClawEnd
  <2>2. Typed'
    BY <1>1, <1>2, <2>1, EmptySeq DEF Typed
  <2>3. Spelt'
    BY <1>1, <1>2, <1>4, <1>7, <2>1 DEF Spelt
  <2> QED BY <1>1, <1>5, <2>1, <2>2, <2>3 DEF IInv
<1>8. ASSUME NEW p, Joined(p) PROVE IInv'
  <2>1. sentences' \in Seq(Pieces)
    BY <1>1, <1>8, AppendProperties DEF Typed
  <2>2. Typed'
    BY <1>2, <2>1, EmptySeq DEF Typed
  <2>3. FlattenSeq(WordsOf(sentences')) = article
    BY <1>1, <1>8, WordsAppend DEF Typed
  <2>4. Spelt'
    BY <1>2, <1>4, <2>3, ConcatEmptySeq DEF Spelt
  <2>5. TakeTurns(sentences')
    BY <1>1, <1>8, TurnAppend DEF Typed
  <2> QED BY <1>5, <2>2, <2>4, <2>5 DEF IInv
<1>9. CASE subwords # <<>>
  <2> DEFINE p == Sentence(subwords, TRUE)
  <2>1. otherFlag = FALSE /\ otherWord = <<>>
    BY <1>1, <1>9 DEF Waiting, Typed
  <2>2. p \in Pieces /\ p.word = subwords /\ p.multi = TRUE
    BY <1>1, <1>9, PieceOf DEF Sentence
  <2>3. sentences' = Append(sentences, p)
    <3>1. sentences' = (sentences \o <<p>>) \o <<>>
      BY <1>9, <2>1 DEF ClawEnd
    <3>2. Append(sentences, p) = sentences \o <<p>> /\ Append(sentences, p) \in Seq(Pieces)
      BY <1>1, <2>2, AppendIsConcat, AppendProperties, ZenonT(60) DEF Typed
    <3> QED BY <3>1, <3>2, ConcatEmptySeq
  <2>4. f \o p.word = article
    BY <1>1, <1>3, <1>4, <2>1, <2>2, ConcatEmptySeq DEF Spelt
  <2>5. sentences # <<>> => sentences[Len(sentences)].multi # p.multi
    BY <1>1, <1>2, <2>1, <2>2 DEF Waiting
  <2>6. Joined(p)
    BY <2>2, <2>3, <2>4, <2>5
  <2> QED BY <1>8, <2>6
<1>10. CASE otherWord # <<>>
  <2> DEFINE p == Sentence(otherWord, FALSE)
  <2>1. otherFlag = TRUE /\ subwords = <<>>
    BY <1>1, <1>10 DEF Waiting, Typed
  <2>2. p \in Pieces /\ p.word = otherWord /\ p.multi = FALSE
    BY <1>1, <1>10, PieceOf DEF Sentence
  <2>3. sentences' = Append(sentences, p)
    <3>1. sentences' = (sentences \o <<>>) \o <<p>>
      BY <1>10, <2>1 DEF ClawEnd
    <3>2. Append(sentences, p) = sentences \o <<p>>
      BY <1>1, <2>2, AppendIsConcat DEF Typed
    <3> QED BY <1>6, <3>1, <3>2
  <2>4. f \o p.word = article
    <3>1. (f \o otherWord) \o <<>> = article
      BY <1>1, <1>4, <2>1 DEF Spelt
    <3>2. f \o otherWord \in Seq(Chars)
      BY <1>3, ConcatProperties
    <3> QED BY <2>2, <3>1, <3>2, ConcatEmptySeq
  <2>5. sentences # <<>> => sentences[Len(sentences)].multi # p.multi
    BY <1>1, <1>2, <2>1, <2>2 DEF Waiting
  <2>6. Joined(p)
    BY <2>2, <2>3, <2>4, <2>5
  <2> QED BY <1>8, <2>6
<1> QED BY <1>7, <1>9, <1>10

(* Behind the cutting only pc and i change.                                *)
LEMMA LaterCut ==
  ASSUME IInv, Learn \/ LearnEnd \/ Commit \/ UNCHANGED vars PROVE IInv'
<1>1. /\ article' = article /\ subwords' = subwords /\ otherFlag' = otherFlag
      /\ otherWord' = otherWord /\ sentences' = sentences
  BY DEF Learn, LearnEnd, Commit, vars
<1>2. \/ pc' = pc /\ i' = i
      \/ pc # "claw" /\ pc' \in {"learn", "commit", "sent"} /\ i' \in {i, i + 1}
  BY DEF Learn, LearnEnd, Commit, vars
<1>3. Typed'
  BY <1>1, <1>2 DEF IInv, Typed
<1>4. Waiting'
  BY <1>1, <1>2 DEF IInv, Waiting
<1>5. Seen' = Seen
  BY <1>1, <1>2 DEF Seen
<1>6. Spelt'
  BY <1>1, <1>5 DEF IInv, Spelt
<1> QED BY <1>1, <1>3, <1>4, <1>6 DEF IInv

LEMMA CutStep ==
  ASSUME IInv, [Next]_vars PROVE IInv'
<1>1. ASSUME NEW text \in Articles, Begin(text) PROVE IInv'
  BY <1>1, BeginCut
<1>2. CASE ClawStop
  BY <1>2, StopCut
<1>3. CASE ClawChar
  BY <1>3, CharCut
<1>4. CASE ClawEnd
  BY <1>4, EndCut
<1>5. CASE Learn \/ LearnEnd \/ Commit \/ UNCHANGED vars
  BY <1>5, LaterCut
<1> QED BY <1>1, <1>2, <1>3, <1>4, <1>5 DEF Next

THEOREM Cutting == Spec => []IInv
<1>1. Init => IInv
  BY InitCut
<1>2. IInv /\ [Next]_vars => IInv'
  BY CutStep
<1> QED BY <1>1, <1>2, PTL DEF Spec

(* The pieces are what PiecesSpell says.                                   *)
LEMMA CutPieces == IInv => PiecesSpell
<1> SUFFICES ASSUME IInv PROVE PiecesSpell
  OBVIOUS
<1>1. Typed /\ Spelt /\ TakeTurns(sentences)
  BY DEF IInv
<1>2. FlattenSeq([k \in DOMAIN sentences |-> sentences[k].word]) \o otherWord \o subwords
        = IF pc = "claw" THEN SubSeq(article, 1, i) ELSE article
  BY <1>1 DEF Spelt, Seen, WordsOf
<1>3. ASSUME NEW k \in DOMAIN sentences
      PROVE  /\ sentences[k].word # <<>>
             /\ Range(sentences[k].word) \subseteq (IF sentences[k].multi THEN Chars \ Stops ELSE Stops)
             /\ k > 1 => sentences[k].multi # sentences[k - 1].multi
  <2>1. sentences[k] \in Pieces
    BY <1>1 DEF Typed
  <2>2. sentences[k].word # <<>>
    BY <2>1, PieceShape
  <2>3. Range(sentences[k].word) \subseteq (IF sentences[k].multi THEN Chars \ Stops ELSE Stops)
    BY <2>1, PieceShape, RangeOfSeq
  <2> QED BY <1>1, <2>2, <2>3 DEF TakeTurns
<1> QED BY <1>2, <1>3 DEF PiecesSpell

(* claw() loses, doubles and reorders nothing of any article, of whatever  *)
(* characters and stops: its pieces spell the text read so far, none is    *)
(* empty, and stretches and stops take turns.                              *)
THEOREM CutSpellsArticle == Spec => []PiecesSpell
BY Cutting, CutPieces, PTL

-----------------------------------------------------------------------------
(* Where words stand in a text *)

Stands(t, w, p) == \A j \in 1..Len(w) : t[p + j] = w[j]
EndsWith(t, w) == Len(w) <= Len(t) /\ Stands(t, w, Len(t) - Len(w))

LEMMA PlacesAre ==
  ASSUME NEW S, NEW t \in Seq(S), NEW w \in Seq(S), NEW p
  PROVE  p \in Places(t, w) <=> p \in 0..Len(t) - Len(w) /\ Stands(t, w, p)
<1>1. Len(t) \in Nat /\ Len(w) \in Nat
  BY LenProperties
<1>2. ASSUME p \in 0..Len(t) - Len(w) PROVE SubSeq(t, p + 1, p + Len(w)) = w <=> Stands(t, w, p)
  <2> DEFINE s == SubSeq(t, p + 1, p + Len(w))
  <2>1. p \in Nat /\ p + Len(w) <= Len(t)
    BY <1>1, <1>2
  <2>2. \A k \in p + 1..p + Len(w) : t[k] \in S
    BY <1>1, <2>1, ElementOfSeq
  <2>3. /\ s \in Seq(S)
        /\ Len(s) = IF p + 1 <= p + Len(w) THEN p + Len(w) - (p + 1) + 1 ELSE 0
        /\ \A j \in 1..p + Len(w) - (p + 1) + 1 : s[j] = t[p + 1 + j - 1]
    BY <1>1, <2>1, <2>2, SubSeqProperties
  <2>4. Len(s) = Len(w) /\ \A j \in 1..Len(w) : s[j] = t[p + j]
    <3> HIDE DEF s
    <3>1. Len(s) = Len(w) /\ p + Len(w) - (p + 1) + 1 = Len(w)
      BY <1>1, <2>1, <2>3
    <3>2. ASSUME NEW j \in 1..Len(w) PROVE s[j] = t[p + j]
      <4>1. s[j] = t[p + 1 + j - 1] /\ p + 1 + j - 1 = p + j
        BY <1>1, <2>1, <2>3, <3>1
      <4> QED BY <4>1
    <3> QED BY <3>1, <3>2
  <2>5. s = w => Stands(t, w, p)
    <3> HIDE DEF s
    <3> QED BY <2>4 DEF Stands
  <2>6. ASSUME Stands(t, w, p) PROVE s = w
    <3> HIDE DEF s
    <3>1. \A j \in 1..Len(s) : s[j] = w[j]
      BY <2>4, <2>6 DEF Stands
    <3> QED BY <2>3, <2>4, <3>1, SeqEqual
  <2> QED BY <2>5, <2>6
<1> QED BY <1>2 DEF Places

LEMMA PlacesFinite ==
  ASSUME NEW S, NEW t \in Seq(S), NEW w \in Seq(S)
  PROVE  IsFiniteSet(Places(t, w)) /\ Cardinality(Places(t, w)) \in Nat
<1>1. Len(t) \in Nat /\ Len(w) \in Nat
  BY LenProperties
<1>2. IsFiniteSet(0..Len(t) - Len(w))
  BY <1>1, FS_Interval
<1>3. Places(t, w) \subseteq 0..Len(t) - Len(w)
  BY DEF Places
<1> QED BY <1>2, <1>3, FS_Subset, FS_CardinalityType

(* A run: what RunsOf collects of a text, without the text.                *)
IsRun(w) ==
  /\ w \in Seq(Chars) /\ Len(w) \in 2..maxWordLength_
  /\ \A j \in 1..Len(w) : w[j] \notin Stops

LEMMA RunShape ==
  ASSUME NEW w, IsRun(w)
  PROVE  w \in Seq(Chars) /\ Len(w) \in Nat /\ Len(w) >= 2 /\ Len(w) <= maxWordLength_
BY OstrichAssumption DEF IsRun

LEMMA RunsAre ==
  ASSUME NEW t \in Seq(Chars), NEW w
  PROVE  w \in RunsOf(t) <=> IsRun(w) /\ Places(t, w) # {}
<1>1. Len(t) \in Nat /\ DOMAIN t = 1..Len(t)
  BY LenProperties
<1>2. ASSUME w \in RunsOf(t) PROVE IsRun(w) /\ Places(t, w) # {}
  <2>1. PICK k \in 1..Len(t), l \in 1..Len(t) : w = SubSeq(t, k, l)
    <3>1. w \in {Run(t, k, l) : k \in DOMAIN t, l \in DOMAIN t}
      BY <1>2, SMT DEF RunsOf
    <3>2. PICK k \in DOMAIN t, l \in DOMAIN t : w = Run(t, k, l)
      BY <3>1, SMT
    <3> QED BY <1>1, <3>2 DEF Run
  <2>2. Len(w) \in 2..maxWordLength_ /\ Range(w) \cap Stops = {}
    BY <1>2 DEF RunsOf
  <2>3. \A j \in k..l : t[j] \in Chars
    BY <1>1, ElementOfSeq
  <2>4. /\ w \in Seq(Chars)
        /\ Len(w) = IF k <= l THEN l - k + 1 ELSE 0
    BY <1>1, <2>1, <2>3, SubSeqProperties
  <2>5. k <= l /\ Len(w) = l - k + 1
    BY <1>1, <2>2, <2>4, OstrichAssumption
  <2>6. \A j \in 1..Len(w) : w[j] \notin Stops
    BY <2>2, <2>4, LenProperties DEF Range
  <2>7. k - 1 \in 0..Len(t) - Len(w)
    BY <1>1, <2>5
  <2>8. (k - 1) + 1 = k /\ (k - 1) + Len(w) = l
    BY <1>1, <2>5
  <2>9. k - 1 \in Places(t, w)
    BY <2>1, <2>7, <2>8 DEF Places
  <2> QED BY <2>2, <2>4, <2>6, <2>9 DEF IsRun
<1>3. ASSUME IsRun(w), Places(t, w) # {} PROVE w \in RunsOf(t)
  <2>1. w \in Seq(Chars) /\ Len(w) \in Nat /\ Len(w) >= 2
    BY <1>3, RunShape
  <2>2. PICK p \in 0..Len(t) - Len(w) : SubSeq(t, p + 1, p + Len(w)) = w
    BY <1>3 DEF Places
  <2>3. p + 1 \in 1..Len(t) /\ p + Len(w) \in 1..Len(t)
    BY <1>1, <2>1
  <2>4. Range(w) \cap Stops = {}
    BY <1>3, <2>1, LenProperties DEF Range, IsRun
  <2> DEFINE cuts == {Run(t, k, l) : k \in DOMAIN t, l \in DOMAIN t}
  <2>5. w \in cuts
    <3>1. p + 1 \in DOMAIN t /\ p + Len(w) \in DOMAIN t
      BY <1>1, <2>3
    <3>2. w = Run(t, p + 1, p + Len(w))
      BY <2>2 DEF Run
    <3> QED BY <3>1, <3>2
  <2>6. RunsOf(t) = {v \in cuts : Len(v) \in 2..maxWordLength_ /\ Range(v) \cap Stops = {}}
    BY DEF RunsOf
  <2>7. Len(w) \in 2..maxWordLength_
    BY <1>3 DEF IsRun
  <2> HIDE DEF cuts
  <2> QED BY <2>4, <2>5, <2>6, <2>7
<1> QED BY <1>2, <1>3

(* One more character: u is t and c.                                       *)
IsMore(t, c, u) ==
  /\ t \in Seq(Chars) /\ u \in Seq(Chars) /\ c \in Chars
  /\ Len(t) \in Nat /\ Len(u) = Len(t) + 1
  /\ \A k \in 1..Len(t) : u[k] = t[k]
  /\ u[Len(t) + 1] = c

LEMMA MoreIs ==
  ASSUME NEW t \in Seq(Chars), NEW c \in Chars
  PROVE  IsMore(t, c, Append(t, c))
<1>1. PICK u : u = Append(t, c)
  OBVIOUS
<1>2. IsMore(t, c, u)
  BY <1>1, AppendProperties, LenProperties DEF IsMore
<1> QED BY <1>1, <1>2

(* A word that ends the longer text has one place more, no other has.      *)
LEMMA PlacesMore ==
  ASSUME NEW t, NEW c, NEW u, IsMore(t, c, u), NEW w \in Seq(Chars), w # <<>>
  PROVE  /\ EndsWith(u, w) => /\ Places(u, w) = Places(t, w) \cup {Len(u) - Len(w)}
                              /\ Len(u) - Len(w) \notin Places(t, w)
         /\ ~ EndsWith(u, w) => Places(u, w) = Places(t, w)
<1>1. /\ t \in Seq(Chars) /\ u \in Seq(Chars) /\ Len(t) \in Nat /\ Len(u) = Len(t) + 1
      /\ Len(w) \in Nat /\ Len(w) > 0
  BY EmptySeq DEF IsMore
<1>2. Len(u) - Len(w) \notin Places(t, w)
  BY <1>1, PlacesAre
<1>3. ASSUME NEW p \in 0..Len(t) - Len(w) PROVE Stands(u, w, p) <=> Stands(t, w, p)
  <2>1. \A j \in 1..Len(w) : p + j \in 1..Len(t)
    BY <1>1
  <2>2. \A j \in 1..Len(w) : u[p + j] = t[p + j]
    BY <2>1 DEF IsMore
  <2> QED BY <2>2 DEF Stands
<1>4. ASSUME NEW p
      PROVE  p \in Places(u, w) <=> p \in Places(t, w) \/ (EndsWith(u, w) /\ p = Len(u) - Len(w))
  <2>1. p \in 0..Len(u) - Len(w) <=> p \in 0..Len(t) - Len(w) \/ (p = Len(u) - Len(w) /\ Len(w) <= Len(u))
    BY <1>1
  <2>2. ~ (Len(u) - Len(w) \in 0..Len(t) - Len(w))
    BY <1>1
  <2>3. p \in Places(u, w) <=> p \in 0..Len(u) - Len(w) /\ Stands(u, w, p)
    BY <1>1, PlacesAre
  <2>4. p \in Places(t, w) <=> p \in 0..Len(t) - Len(w) /\ Stands(t, w, p)
    BY <1>1, PlacesAre
  <2>5. EndsWith(u, w) <=> Len(w) <= Len(u) /\ Stands(u, w, Len(u) - Len(w))
    BY DEF EndsWith
  <2>6. p \in 0..Len(t) - Len(w) => (Stands(u, w, p) <=> Stands(t, w, p))
    BY <1>3
  <2>7. CASE p = Len(u) - Len(w)
    BY <2>1, <2>2, <2>3, <2>4, <2>5, <2>7
  <2>8. CASE p # Len(u) - Len(w)
    BY <2>1, <2>3, <2>4, <2>6, <2>8
  <2> QED BY <2>7, <2>8
<1> QED BY <1>2, <1>4

LEMMA CountMore ==
  ASSUME NEW t, NEW c, NEW u, IsMore(t, c, u), NEW w \in Seq(Chars), w # <<>>
  PROVE  /\ EndsWith(u, w) => Cardinality(Places(u, w)) = Cardinality(Places(t, w)) + 1
         /\ ~ EndsWith(u, w) => Cardinality(Places(u, w)) = Cardinality(Places(t, w))
         /\ Cardinality(Places(t, w)) \in Nat
<1>1. IsFiniteSet(Places(t, w)) /\ Cardinality(Places(t, w)) \in Nat
  BY PlacesFinite DEF IsMore
<1>2. ASSUME EndsWith(u, w) PROVE Cardinality(Places(u, w)) = Cardinality(Places(t, w)) + 1
  <2>1. Places(u, w) = Places(t, w) \cup {Len(u) - Len(w)} /\ Len(u) - Len(w) \notin Places(t, w)
    BY <1>2, PlacesMore
  <2> QED BY <1>1, <2>1, FS_AddElement
<1>3. ASSUME ~ EndsWith(u, w) PROVE Places(u, w) = Places(t, w)
  BY <1>3, PlacesMore
<1> QED BY <1>1, <1>2, <1>3

(* What multiWordOfOneArticle_ should hold once t is learnt.               *)
Multi(t) == [w \in RunsOf(t) |-> Cardinality(Places(t, w))]
RunsEnding(u) == {w \in RunsOf(u) : EndsWith(u, w)}

(* A run that ends the text stands in it.                                  *)
LEMMA EndIsPlace ==
  ASSUME NEW u \in Seq(Chars), NEW w, IsRun(w), EndsWith(u, w)
  PROVE  w \in RunsEnding(u)
<1>1. w \in Seq(Chars) /\ Len(w) \in Nat /\ Len(u) \in Nat
  BY RunShape, LenProperties
<1>2. Len(u) - Len(w) \in 0..Len(u) - Len(w) /\ Stands(u, w, Len(u) - Len(w))
  BY <1>1 DEF EndsWith
<1>3. Len(u) - Len(w) \in Places(u, w)
  BY <1>1, <1>2, PlacesAre
<1>4. w \in RunsOf(u)
  BY <1>3, RunsAre
<1> QED BY <1>4 DEF RunsEnding

(* The runs of the longer text are the old ones and those that end it.     *)
LEMMA RunsMore ==
  ASSUME NEW t, NEW c, NEW u, IsMore(t, c, u)
  PROVE  /\ RunsOf(u) = RunsOf(t) \cup RunsEnding(u)
         /\ \A w \in RunsOf(u) : w \in Seq(Chars) /\ w # <<>>
         /\ \A w \in RunsOf(u) : w \notin RunsOf(t) => Cardinality(Places(t, w)) = 0
<1>1. t \in Seq(Chars) /\ u \in Seq(Chars)
  BY DEF IsMore
<1>2. ASSUME NEW w, IsRun(w) PROVE w \in Seq(Chars) /\ w # <<>>
  <2>1. w \in Seq(Chars) /\ Len(w) >= 2 /\ Len(w) \in Nat
    BY <1>2, RunShape
  <2> QED BY <2>1, EmptySeq
<1>3. ASSUME NEW w \in RunsOf(u) PROVE w \in RunsOf(t) \cup RunsEnding(u)
  <2>1. IsRun(w) /\ Places(u, w) # {}
    BY <1>1, RunsAre
  <2>2. CASE EndsWith(u, w)
    BY <2>2 DEF RunsEnding
  <2>3. CASE ~ EndsWith(u, w)
    <3>1. Places(t, w) # {}
      BY <1>2, <2>1, <2>3, PlacesMore
    <3> QED BY <1>1, <2>1, <3>1, RunsAre
  <2> QED BY <2>2, <2>3
<1>4. ASSUME NEW w \in RunsOf(t) PROVE w \in RunsOf(u)
  <2>1. IsRun(w) /\ Places(t, w) # {}
    BY <1>1, RunsAre
  <2>2. Places(u, w) # {}
    BY <1>2, <2>1, PlacesMore
  <2> QED BY <1>1, <2>1, <2>2, RunsAre
<1>5. ASSUME NEW w \in RunsOf(u), w \notin RunsOf(t) PROVE Cardinality(Places(t, w)) = 0
  <2>1. IsRun(w)
    BY <1>1, RunsAre
  <2>2. Places(t, w) = {}
    BY <1>1, <1>5, <2>1, RunsAre
  <2> QED BY <2>2, FS_EmptySet
<1>6. \A w \in RunsOf(u) : IsRun(w)
  BY <1>1, RunsAre
<1> QED BY <1>2, <1>3, <1>4, <1>5, <1>6 DEF RunsEnding

(* A character that is no stop adds one to every run that ends with it.    *)
LEMMA MultiChar ==
  ASSUME NEW t, NEW c, NEW u, IsMore(t, c, u)
  PROVE  Multi(u) = Multi(t) (+) SetToBag(RunsEnding(u))
<1> DEFINE E == RunsEnding(u)
           sum == Multi(t) (+) SetToBag(E)
<1>1. /\ RunsOf(u) = RunsOf(t) \cup E
      /\ \A w \in RunsOf(u) : w \in Seq(Chars) /\ w # <<>>
      /\ \A w \in RunsOf(u) : w \notin RunsOf(t) => Cardinality(Places(t, w)) = 0
  BY RunsMore
<1>2. ASSUME NEW w \in RunsOf(u)
      PROVE  Cardinality(Places(u, w)) =
               (IF w \in RunsOf(t) THEN Cardinality(Places(t, w)) ELSE 0) + (IF w \in E THEN 1 ELSE 0)
  <2>1. w \in E <=> EndsWith(u, w)
    BY DEF RunsEnding
  <2>2. /\ EndsWith(u, w) => Cardinality(Places(u, w)) = Cardinality(Places(t, w)) + 1
        /\ ~ EndsWith(u, w) => Cardinality(Places(u, w)) = Cardinality(Places(t, w))
        /\ Cardinality(Places(t, w)) \in Nat
    BY <1>1, CountMore
  <2>3. (IF w \in RunsOf(t) THEN Cardinality(Places(t, w)) ELSE 0) = Cardinality(Places(t, w))
    BY <1>1
  <2> QED BY <2>1, <2>2, <2>3
<1>3. sum = [w \in RunsOf(t) \cup E |->
               (IF w \in RunsOf(t) THEN Multi(t)[w] ELSE 0) + (IF w \in E THEN SetToBag(E)[w] ELSE 0)]
  BY DEF (+), Multi, SetToBag
<1>4. sum = [w \in RunsOf(u) |->
               (IF w \in RunsOf(t) THEN Cardinality(Places(t, w)) ELSE 0) + (IF w \in E THEN 1 ELSE 0)]
  BY <1>1, <1>3 DEF Multi, SetToBag
<1> QED BY <1>2, <1>4 DEF Multi

(* A stop adds nothing.                                                    *)
LEMMA MultiStop ==
  ASSUME NEW t, NEW c, NEW u, IsMore(t, c, u), c \in Stops
  PROVE  Multi(u) = Multi(t)
<1>1. u \in Seq(Chars)
  BY DEF IsMore
<1>2. ASSUME NEW w \in RunsEnding(u) PROVE FALSE
  <2>1. IsRun(w) /\ EndsWith(u, w)
    BY <1>1, RunsAre DEF RunsEnding
  <2>2. Len(w) \in Nat /\ Len(w) >= 2 /\ Len(u) \in Nat /\ Len(u) = Len(t) + 1 /\ Len(t) \in Nat
    BY <2>1, RunShape DEF IsMore
  <2>3. Len(w) \in 1..Len(w) /\ (Len(u) - Len(w)) + Len(w) = Len(t) + 1
    BY <2>2
  <2>4. u[(Len(u) - Len(w)) + Len(w)] = w[Len(w)]
    BY <2>1, <2>3 DEF EndsWith, Stands
  <2>5. w[Len(w)] = c
    BY <2>3, <2>4 DEF IsMore
  <2> QED BY <2>1, <2>3, <2>5 DEF IsRun
<1>3. RunsEnding(u) = {}
  BY <1>2
<1>4. /\ RunsOf(u) = RunsOf(t)
      /\ \A w \in RunsOf(u) : w \in Seq(Chars) /\ w # <<>>
  <2>1. RunsOf(u) = RunsOf(t) \cup RunsEnding(u)
    BY ONLY IsMore(t, c, u), RunsMore
  <2>2. \A w \in RunsOf(u) : w \in Seq(Chars) /\ w # <<>>
    BY ONLY IsMore(t, c, u), RunsMore
  <2> QED BY ONLY <1>3, <2>1, <2>2
<1>5. ASSUME NEW w \in RunsOf(u) PROVE Cardinality(Places(u, w)) = Cardinality(Places(t, w))
  <2>1. ~ EndsWith(u, w)
    BY <1>3 DEF RunsEnding
  <2> QED BY <1>4, <2>1, CountMore
<1> QED BY <1>4, <1>5 DEF Multi

-----------------------------------------------------------------------------
(* preWords *)

(* The list holds the characters before the next one that are no stops, as *)
(* many as a word may still have.                                          *)
Recent(t, pre) ==
  /\ pre \in Seq(Chars \ Stops) /\ EndsWith(t, pre)
  /\ Len(pre) <= maxWordLength_ - 1
  /\ \/ Len(pre) = maxWordLength_ - 1
     \/ Len(pre) = Len(t)
     \/ t[Len(t) - Len(pre)] \in Stops

IsJoint(pre, k, c, w) ==
  /\ w \in Seq(Chars \ Stops) /\ Len(w) = Len(pre) - k + 2
  /\ \A j \in 1..Len(pre) - k + 1 : w[j] = pre[k + j - 1]
  /\ w[Len(pre) - k + 2] = c

LEMMA JointShape ==
  ASSUME NEW pre \in Seq(Chars \ Stops), NEW c \in Chars \ Stops, NEW k \in 1..Len(pre)
  PROVE  IsJoint(pre, k, c, Joint(pre, k, c))
<1>1. Len(pre) \in Nat
  BY LenProperties
<1> DEFINE n == Len(pre) - k + 1
<1>2. PICK s : s = SubSeq(pre, k, Len(pre))
  OBVIOUS
<1>3. \A j \in k..Len(pre) : pre[j] \in Chars \ Stops
  BY <1>1, ElementOfSeq
<1>4. s \in Seq(Chars \ Stops) /\ Len(s) = n /\ \A j \in 1..n : s[j] = pre[k + j - 1]
  BY <1>1, <1>2, <1>3, SubSeqProperties
<1>5. <<c>> \in Seq(Chars \ Stops) /\ Len(<<c>>) = 1 /\ <<c>>[1] = c
  OBVIOUS
<1>6. PICK d : d = <<c>>
  OBVIOUS
<1>7. PICK w : w = Joint(pre, k, c)
  OBVIOUS
<1>split. w = s \o d
  BY <1>2, <1>6, <1>7 DEF Joint
<1>8. d \in Seq(Chars \ Stops) /\ Len(d) = 1 /\ d[1] = c
  BY <1>5, <1>6
<1>9. /\ w \in Seq(Chars \ Stops) /\ Len(w) = Len(s) + Len(d)
      /\ \A j \in 1..Len(s) + Len(d) : w[j] = IF j <= Len(s) THEN s[j] ELSE d[j - Len(s)]
  BY <1>4, <1>8, <1>split, ConcatProperties
<1>10. n \in Nat /\ n + 1 = Len(pre) - k + 2 /\ Len(s) = n /\ Len(d) = 1
  BY <1>1, <1>4, <1>8
<1> HIDE DEF n
<1>11. Len(w) = n + 1 /\ w[n + 1] = c
  <2>1. n + 1 \in 1..Len(s) + Len(d) /\ ~ (n + 1 <= Len(s)) /\ (n + 1) - Len(s) = 1
    BY <1>10
  <2> QED BY <1>8, <1>9, <1>10, <2>1
<1>12. \A j \in 1..n : w[j] = pre[k + j - 1]
  <2> SUFFICES ASSUME NEW j \in 1..n PROVE w[j] = pre[k + j - 1]
    OBVIOUS
  <2>1. j \in 1..Len(s) + Len(d) /\ j <= Len(s)
    BY <1>10
  <2> QED BY <1>4, <1>9, <2>1
<1> QED BY <1>7, <1>9, <1>10, <1>11, <1>12 DEF IsJoint, n

(* The arithmetic of a character of a joint word but the last.             *)
LEMMA OffsetInList ==
  ASSUME NEW lt \in Nat, NEW lu, lu = lt + 1, NEW lp \in Nat, NEW k \in 1..lp,
         NEW lw, lw = lp - k + 2, NEW j \in 1..lw, j # lw
  PROVE  /\ lu - lw + j = lt - lp + (k + j - 1)
         /\ k + j - 1 \in 1..lp /\ j \in 1..lp - k + 1
OBVIOUS

LEMMA RecentFacts ==
  ASSUME NEW t, NEW c, NEW u, IsMore(t, c, u), NEW pre, Recent(t, pre)
  PROVE  /\ Len(t) \in Nat /\ Len(pre) \in Nat /\ Len(u) = Len(t) + 1
         /\ Len(pre) <= Len(t) /\ Len(pre) <= maxWordLength_ - 1
         /\ maxWordLength_ \in Nat /\ maxWordLength_ >= 2
         /\ \A j \in 1..Len(pre) : u[Len(t) - Len(pre) + j] = pre[j]
         /\ u[Len(t) + 1] = c
<1>1. Len(t) \in Nat /\ Len(pre) \in Nat /\ Len(pre) <= Len(t)
  BY LenProperties DEF IsMore, Recent, EndsWith
<1>2. ASSUME NEW j \in 1..Len(pre) PROVE u[Len(t) - Len(pre) + j] = pre[j]
  <2>1. Len(t) - Len(pre) + j \in 1..Len(t)
    BY <1>1
  <2>2. t[Len(t) - Len(pre) + j] = pre[j]
    BY DEF Recent, EndsWith, Stands
  <2> QED BY <2>1, <2>2 DEF IsMore
<1> QED BY <1>1, <1>2, OstrichAssumption DEF IsMore, Recent

(* The joint words are runs, and end the longer text.                      *)
LEMMA JointEnds ==
  ASSUME NEW t, NEW c, NEW u, IsMore(t, c, u), c \notin Stops, NEW pre, Recent(t, pre),
         NEW k \in 1..Len(pre)
  PROVE  Joint(pre, k, c) \in RunsEnding(u)
<1>1. PICK w : w = Joint(pre, k, c)
  OBVIOUS
<1>2. pre \in Seq(Chars \ Stops) /\ c \in Chars \ Stops
  BY DEF Recent, IsMore
<1>3. /\ w \in Seq(Chars \ Stops) /\ Len(w) = Len(pre) - k + 2
      /\ \A j \in 1..Len(pre) - k + 1 : w[j] = pre[k + j - 1]
      /\ w[Len(pre) - k + 2] = c
  <2>1. IsJoint(pre, k, c, Joint(pre, k, c))
    BY ONLY <1>2, k \in 1..Len(pre), JointShape
  <2>2. IsJoint(pre, k, c, w)
    BY ONLY <1>1, <2>1
  <2> QED BY ONLY <2>2 DEF IsJoint
<1>4. /\ Len(t) \in Nat /\ Len(pre) \in Nat /\ Len(u) = Len(t) + 1
      /\ Len(pre) <= Len(t) /\ Len(pre) <= maxWordLength_ - 1
      /\ maxWordLength_ \in Nat
      /\ \A j \in 1..Len(pre) : u[Len(t) - Len(pre) + j] = pre[j]
      /\ u[Len(t) + 1] = c
  BY RecentFacts
<1>5. IsRun(w)
  <2>1. w \in Seq(Chars)
    BY <1>3, SeqMonotonic
  <2>2. \A j \in 1..Len(w) : w[j] \notin Stops
    BY <1>3, ElementOfSeq
  <2>3. Len(w) \in 2..maxWordLength_
    BY <1>3, <1>4
  <2> QED BY <2>1, <2>2, <2>3 DEF IsRun
<1>6. EndsWith(u, w)
  <2>1. Len(w) <= Len(u)
    BY <1>3, <1>4
  <2>2. ASSUME NEW j \in 1..Len(w) PROVE u[Len(u) - Len(w) + j] = w[j]
    <3>1. CASE j = Len(w)
      <4>1. Len(u) - Len(w) + j = Len(t) + 1 /\ j = Len(pre) - k + 2
        BY <1>3, <1>4, <3>1
      <4> QED BY <1>3, <1>4, <4>1
    <3>2. CASE j # Len(w)
      <4>1. /\ Len(u) - Len(w) + j = Len(t) - Len(pre) + (k + j - 1)
            /\ k + j - 1 \in 1..Len(pre) /\ j \in 1..Len(pre) - k + 1
        <5>1. /\ Len(t) \in Nat /\ Len(u) = Len(t) + 1 /\ Len(pre) \in Nat
              /\ Len(w) = Len(pre) - k + 2
          BY <1>3, <1>4
        <5> QED BY <3>2, <5>1, OffsetInList
      <4> QED BY <1>3, <1>4, <4>1
    <3> QED BY <3>1, <3>2
  <2> QED BY <2>1, <2>2 DEF EndsWith, Stands
<1>7. u \in Seq(Chars)
  BY DEF IsMore
<1> QED BY <1>1, <1>5, <1>6, <1>7, EndIsPlace

(* A run that ends the longer text is joint: a longer one than the list    *)
(* allows would have a stop in it, or begin before the text.               *)
LEMMA EndsJoint ==
  ASSUME NEW t, NEW c, NEW u, IsMore(t, c, u), c \notin Stops, NEW pre, Recent(t, pre),
         NEW w \in RunsEnding(u)
  PROVE  \E k \in 1..Len(pre) : w = Joint(pre, k, c)
<1>1. u \in Seq(Chars) /\ pre \in Seq(Chars \ Stops) /\ c \in Chars \ Stops
  BY DEF IsMore, Recent
<1>2. IsRun(w) /\ EndsWith(u, w)
  BY <1>1, RunsAre DEF RunsEnding
<1>3. /\ w \in Seq(Chars) /\ Len(w) \in Nat /\ Len(w) >= 2 /\ Len(w) <= maxWordLength_
      /\ \A j \in 1..Len(w) : w[j] \notin Stops
  BY <1>2, RunShape DEF IsRun
<1>4. /\ Len(t) \in Nat /\ Len(pre) \in Nat /\ Len(u) = Len(t) + 1
      /\ Len(pre) <= Len(t) /\ Len(pre) <= maxWordLength_ - 1
      /\ maxWordLength_ \in Nat
      /\ \A j \in 1..Len(pre) : u[Len(t) - Len(pre) + j] = pre[j]
      /\ u[Len(t) + 1] = c
  BY RecentFacts
<1>5. Len(w) <= Len(u) /\ \A j \in 1..Len(w) : u[Len(u) - Len(w) + j] = w[j]
  BY <1>2 DEF EndsWith, Stands
<1>6. Len(w) - 1 <= Len(pre)
  <2> SUFFICES ASSUME Len(w) - 1 > Len(pre) PROVE FALSE
    BY <1>3, <1>4
  <2>1. Len(pre) # maxWordLength_ - 1 /\ Len(pre) # Len(t)
    BY <1>3, <1>4, <1>5
  <2>2. t[Len(t) - Len(pre)] \in Stops
    BY <2>1 DEF Recent
  <2>3. PICK j : j = Len(w) - 1 - Len(pre)
    OBVIOUS
  <2>4. j \in 1..Len(w) /\ Len(u) - Len(w) + j = Len(t) - Len(pre) /\ Len(t) - Len(pre) \in 1..Len(t)
    BY <1>3, <1>4, <2>1, <2>3
  <2>5. w[j] = t[Len(t) - Len(pre)]
    BY <1>5, <2>4 DEF IsMore
  <2> QED BY <1>3, <2>2, <2>4, <2>5
<1>7. PICK k : k = Len(pre) - Len(w) + 2
  OBVIOUS
<1>8. k \in 1..Len(pre) /\ Len(pre) - k + 2 = Len(w)
  BY <1>3, <1>4, <1>6, <1>7
<1>9. PICK v : v = Joint(pre, k, c)
  OBVIOUS
<1>10. /\ v \in Seq(Chars \ Stops) /\ Len(v) = Len(pre) - k + 2
       /\ \A j \in 1..Len(pre) - k + 1 : v[j] = pre[k + j - 1]
       /\ v[Len(pre) - k + 2] = c
  BY <1>1, <1>8, <1>9, JointShape, ZenonT(60) DEF IsJoint
<1>11. ASSUME NEW j \in 1..Len(w) PROVE w[j] = v[j]
  <2>1. w[j] = u[Len(u) - Len(w) + j]
    BY <1>5
  <2>2. CASE j = Len(w)
    <3>1. Len(u) - Len(w) + j = Len(t) + 1
      BY <1>3, <1>4, <2>2
    <3> QED BY <1>4, <1>8, <1>10, <2>1, <2>2, <3>1
  <2>3. CASE j # Len(w)
    <3>1. /\ Len(u) - Len(w) + j = Len(t) - Len(pre) + (k + j - 1)
          /\ k + j - 1 \in 1..Len(pre) /\ j \in 1..Len(pre) - k + 1
      BY <1>3, <1>4, <1>8, <2>3, OffsetInList
    <3> QED BY <1>4, <1>10, <2>1, <3>1
  <2> QED BY <2>2, <2>3
<1>12. w = v
  <2>1. v \in Seq(Chars) /\ Len(v) = Len(w)
    BY <1>8, <1>10, SeqMonotonic
  <2> QED BY <1>3, <1>11, <2>1, SeqEqual
<1> QED BY <1>8, <1>9, <1>12

LEMMA JointIsEnding ==
  ASSUME NEW t, NEW c, NEW u, IsMore(t, c, u), c \notin Stops, NEW pre, Recent(t, pre)
  PROVE  {Joint(pre, k, c) : k \in DOMAIN pre} = RunsEnding(u)
<1>1. DOMAIN pre = 1..Len(pre)
  BY LenProperties DEF Recent
<1>2. \A k \in 1..Len(pre) : Joint(pre, k, c) \in RunsEnding(u)
  BY JointEnds
<1>3. \A w \in RunsEnding(u) : \E k \in 1..Len(pre) : w = Joint(pre, k, c)
  BY EndsJoint
<1> QED BY <1>1, <1>2, <1>3

(* The list after the next character.                                      *)
NextWords(pre, c) ==
  LET longer == Append(pre, c)
  IN IF Len(longer) > maxWordLength_ - 1 THEN Tail(longer) ELSE longer

LEMMA RecentMore ==
  ASSUME NEW t, NEW c, NEW u, IsMore(t, c, u), c \notin Stops, NEW pre, Recent(t, pre)
  PROVE  Recent(u, NextWords(pre, c))
<1>1. pre \in Seq(Chars \ Stops) /\ c \in Chars \ Stops
  BY DEF IsMore, Recent
<1>2. PICK longer : longer = Append(pre, c)
  OBVIOUS
<1>3. /\ longer \in Seq(Chars \ Stops) /\ longer # <<>> /\ Len(longer) = Len(pre) + 1
      /\ \A j \in 1..Len(pre) : longer[j] = pre[j]
      /\ longer[Len(pre) + 1] = c
  BY <1>1, <1>2, AppendProperties
<1>4. /\ Len(t) \in Nat /\ Len(pre) \in Nat /\ Len(u) = Len(t) + 1
      /\ Len(pre) <= Len(t) /\ Len(pre) <= maxWordLength_ - 1
      /\ maxWordLength_ \in Nat /\ maxWordLength_ >= 2
      /\ \A j \in 1..Len(pre) : u[Len(t) - Len(pre) + j] = pre[j]
      /\ u[Len(t) + 1] = c
  BY RecentFacts
<1>5. ASSUME NEW j \in 1..Len(pre) + 1 PROVE u[Len(t) - Len(pre) + j] = longer[j]
  <2>1. CASE j = Len(pre) + 1
    <3>1. Len(t) - Len(pre) + j = Len(t) + 1
      BY <1>4, <2>1
    <3> QED BY <1>3, <1>4, <2>1, <3>1
  <2>2. CASE j # Len(pre) + 1
    <3>1. j \in 1..Len(pre)
      BY <1>4, <2>2
    <3> QED BY <1>3, <1>4, <3>1
  <2> QED BY <2>1, <2>2
<1>6. CASE Len(longer) > maxWordLength_ - 1
  <2>1. PICK rest : rest = Tail(longer)
    OBVIOUS
  <2>2. /\ rest \in Seq(Chars \ Stops) /\ Len(rest) = Len(longer) - 1
        /\ \A j \in 1..Len(rest) : rest[j] = longer[j + 1]
    BY <1>3, <2>1, HeadTailProperties
  <2>3. NextWords(pre, c) = rest
    BY <1>2, <1>6, <2>1 DEF NextWords
  <2>4. Len(rest) = Len(pre) /\ Len(rest) = maxWordLength_ - 1 /\ Len(rest) <= Len(u)
    BY <1>3, <1>4, <1>6, <2>2
  <2>5. ASSUME NEW j \in 1..Len(rest) PROVE u[Len(u) - Len(rest) + j] = rest[j]
    <3>1. Len(u) - Len(rest) + j = Len(t) - Len(pre) + (j + 1) /\ j + 1 \in 1..Len(pre) + 1
      BY <1>4, <2>4
    <3> QED BY <1>5, <2>2, <3>1
  <2>6. EndsWith(u, rest)
    BY <2>4, <2>5 DEF EndsWith, Stands
  <2>7. Recent(u, rest)
    BY <1>4, <2>2, <2>4, <2>6 DEF Recent
  <2> QED BY <2>3, <2>7
<1>7. CASE ~ (Len(longer) > maxWordLength_ - 1)
  <2>1. NextWords(pre, c) = longer
    BY <1>2, <1>7 DEF NextWords
  <2>2. Len(longer) <= maxWordLength_ - 1 /\ Len(longer) <= Len(u)
        /\ Len(u) - Len(longer) = Len(t) - Len(pre)
    BY <1>3, <1>4, <1>7
  <2>3. EndsWith(u, longer)
    <3>1. \A j \in 1..Len(longer) : u[Len(u) - Len(longer) + j] = longer[j]
      BY <1>3, <1>5, <2>2
    <3> QED BY <2>2, <3>1 DEF EndsWith, Stands
  <2>4. Len(longer) = Len(u) \/ u[Len(u) - Len(longer)] \in Stops
    <3>1. CASE Len(pre) = Len(t)
      BY <1>3, <1>4, <3>1
    <3>2. CASE Len(pre) # Len(t)
      <4>1. Len(pre) # maxWordLength_ - 1
        BY <1>3, <1>4, <2>2
      <4>2. t[Len(t) - Len(pre)] \in Stops
        BY <3>2, <4>1 DEF Recent
      <4>3. Len(t) - Len(pre) \in 1..Len(t)
        BY <1>4, <3>2
      <4>4. u[Len(t) - Len(pre)] = t[Len(t) - Len(pre)]
        BY <4>3 DEF IsMore
      <4> QED BY <2>2, <4>2, <4>4
    <3> QED BY <3>1, <3>2
  <2>5. Recent(u, longer)
    BY <1>3, <2>2, <2>3, <2>4 DEF Recent
  <2> QED BY <2>1, <2>5
<1> QED BY <1>6, <1>7

-----------------------------------------------------------------------------
(* What learn() makes of a stretch *)

(* What the function in Learnt(words, chars) says of its first n places.   *)
LearntStep(words, chars, u, k) ==
  IF k = 0 THEN [preWords |-> <<>>, words |-> words] ELSE JoinTo(u[k - 1], chars[k])
IsLearnt(words, chars, u, n) ==
  u = [k \in 0..n |-> LearntStep(words, chars, u, k)]

LEMMA LearntExists ==
  ASSUME NEW words, NEW chars, NEW n \in Nat
  PROVE  \E u : IsLearnt(words, chars, u, n)
<1> DEFINE P == {m \in Nat : \E u : IsLearnt(words, chars, u, m)}
<1>1. 0 \in P
  <2>1. PICK u : u = [k \in 0..0 |-> [preWords |-> <<>>, words |-> words]]
    OBVIOUS
  <2> QED BY <2>1 DEF IsLearnt, LearntStep
<1>2. ASSUME NEW m \in Nat, m \in P PROVE m + 1 \in P
  <2>1. PICK u : IsLearnt(words, chars, u, m)
    BY <1>2
  <2>2. PICK e : e = JoinTo(u[m], chars[m + 1])
    OBVIOUS
  <2>3. PICK v : v = [k \in 0..m + 1 |-> IF k = m + 1 THEN e ELSE u[k]]
    OBVIOUS
  <2>4. ASSUME NEW k \in 0..m + 1 PROVE v[k] = LearntStep(words, chars, v, k)
    <3>1. CASE k = m + 1
      <4>1. k # 0 /\ k - 1 = m /\ m \in 0..m + 1 /\ m # m + 1
        BY <3>1
      <4>2. v[m] = u[m] /\ v[k] = e
        BY <2>3, <3>1, <4>1
      <4> QED BY <2>2, <3>1, <4>1, <4>2 DEF LearntStep
    <3>2. CASE k # m + 1
      <4>1. k \in 0..m /\ v[k] = u[k]
        BY <2>3, <3>2
      <4>2. u[k] = LearntStep(words, chars, u, k)
        BY <2>1, <4>1 DEF IsLearnt
      <4>3. k # 0 => k - 1 \in 0..m + 1 /\ k - 1 # m + 1 /\ v[k - 1] = u[k - 1]
        BY <2>3, <4>1
      <4> QED BY <4>1, <4>2, <4>3 DEF LearntStep
    <3> QED BY <3>1, <3>2
  <2>5. IsLearnt(words, chars, v, m + 1)
    BY <2>3, <2>4 DEF IsLearnt
  <2> QED BY <2>5
<1>3. \A m \in Nat : m \in P
  <2> HIDE DEF P
  <2> QED BY <1>1, <1>2, InductionFromZero
<1> QED BY <1>3

LEMMA LearntIs ==
  ASSUME NEW words, NEW chars, Len(chars) \in Nat
  PROVE  \E u : IsLearnt(words, chars, u, Len(chars)) /\ Learnt(words, chars) = u[Len(chars)].words
<1> DEFINE Body(w) == [k \in 0..Len(chars) |->
                         IF k = 0 THEN [preWords |-> <<>>, words |-> words] ELSE JoinTo(w[k - 1], chars[k])]
           v == CHOOSE w : w = Body(w)
<1>1. PICK u : IsLearnt(words, chars, u, Len(chars))
  BY LearntExists
<1>2. u = Body(u)
  BY <1>1 DEF IsLearnt, LearntStep
<1>3. v = Body(v)
  BY <1>2
<1>4. IsLearnt(words, chars, v, Len(chars))
  <2>1. Body(v) = [k \in 0..Len(chars) |-> LearntStep(words, chars, v, k)]
    <3> HIDE DEF v
    <3> QED BY DEF LearntStep
  <2> HIDE DEF v
  <2> QED BY <1>3, <2>1 DEF IsLearnt
<1>5. Learnt(words, chars) = v[Len(chars)].words
  BY DEF Learnt
<1> QED BY <1>4, <1>5

(* One character.                                                          *)
LEMMA JoinMulti ==
  ASSUME NEW t, NEW c, NEW u, IsMore(t, c, u), c \notin Stops,
         NEW acc, Recent(t, acc.preWords), acc.words = Multi(t)
  PROVE  /\ Recent(u, JoinTo(acc, c).preWords)
         /\ JoinTo(acc, c).words = Multi(u)
<1>1. JoinTo(acc, c).preWords = NextWords(acc.preWords, c)
  BY DEF JoinTo, NextWords
<1>2. JoinTo(acc, c).words = Multi(t) (+) SetToBag({Joint(acc.preWords, k, c) : k \in DOMAIN acc.preWords})
  BY DEF JoinTo
<1>3. {Joint(acc.preWords, k, c) : k \in DOMAIN acc.preWords} = RunsEnding(u)
  BY JointIsEnding
<1>4. JoinTo(acc, c).words = Multi(u)
  BY <1>2, <1>3, MultiChar
<1>5. Recent(u, NextWords(acc.preWords, c))
  BY RecentMore
<1> QED BY <1>1, <1>4, <1>5

(* A text and the first characters of what follows it.                     *)
Upto(t, chars, n) == t \o SubSeq(chars, 1, n)

LEMMA UptoMore ==
  ASSUME NEW t \in Seq(Chars), NEW chars \in Seq(Chars), NEW n \in Nat, n < Len(chars)
  PROVE  IsMore(Upto(t, chars, n), chars[n + 1], Upto(t, chars, n + 1))
<1>1. Len(chars) \in Nat /\ \A k \in 1..n : chars[k] \in Chars
  BY LenProperties, ElementOfSeq
<1>2. chars[n + 1] \in Chars
  BY <1>1, ElementOfSeq
<1>3. SubSeq(chars, 1, n) \in Seq(Chars)
  BY <1>1, SubSeqProperties
<1>4. Upto(t, chars, n) \in Seq(Chars)
  BY <1>3, ConcatProperties DEF Upto
<1>5. Upto(t, chars, n + 1) = Append(Upto(t, chars, n), chars[n + 1])
  BY <1>2, <1>3, OneMore, AppendRight DEF Upto
<1> QED BY <1>2, <1>4, <1>5, MoreIs

LEMMA UptoEnds ==
  ASSUME NEW t \in Seq(Chars), NEW chars \in Seq(Chars)
  PROVE  Upto(t, chars, 0) = t /\ Upto(t, chars, Len(chars)) = t \o chars
<1>1. SubSeq(chars, 1, 0) = <<>> /\ SubSeq(chars, 1, Len(chars)) = chars
  BY SubSeqEmpty, SubSeqFull
<1> QED BY <1>1, ConcatEmptySeq DEF Upto

(* A stretch, learnt behind the text before it.                            *)
LEMMA LearntMulti ==
  ASSUME NEW t \in Seq(Chars), Recent(t, <<>>), NEW chars \in Seq(Chars \ Stops)
  PROVE  Learnt(Multi(t), chars) = Multi(t \o chars)
<1>1. chars \in Seq(Chars) /\ Len(chars) \in Nat
  BY SeqMonotonic, LenProperties
<1>2. PICK u : IsLearnt(Multi(t), chars, u, Len(chars)) /\ Learnt(Multi(t), chars) = u[Len(chars)].words
  BY <1>1, LearntIs
<1>3. \A k \in 0..Len(chars) : u[k] = LearntStep(Multi(t), chars, u, k)
  BY <1>2 DEF IsLearnt
<1> DEFINE Right(n) == Recent(Upto(t, chars, n), u[n].preWords) /\ u[n].words = Multi(Upto(t, chars, n))
           P == {n \in Nat : n <= Len(chars) => Right(n)}
<1>4. 0 \in P
  <2>1. u[0] = [preWords |-> <<>>, words |-> Multi(t)]
    BY <1>1, <1>3 DEF LearntStep
  <2>2. Upto(t, chars, 0) = t
    BY <1>1, UptoEnds
  <2>3. u[0].preWords = <<>> /\ u[0].words = Multi(t)
    BY <2>1
  <2>4. Right(0)
    BY <2>2, <2>3
  <2> QED BY <2>4
<1>5. ASSUME NEW n \in Nat, n \in P PROVE n + 1 \in P
  <2> SUFFICES ASSUME n + 1 <= Len(chars) PROVE Right(n + 1)
    OBVIOUS
  <2>1. n < Len(chars) /\ n + 1 \in 0..Len(chars) /\ n + 1 \in 1..Len(chars) /\ n + 1 # 0 /\ (n + 1) - 1 = n
    BY <1>1
  <2>2. Right(n)
    BY <1>1, <1>5, <2>1
  <2>3. u[n + 1] = JoinTo(u[n], chars[n + 1])
    BY <1>3, <2>1 DEF LearntStep
  <2>4. IsMore(Upto(t, chars, n), chars[n + 1], Upto(t, chars, n + 1))
    BY <1>1, <2>1, UptoMore
  <2>5. chars[n + 1] \notin Stops
    BY <2>1, ElementOfSeq
  <2> QED BY <2>2, <2>3, <2>4, <2>5, JoinMulti
<1>6. \A n \in Nat : n \in P
  <2> HIDE DEF P
  <2> QED BY <1>4, <1>5, InductionFromZero
<1>7. Right(Len(chars))
  BY <1>1, <1>6
<1>8. Upto(t, chars, Len(chars)) = t \o chars
  BY <1>1, UptoEnds
<1> QED BY <1>2, <1>7, <1>8

(* learn() leaves one character alone: it ends no run.                     *)
LEMMA SingleMulti ==
  ASSUME NEW t \in Seq(Chars), Recent(t, <<>>), NEW chars \in Seq(Chars \ Stops), Len(chars) = 1
  PROVE  Multi(t \o chars) = Multi(t)
<1>1. chars \in Seq(Chars)
  BY SeqMonotonic
<1>2. chars[1] \notin Stops
  BY ElementOfSeq
<1>3. PICK n : n = 0
  OBVIOUS
<1>4. n \in Nat /\ n < Len(chars) /\ n + 1 = 1 /\ n + 1 = Len(chars)
  BY <1>3
<1>5. IsMore(t, chars[1], t \o chars)
  <2>1. IsMore(Upto(t, chars, n), chars[n + 1], Upto(t, chars, n + 1))
    BY <1>1, <1>4, UptoMore
  <2>2. Upto(t, chars, n) = t /\ Upto(t, chars, n + 1) = t \o chars
    BY <1>1, <1>3, <1>4, UptoEnds
  <2> QED BY <1>4, <2>1, <2>2
<1>6. {Joint(<<>>, k, chars[1]) : k \in DOMAIN <<>>} = RunsEnding(t \o chars)
  BY <1>2, <1>5, JointIsEnding
<1>7. RunsEnding(t \o chars) = {}
  BY <1>6
<1>8. Multi(t \o chars) = Multi(t) (+) SetToBag({})
  BY <1>5, <1>7, MultiChar
<1>9. Multi(t) (+) SetToBag({}) = Multi(t)
  <2>1. \A w \in RunsOf(t) : Multi(t)[w] \in Nat
    <3> SUFFICES ASSUME NEW w \in RunsOf(t) PROVE Cardinality(Places(t, w)) \in Nat
      BY DEF Multi
    <3>1. w \in Seq(Chars)
      BY RunsAre, RunShape
    <3> QED BY <3>1, PlacesFinite
  <2>2. Multi(t) = [w \in RunsOf(t) |-> Multi(t)[w]] /\ DOMAIN Multi(t) = RunsOf(t)
    BY DEF Multi
  <2> QED BY <2>1, <2>2 DEF (+), SetToBag
<1> QED BY <1>8, <1>9

(* Nor do stops.                                                           *)
LEMMA StopsMulti ==
  ASSUME NEW t \in Seq(Chars), NEW chars \in Seq(Stops)
  PROVE  Multi(t \o chars) = Multi(t)
<1>1. chars \in Seq(Chars) /\ Len(chars) \in Nat
  BY SeqMonotonic, LenProperties, OstrichAssumption
<1> DEFINE P == {n \in Nat : n <= Len(chars) => Multi(Upto(t, chars, n)) = Multi(t)}
<1>2. 0 \in P
  BY <1>1, UptoEnds
<1>3. ASSUME NEW n \in Nat, n \in P PROVE n + 1 \in P
  <2> SUFFICES ASSUME n + 1 <= Len(chars) PROVE Multi(Upto(t, chars, n + 1)) = Multi(t)
    OBVIOUS
  <2>1. n < Len(chars) /\ n + 1 \in 1..Len(chars)
    BY <1>1
  <2>2. IsMore(Upto(t, chars, n), chars[n + 1], Upto(t, chars, n + 1))
    BY <1>1, <2>1, UptoMore
  <2>3. chars[n + 1] \in Stops
    BY <2>1, ElementOfSeq
  <2>4. Multi(Upto(t, chars, n)) = Multi(t)
    BY <1>1, <1>3, <2>1
  <2> QED BY <2>2, <2>3, <2>4, MultiStop
<1>4. \A n \in Nat : n \in P
  <2> HIDE DEF P
  <2> QED BY <1>2, <1>3, InductionFromZero
<1>5. Multi(Upto(t, chars, Len(chars))) = Multi(t)
  BY <1>1, <1>4
<1>6. Upto(t, chars, Len(chars)) = t \o chars
  BY <1>1, UptoEnds
<1> QED BY <1>5, <1>6

-----------------------------------------------------------------------------
(* What multiWordOfOneArticle_ holds at every step *)

(* The text of the first n pieces.                                         *)
Told(s, n) == FlattenSeq(WordsOf(SubSeq(s, 1, n)))

Counted ==
  /\ pc = "learn" => i <= Len(sentences) /\ multiWord = Multi(Told(sentences, i))
  /\ pc = "commit" => multiWord = Multi(article)
  /\ pc \in {"idle", "claw", "sent"} => multiWord = EmptyBag

LEMMA MultiNothing == Multi(<<>>) = EmptyBag
<1>1. RunsOf(<<>>) = {}
  <2>1. ASSUME NEW w \in RunsOf(<<>>) PROVE FALSE
    <3>1. <<>> \in Seq(Chars) /\ Len(<<>>) = 0
      BY EmptySeq
    <3>2. IsRun(w) /\ Places(<<>>, w) # {}
      BY <3>1, RunsAre
    <3>3. PICK p : p \in Places(<<>>, w)
      BY <3>2
    <3>4. Len(w) \in Nat /\ Len(w) >= 2 /\ p \in 0..0 - Len(w)
      BY <3>1, <3>2, <3>3, RunShape DEF Places
    <3> QED BY <3>4
  <2> QED BY <2>1
<1> QED BY <1>1 DEF Multi, EmptyBag, SetToBag

LEMMA ToldType ==
  ASSUME NEW s \in Seq(Pieces), NEW n \in 0..Len(s)
  PROVE  SubSeq(s, 1, n) \in Seq(Pieces) /\ Told(s, n) \in Seq(Chars)
<1>1. Len(s) \in Nat /\ \A k \in 1..n : s[k] \in Pieces
  BY LenProperties, ElementOfSeq
<1>2. SubSeq(s, 1, n) \in Seq(Pieces)
  BY <1>1, SubSeqProperties
<1> QED BY <1>2, WordsType DEF Told

LEMMA ToldMore ==
  ASSUME NEW s \in Seq(Pieces), NEW n \in Nat, n < Len(s)
  PROVE  Told(s, n + 1) = Told(s, n) \o s[n + 1].word
<1>1. Len(s) \in Nat /\ n \in 0..Len(s) /\ n + 1 \in 1..Len(s)
  BY LenProperties
<1>2. SubSeq(s, 1, n) \in Seq(Pieces) /\ s[n + 1] \in Pieces
  BY <1>1, ToldType, ElementOfSeq
<1>3. SubSeq(s, 1, n + 1) = Append(SubSeq(s, 1, n), s[n + 1])
  BY OneMore
<1>4. FlattenSeq(WordsOf(SubSeq(s, 1, n + 1))) = FlattenSeq(WordsOf(SubSeq(s, 1, n))) \o s[n + 1].word
  BY <1>2, <1>3, WordsAppend
<1> QED BY <1>4 DEF Told

LEMMA ToldNothing ==
  ASSUME NEW s
  PROVE  Told(s, 0) = <<>>
<1>1. SubSeq(s, 1, 0) = <<>>
  BY SubSeqEmpty
<1>2. WordsOf(<<>>) = <<>>
  BY DEF WordsOf
<1> QED BY <1>1, <1>2, FlattenEmpty DEF Told

(* The last character of a text that ends in a word.                       *)
LEMMA LastOf ==
  ASSUME NEW t \in Seq(Chars), NEW w \in Seq(Chars), w # <<>>, NEW u, u = t \o w
  PROVE  u \in Seq(Chars) /\ Len(u) \in Nat /\ Len(u) > 0 /\ u[Len(u)] = w[Len(w)]
<1>1. Len(t) \in Nat /\ Len(w) \in Nat /\ Len(w) # 0
  BY LenProperties, EmptySeq
<1>2. /\ u \in Seq(Chars) /\ Len(u) = Len(t) + Len(w)
      /\ \A k \in 1..Len(t) + Len(w) : u[k] = IF k <= Len(t) THEN t[k] ELSE w[k - Len(t)]
  BY ConcatProperties
<1>3. Len(u) \in 1..Len(t) + Len(w) /\ ~ (Len(u) <= Len(t)) /\ Len(u) - Len(t) = Len(w)
  BY <1>1, <1>2
<1> QED BY <1>1, <1>2, <1>3

(* Before a stretch there is a stop, or nothing.                           *)
LEMMA RecentNothing ==
  ASSUME NEW s \in Seq(Pieces), TakeTurns(s), NEW n \in Nat, n < Len(s), s[n + 1].multi
  PROVE  Recent(Told(s, n), <<>>)
<1>1. Len(s) \in Nat /\ n \in 0..Len(s) /\ DOMAIN s = 1..Len(s)
  BY LenProperties
<1>2. PICK t : t = Told(s, n)
  OBVIOUS
<1>3. t \in Seq(Chars) /\ Len(t) \in Nat
  BY <1>1, <1>2, ToldType, LenProperties
<1>4. Len(t) = 0 \/ t[Len(t)] \in Stops
  <2>1. CASE n = 0
    <3>1. t = <<>>
      BY <1>2, <2>1, ToldNothing
    <3> QED BY <3>1
  <2>2. CASE n # 0
    <3>1. PICK m : m = n - 1
      OBVIOUS
    <3>2. m \in Nat /\ m + 1 = n /\ m < Len(s) /\ m \in 0..Len(s) /\ n \in 1..Len(s)
      BY <1>1, <2>2, <3>1
    <3>3. t = Told(s, m) \o s[n].word
      BY <1>2, <3>2, ToldMore
    <3>4. s[n] \in Pieces /\ s[n + 1] \in Pieces
      BY <1>1, <3>2, ElementOfSeq
    <3>5. s[n + 1].multi # s[n].multi
      <4>1. n + 1 \in DOMAIN s /\ n + 1 > 1 /\ (n + 1) - 1 = n
        BY <1>1, <3>2
      <4> QED BY <4>1 DEF TakeTurns
    <3>6. s[n].multi \in BOOLEAN /\ s[n + 1].multi \in BOOLEAN
      BY <3>4, PieceShape
    <3>7. ~ s[n].multi
      BY <3>5, <3>6
    <3>8. s[n].word \in Seq(Stops) /\ s[n].word \in Seq(Chars) /\ s[n].word # <<>>
      BY <3>4, <3>7, PieceShape
    <3>9. t[Len(t)] = s[n].word[Len(s[n].word)]
      <4>1. Told(s, m) \in Seq(Chars)
        BY <3>2, ToldType
      <4> QED BY <3>3, <3>8, <4>1, LastOf
    <3>10. Len(s[n].word) \in 1..Len(s[n].word)
      BY <3>8, EmptySeq
    <3> QED BY <3>8, <3>9, <3>10, ElementOfSeq
  <2> QED BY <2>1, <2>2
<1>5. <<>> \in Seq(Chars \ Stops) /\ Len(<<>>) = 0
  BY EmptySeq
<1>6. EndsWith(t, <<>>)
  BY <1>3, <1>5 DEF EndsWith, Stands
<1>7. maxWordLength_ \in Nat /\ maxWordLength_ >= 2
  BY OstrichAssumption
<1>8. Recent(t, <<>>)
  BY <1>3, <1>4, <1>5, <1>6, <1>7 DEF Recent
<1> QED BY <1>2, <1>8

(* The next piece.                                                         *)
LEMMA PieceMulti ==
  ASSUME NEW s \in Seq(Pieces), TakeTurns(s), NEW n \in Nat, n < Len(s)
  PROVE  (IF s[n + 1].multi /\ Len(s[n + 1].word) >= 2 THEN Learnt(Multi(Told(s, n)), s[n + 1].word)
                                                      ELSE Multi(Told(s, n)))
           = Multi(Told(s, n + 1))
<1>1. PICK w, multi : w = s[n + 1].word /\ multi = s[n + 1].multi
  OBVIOUS
<1>2. Len(s) \in Nat /\ n \in 0..Len(s) /\ n + 1 \in 1..Len(s)
  BY LenProperties
<1>3. s[n + 1] \in Pieces
  BY <1>2, ElementOfSeq
<1>4. /\ w \in Seq(Chars) /\ w # <<>> /\ multi \in BOOLEAN /\ Len(w) \in Nat /\ Len(w) # 0
      /\ multi => w \in Seq(Chars \ Stops)
      /\ ~ multi => w \in Seq(Stops)
  BY <1>1, <1>3, PieceShape, EmptySeq, LenProperties
<1>5. PICK t : t = Told(s, n)
  OBVIOUS
<1>6. t \in Seq(Chars) /\ Told(s, n + 1) = t \o w
  BY <1>1, <1>2, <1>5, ToldType, ToldMore
<1>7. CASE ~ multi
  BY <1>1, <1>4, <1>5, <1>6, <1>7, StopsMulti
<1>8. CASE multi
  <2>1. Recent(t, <<>>) /\ w \in Seq(Chars \ Stops)
    BY <1>1, <1>4, <1>5, <1>8, RecentNothing
  <2>2. CASE Len(w) >= 2
    BY <1>1, <1>5, <1>6, <1>8, <2>1, <2>2, LearntMulti
  <2>3. CASE ~ (Len(w) >= 2)
    <3>1. Len(w) = 1
      <4>1. PICK m : m = Len(w)
        OBVIOUS
      <4>2. m \in Nat /\ m # 0 /\ ~ (m >= 2)
        BY <1>4, <2>3, <4>1
      <4>3. m = 1
        BY <4>2
      <4> QED BY <4>1, <4>3
    <3> QED BY <1>1, <1>5, <1>6, <2>1, <2>3, <3>1, SingleMulti
  <2> QED BY <2>2, <2>3
<1> QED BY <1>7, <1>8

LEMMA CountStep ==
  ASSUME IInv, Counted, [Next]_vars PROVE Counted'
<1>1. Typed /\ Waiting /\ Spelt /\ TakeTurns(sentences)
  BY DEF IInv
<1>2. sentences \in Seq(Pieces) /\ i \in Nat /\ Len(sentences) \in Nat
  BY <1>1, LenProperties DEF Typed
<1>3. ASSUME NEW text \in Articles, Begin(text) PROVE Counted'
  BY <1>3 DEF Counted, Begin
<1>4. CASE ClawStop \/ ClawChar
  BY <1>4 DEF Counted, ClawStop, ClawChar
<1>5. CASE ClawEnd
  <2>1. pc = "claw" /\ pc' = "learn" /\ i' = 0 /\ multiWord' = multiWord
    BY <1>5 DEF ClawEnd
  <2>2. multiWord = EmptyBag
    BY <2>1 DEF Counted
  <2>3. Told(sentences', 0) = <<>>
    BY ToldNothing
  <2>4. Len(sentences') \in Nat
    <3>1. IInv'
      BY <1>5, CutStep
    <3> QED BY <3>1, LenProperties DEF IInv, Typed
  <2> QED BY <2>1, <2>2, <2>3, <2>4, MultiNothing DEF Counted
<1>6. CASE Learn
  <2>1. /\ pc = "learn" /\ pc' = "learn" /\ i < Len(sentences) /\ i' = i + 1 /\ sentences' = sentences
        /\ multiWord' = IF sentences[i + 1].multi /\ Len(sentences[i + 1].word) >= 2
                        THEN Learnt(multiWord, sentences[i + 1].word) ELSE multiWord
    BY <1>6 DEF Learn
  <2>2. multiWord = Multi(Told(sentences, i))
    BY <2>1 DEF Counted
  <2>3. multiWord' = Multi(Told(sentences, i + 1))
    BY <1>1, <1>2, <2>1, <2>2, PieceMulti
  <2> QED BY <1>2, <2>1, <2>3 DEF Counted
<1>7. CASE LearnEnd
  <2>1. pc = "learn" /\ pc' = "commit" /\ i = Len(sentences) /\ multiWord' = multiWord /\ article' = article
    BY <1>7 DEF LearnEnd
  <2>2. multiWord = Multi(FlattenSeq(WordsOf(sentences)))
    <3>1. SubSeq(sentences, 1, i) = sentences
      BY <1>2, <2>1, SubSeqFull
    <3> QED BY <2>1, <3>1 DEF Counted, Told
  <2>3. FlattenSeq(WordsOf(sentences)) = article
    <3>1. FlattenSeq(WordsOf(sentences)) \in Seq(Chars)
      BY <1>2, WordsType
    <3>2. FlattenSeq(WordsOf(sentences)) \o <<>> \o <<>> = article
      BY <1>1, <2>1 DEF Waiting, Spelt, Seen
    <3> QED BY <3>1, <3>2, ConcatEmptySeq
  <2> QED BY <2>1, <2>2, <2>3 DEF Counted
<1>8. CASE Commit
  BY <1>8 DEF Counted, Commit
<1>9. CASE UNCHANGED vars
  BY <1>9 DEF Counted, vars
<1> QED BY <1>3, <1>4, <1>5, <1>6, <1>7, <1>8, <1>9 DEF Next

(* learn() with its one list preWords counts every run of an article, of   *)
(* two to maxWordLength_ neighbours and without a stop, exactly as often   *)
(* as it stands there, and nothing of an article before it.                *)
THEOREM RunsCounted == Spec => []CountsExact
<1>1. Init => IInv /\ Counted
  BY InitCut DEF Init, Counted
<1>2. IInv /\ Counted /\ [Next]_vars => (IInv /\ Counted)'
  BY CutStep, CountStep
<1>3. IInv /\ Counted => CountsExact
  BY DEF Counted, CountsExact, Multi
<1> QED BY <1>1, <1>2, <1>3, PTL DEF Spec

-----------------------------------------------------------------------------
(* Lists of a set *)

(* q has each element of E once, and no other.                             *)
Lists(q, E) ==
  /\ q \in Seq(E)
  /\ \A a, b \in 1..Len(q) : q[a] = q[b] => a = b
  /\ \A e \in E : \E k \in 1..Len(q) : q[k] = e

LEMMA ListsRange ==
  ASSUME NEW E, NEW q, Lists(q, E)
  PROVE  Range(q) = E /\ Len(q) = Cardinality(E)
<1>1. q \in Seq(E) /\ Len(q) \in Nat /\ DOMAIN q = 1..Len(q) /\ q \in [1..Len(q) -> E]
  BY LenProperties DEF Lists
<1>2. Range(q) = E
  BY <1>1 DEF Lists, Range
<1>3. q \in Bijection(1..Len(q), E)
  BY <1>1 DEF Lists, Bijection, Injection, Surjection, IsInjective
<1>4. IsFiniteSet(1..Len(q)) /\ Cardinality(1..Len(q)) = Len(q)
  BY <1>1, FS_Interval, SMTT(60)
<1>5. Cardinality(E) = Cardinality(1..Len(q))
  BY <1>3, <1>4, FS_Bijection DEF ExistsBijection
<1> QED BY <1>2, <1>4, <1>5

LEMMA ListsNothing == Lists(<<>>, {})
BY EmptySeq DEF Lists

LEMMA ListsConcat ==
  ASSUME NEW E, NEW F, NEW q, NEW r, Lists(q, E), Lists(r, F), E \cap F = {}
  PROVE  Lists(q \o r, E \cup F)
<1>1. /\ q \in Seq(E) /\ r \in Seq(F) /\ q \in Seq(E \cup F) /\ r \in Seq(E \cup F)
      /\ Len(q) \in Nat /\ Len(r) \in Nat
  BY SeqMonotonic, LenProperties DEF Lists
<1>2. PICK s : s = q \o r
  OBVIOUS
<1>3. /\ s \in Seq(E \cup F) /\ Len(s) = Len(q) + Len(r)
      /\ \A k \in 1..Len(q) + Len(r) : s[k] = IF k <= Len(q) THEN q[k] ELSE r[k - Len(q)]
  BY <1>1, <1>2, ConcatProperties
<1>4. ASSUME NEW k \in 1..Len(q) PROVE k \in 1..Len(s) /\ s[k] = q[k] /\ s[k] \in E
  <2>1. k \in 1..Len(q) + Len(r) /\ k <= Len(q)
    BY <1>1
  <2>2. q[k] \in E
    BY <1>1, ElementOfSeq
  <2> QED BY <1>3, <2>1, <2>2
<1>5. ASSUME NEW k \in 1..Len(r) PROVE Len(q) + k \in 1..Len(s) /\ s[Len(q) + k] = r[k] /\ r[k] \in F
  <2>1. Len(q) + k \in 1..Len(q) + Len(r) /\ ~ (Len(q) + k <= Len(q)) /\ (Len(q) + k) - Len(q) = k
    BY <1>1
  <2>2. r[k] \in F
    BY <1>1, ElementOfSeq
  <2> QED BY <1>3, <2>1, <2>2
<1>6. ASSUME NEW k \in 1..Len(s), ~ (k \in 1..Len(q)) PROVE \E m \in 1..Len(r) : k = Len(q) + m
  <2>1. k - Len(q) \in 1..Len(r) /\ k = Len(q) + (k - Len(q))
    BY <1>1, <1>3, <1>6
  <2> QED BY <2>1
<1>7. ASSUME NEW a \in 1..Len(s), NEW b \in 1..Len(s), s[a] = s[b] PROVE a = b
  <2>1. CASE a \in 1..Len(q) /\ b \in 1..Len(q)
    BY <1>4, <1>7, <2>1 DEF Lists
  <2>2. CASE a \in 1..Len(q) /\ ~ (b \in 1..Len(q))
    BY <1>4, <1>5, <1>6, <1>7, <2>2
  <2>3. CASE ~ (a \in 1..Len(q)) /\ b \in 1..Len(q)
    BY <1>4, <1>5, <1>6, <1>7, <2>3
  <2>4. CASE ~ (a \in 1..Len(q)) /\ ~ (b \in 1..Len(q))
    <3>1. PICK m \in 1..Len(r), n \in 1..Len(r) : a = Len(q) + m /\ b = Len(q) + n
      BY <1>6, <2>4
    <3>2. r[m] = r[n]
      BY <1>5, <1>7, <3>1
    <3>3. m = n
      BY <3>2 DEF Lists
    <3> QED BY <3>1, <3>3
  <2> QED BY <2>1, <2>2, <2>3, <2>4
<1>8. ASSUME NEW e \in E \cup F PROVE \E k \in 1..Len(s) : s[k] = e
  <2>1. CASE e \in E
    <3>1. PICK k \in 1..Len(q) : q[k] = e
      BY <2>1 DEF Lists
    <3> QED BY <1>4, <3>1
  <2>2. CASE e \in F
    <3>1. PICK k \in 1..Len(r) : r[k] = e
      BY <2>2 DEF Lists
    <3> QED BY <1>5, <3>1
  <2> QED BY <2>1, <2>2
<1> QED BY <1>2, <1>3, <1>7, <1>8 DEF Lists

(* SetToSeq makes such a list.                                             *)
LEMMA SetToSeqLists ==
  ASSUME NEW S, IsFiniteSet(S)
  PROVE  Lists(SetToSeq(S), S)
<1>1. PICK n : n = Cardinality(S)
  OBVIOUS
<1>2. n \in Nat /\ ExistsBijection(1..n, S)
  BY <1>1, FS_CardinalityType
<1>3. \E f \in [1..n -> S] : IsInjective(f)
  BY <1>2 DEF ExistsBijection, Bijection, Injection
<1>4. PICK q : q = SetToSeq(S)
  OBVIOUS
<1>5. q \in [1..n -> S] /\ IsInjective(q)
  BY <1>1, <1>3, <1>4 DEF SetToSeq
<1>6. q \in Injection(1..n, S)
  BY <1>5 DEF Injection
<1>7. Cardinality(1..n) = n
  BY <1>2, FS_Interval
<1>8. q \in Surjection(1..n, S)
  BY <1>1, <1>6, <1>7, FS_Injection
<1>9. q \in Seq(S) /\ Len(q) = n
  BY <1>2, <1>5
<1>10. DOMAIN q = 1..n
  BY <1>5
<1>11. \A a, b \in 1..Len(q) : q[a] = q[b] => a = b
  BY <1>5, <1>9, <1>10 DEF IsInjective
<1>12. \A e \in S : \E k \in 1..Len(q) : q[k] = e
  BY <1>8, <1>9 DEF Surjection
<1> QED BY <1>4, <1>9, <1>11, <1>12 DEF Lists

-----------------------------------------------------------------------------
(* The ranking *)

(* The words that are sent, of the counts in S, and their entries.         *)
Kept(S) == {w \in DOMAIN multiWord : multiWord[w] \in S /\ ~ IsShort(w)}
Entry(w) == <<w, multiWord[w] \div minWordRepeateTimes_>>
Listed(S) == {Entry(w) : w \in Kept(S)}

LEMMA EntriesLists ==
  ASSUME NEW n, IsFiniteSet(DOMAIN multiWord)
  PROVE  Lists(Entries(n), Listed({n}))
<1> DEFINE W == {w \in OfCount(n) : ~ IsShort(w)}
<1>1. W = Kept({n})
  BY DEF OfCount, Kept
<1>2. IsFiniteSet(W)
  BY FS_Subset DEF OfCount
<1>3. PICK words : words = SetToSeq(W)
  OBVIOUS
<1>4. Lists(words, Kept({n}))
  BY <1>1, <1>2, <1>3, SetToSeqLists
<1>5. PICK q : q = Entries(n)
  OBVIOUS
<1>6. q = [k \in DOMAIN words |-> <<words[k], n \div minWordRepeateTimes_>>]
  BY <1>3, <1>5 DEF Entries
<1>7. words \in Seq(Kept({n})) /\ Len(words) \in Nat /\ DOMAIN words = 1..Len(words)
  BY <1>4, LenProperties DEF Lists
<1>8. ASSUME NEW k \in 1..Len(words)
      PROVE  /\ words[k] \in Kept({n}) /\ q[k] = <<words[k], n \div minWordRepeateTimes_>>
             /\ q[k] = Entry(words[k])
  <2>1. words[k] \in Kept({n})
    BY <1>7, ElementOfSeq
  <2>2. multiWord[words[k]] = n
    BY <2>1 DEF Kept
  <2> QED BY <1>6, <1>7, <2>1, <2>2 DEF Entry
<1>9. \A k \in 1..Len(words) : q[k] \in Listed({n})
  BY <1>8 DEF Listed
<1>10. q \in Seq(Listed({n})) /\ Len(q) = Len(words)
  <2>1. PICK m : m = Len(words)
    OBVIOUS
  <2>2. PICK L : L = Listed({n})
    OBVIOUS
  <2>3. m \in Nat /\ q \in [1..m -> L]
    BY <1>6, <1>7, <1>9, <2>1, <2>2
  <2>4. q \in Seq(L) /\ Len(q) = m
    <3> HIDE DEF W
    <3> QED BY <2>3
  <2> QED BY <2>1, <2>2, <2>4
<1>11. ASSUME NEW a \in 1..Len(q), NEW b \in 1..Len(q), q[a] = q[b] PROVE a = b
  <2>1. words[a] = words[b]
    BY <1>8, <1>10, <1>11
  <2> QED BY <1>4, <1>10, <2>1 DEF Lists
<1>12. ASSUME NEW e \in Listed({n}) PROVE \E k \in 1..Len(q) : q[k] = e
  <2>1. PICK w \in Kept({n}) : e = Entry(w)
    BY DEF Listed
  <2>2. PICK k \in 1..Len(words) : words[k] = w
    BY <1>4 DEF Lists
  <2> QED BY <1>8, <1>10, <2>1, <2>2
<1> QED BY <1>5, <1>10, <1>11, <1>12 DEF Lists

(* What the function in Ranking says of each set of counts.                *)
RankStep(u, S) == IF S = {} THEN <<>> ELSE Entries(Min(S)) \o u[S \ {Min(S)}]
IsRank(C, u) == u = [S \in SUBSET C |-> RankStep(u, S)]

LEMMA MinOut ==
  ASSUME NEW C, IsFiniteSet(C), C \subseteq Nat, NEW S \in SUBSET C, S # {}
  PROVE  /\ Min(S) \in S /\ S \ {Min(S)} \in SUBSET C
         /\ Cardinality(S) \in Nat /\ Cardinality(S \ {Min(S)}) \in Nat
         /\ Cardinality(S \ {Min(S)}) + 1 = Cardinality(S)
<1>1. S \subseteq Nat
  OBVIOUS
<1>2. \E n \in S : \A m \in S : n <= m
  BY <1>1, LeastNatural
<1>3. PICK n : n = Min(S)
  OBVIOUS
<1>4. n \in S
  BY <1>2, <1>3 DEF Min
<1>5. IsFiniteSet(S)
  BY FS_Subset
<1>6. IsFiniteSet(S \ {n}) /\ Cardinality(S \ {n}) = Cardinality(S) - 1
  BY <1>4, <1>5, FS_RemoveElement
<1>7. Cardinality(S) \in Nat /\ Cardinality(S \ {n}) \in Nat
  BY <1>5, <1>6, FS_CardinalityType
<1>8. S \ {n} \in SUBSET C
  OBVIOUS
<1>9. Cardinality(S \ {n}) + 1 = Cardinality(S)
  <2>1. \A a, b \in Nat : a = b - 1 => a + 1 = b
    OBVIOUS
  <2> QED BY <1>6, <1>7, <2>1
<1> QED BY <1>3, <1>4, <1>7, <1>8, <1>9

(* Induction over sets of counts, for a property given as a set.           *)
LEMMA CountsInduction ==
  ASSUME NEW C, IsFiniteSet(C), C \subseteq Nat, NEW P, {} \in P,
         \A S \in SUBSET C : S # {} /\ S \ {Min(S)} \in P => S \in P
  PROVE  \A S \in SUBSET C : S \in P
<1> DEFINE Q == {n \in Nat : \A S \in SUBSET C : Cardinality(S) <= n => S \in P}
<1>1. 0 \in Q
  <2> SUFFICES ASSUME NEW S \in SUBSET C, Cardinality(S) <= 0 PROVE S \in P
    OBVIOUS
  <2>1. IsFiniteSet(S) /\ Cardinality(S) \in Nat
    BY FS_Subset, FS_CardinalityType
  <2>2. Cardinality(S) = 0
    BY <2>1
  <2> QED BY <2>1, <2>2, FS_EmptySet
<1>2. ASSUME NEW n \in Nat, n \in Q PROVE n + 1 \in Q
  <2> SUFFICES \A S \in SUBSET C : Cardinality(S) <= n + 1 => S \in P
    BY <1>2
  <2> SUFFICES ASSUME NEW S \in SUBSET C, Cardinality(S) <= n + 1, S # {} PROVE S \in P
    OBVIOUS
  <2>1. /\ S \ {Min(S)} \in SUBSET C
        /\ Cardinality(S) \in Nat /\ Cardinality(S \ {Min(S)}) \in Nat
        /\ Cardinality(S \ {Min(S)}) + 1 = Cardinality(S)
    BY MinOut
  <2>2. Cardinality(S \ {Min(S)}) <= n
    BY <2>1
  <2>3. S \ {Min(S)} \in P
    BY <1>2, <2>1, <2>2
  <2> QED BY <2>3
<1>3. \A n \in Nat : n \in Q
  <2> HIDE DEF Q
  <2> QED BY <1>1, <1>2, InductionFromZero
<1>4. \A S \in SUBSET C : Cardinality(S) \in Nat
  BY FS_Subset, FS_CardinalityType
<1> QED BY <1>3, <1>4

LEMMA RankExists ==
  ASSUME NEW C, IsFiniteSet(C), C \subseteq Nat
  PROVE  \E u : IsRank(C, u)
<1> DEFINE P == {n \in Nat : \E u : \A S \in SUBSET C : Cardinality(S) <= n => u[S] = RankStep(u, S)}
<1>1. 0 \in P
  <2>1. PICK u : u = [S \in SUBSET C |-> <<>>]
    OBVIOUS
  <2>2. ASSUME NEW S \in SUBSET C, Cardinality(S) <= 0 PROVE u[S] = RankStep(u, S)
    <3>1. IsFiniteSet(S) /\ Cardinality(S) \in Nat
      BY FS_Subset, FS_CardinalityType
    <3>2. Cardinality(S) = 0
      BY <2>2, <3>1
    <3>3. S = {}
      BY <3>1, <3>2, FS_EmptySet
    <3> QED BY <2>1, <3>3 DEF RankStep
  <2> QED BY <2>2
<1>2. ASSUME NEW n \in Nat, n \in P PROVE n + 1 \in P
  <2>1. PICK u : \A S \in SUBSET C : Cardinality(S) <= n => u[S] = RankStep(u, S)
    BY <1>2
  <2>2. PICK v : v = [S \in SUBSET C |-> IF Cardinality(S) <= n THEN u[S] ELSE RankStep(u, S)]
    OBVIOUS
  <2>3. ASSUME NEW S \in SUBSET C, Cardinality(S) <= n + 1 PROVE v[S] = RankStep(v, S)
    <3>1. v[S] = RankStep(u, S)
      BY <2>1, <2>2
    <3>2. S # {} => v[S \ {Min(S)}] = u[S \ {Min(S)}]
      <4> SUFFICES ASSUME S # {} PROVE v[S \ {Min(S)}] = u[S \ {Min(S)}]
        OBVIOUS
      <4>1. /\ S \ {Min(S)} \in SUBSET C
            /\ Cardinality(S) \in Nat /\ Cardinality(S \ {Min(S)}) \in Nat
            /\ Cardinality(S \ {Min(S)}) + 1 = Cardinality(S)
        BY MinOut
      <4>2. Cardinality(S \ {Min(S)}) <= n
        BY <2>3, <4>1
      <4> QED BY <2>2, <4>1, <4>2
    <3> QED BY <3>1, <3>2 DEF RankStep
  <2> QED BY <2>3
<1>3. \A n \in Nat : n \in P
  <2> HIDE DEF P
  <2> QED BY <1>1, <1>2, InductionFromZero
<1>4. Cardinality(C) \in Nat /\ \A S \in SUBSET C : Cardinality(S) <= Cardinality(C)
  BY FS_CardinalityType, FS_Subset
<1>5. PICK u : \A S \in SUBSET C : u[S] = RankStep(u, S)
  BY <1>3, <1>4
<1>6. PICK v : v = [S \in SUBSET C |-> u[S]]
  OBVIOUS
<1>7. \A S \in SUBSET C : v[S] = RankStep(v, S)
  BY <1>5, <1>6 DEF RankStep
<1> QED BY <1>6, <1>7 DEF IsRank

LEMMA RankingIs ==
  ASSUME IsFiniteSet(Counts), Counts \subseteq Nat
  PROVE  \E u : IsRank(Counts, u) /\ Ranking = u[Counts]
<1> DEFINE Body(w) == [S \in SUBSET Counts |-> IF S = {} THEN <<>> ELSE Entries(Min(S)) \o w[S \ {Min(S)}]]
           v == CHOOSE w : w = Body(w)
<1>1. PICK u : IsRank(Counts, u)
  BY RankExists
<1>2. u = Body(u)
  BY <1>1 DEF IsRank, RankStep
<1>3. v = Body(v)
  BY <1>2
<1>4. IsRank(Counts, v)
  <2>1. Body(v) = [S \in SUBSET Counts |-> RankStep(v, S)]
    <3> HIDE DEF v
    <3> QED BY DEF RankStep
  <2> HIDE DEF v
  <2> QED BY <1>3, <2>1 DEF IsRank
<1>5. Ranking = v[Counts]
  BY DEF Ranking
<1> QED BY <1>4, <1>5

(* The ranking lists the words kept of all counts, each once.              *)
LEMMA RankingLists ==
  ASSUME IsFiniteSet(Counts), Counts \subseteq Nat, IsFiniteSet(DOMAIN multiWord)
  PROVE  Lists(Ranking, Listed(Counts))
<1>1. PICK u : IsRank(Counts, u) /\ Ranking = u[Counts]
  BY RankingIs
<1>2. \A S \in SUBSET Counts : u[S] = RankStep(u, S)
  BY <1>1 DEF IsRank
<1> DEFINE P == {S \in SUBSET Counts : Lists(u[S], Listed(S))}
<1>3. {} \in P
  <2>1. Listed({}) = {}
    BY DEF Listed, Kept
  <2> QED BY <1>2, <2>1, ListsNothing DEF RankStep
<1>4. ASSUME NEW S \in SUBSET Counts, S # {}, S \ {Min(S)} \in P PROVE S \in P
  <2>1. PICK n : n = Min(S)
    OBVIOUS
  <2>2. n \in S /\ S \ {n} \in SUBSET Counts /\ Lists(u[S \ {n}], Listed(S \ {n}))
    BY <1>4, <2>1, MinOut
  <2>3. u[S] = Entries(n) \o u[S \ {n}]
    BY <1>2, <1>4, <2>1 DEF RankStep
  <2>4. Listed(S) = Listed({n}) \cup Listed(S \ {n})
    BY <2>2 DEF Listed, Kept
  <2>5. Listed({n}) \cap Listed(S \ {n}) = {}
    <3> SUFFICES ASSUME NEW e \in Listed({n}), e \in Listed(S \ {n}) PROVE FALSE
      OBVIOUS
    <3>1. PICK w \in Kept({n}), x \in Kept(S \ {n}) : e = Entry(w) /\ e = Entry(x)
      BY DEF Listed
    <3>2. w = x
      BY <3>1 DEF Entry
    <3> QED BY <3>1, <3>2 DEF Kept
  <2>6. Lists(Entries(n), Listed({n}))
    BY EntriesLists
  <2>7. Lists(Entries(n) \o u[S \ {n}], Listed({n}) \cup Listed(S \ {n}))
    BY <2>2, <2>5, <2>6, ListsConcat
  <2> QED BY <2>3, <2>4, <2>7
<1>5. \A S \in SUBSET Counts : S \in P
  <2> HIDE DEF P
  <2> QED BY <1>3, <1>4, CountsInduction
<1> QED BY <1>1, <1>5

-----------------------------------------------------------------------------
(* The lists of at most ChunkWords words *)

LEMMA Divided ==
  ASSUME NEW a \in Nat, NEW n \in Nat, n > 0
  PROVE  a = n * (a \div n) + (a % n) /\ a \div n \in Nat /\ a % n \in 0..n - 1
OBVIOUS

LEMMA RestOf ==
  ASSUME NEW n \in Nat, n > 0, NEW q \in Nat, NEW r \in 0..n - 1
  PROVE  (n * q + r) % n = r
OBVIOUS

LEMMA RestMore ==
  ASSUME NEW a \in Nat, NEW n \in Nat, n > 0
  PROVE  (a + 1) % n = IF (a % n) + 1 = n THEN 0 ELSE (a % n) + 1
<1>1. PICK q \in Nat, r \in 0..n - 1 : q = a \div n /\ r = a % n /\ a = n * q + r
  BY Divided
<1>2. CASE r + 1 = n
  <2>1. a + 1 = n * (q + 1) + 0
    BY <1>1, <1>2
  <2>2. (n * (q + 1) + 0) % n = 0
    BY RestOf
  <2> QED BY <1>1, <1>2, <2>1, <2>2
<1>3. CASE r + 1 # n
  <2>1. a + 1 = n * q + (r + 1) /\ r + 1 \in 0..n - 1
    BY <1>1, <1>3
  <2>2. (n * q + (r + 1)) % n = r + 1
    BY <2>1, RestOf
  <2> QED BY <1>1, <1>3, <2>1, <2>2
<1> QED BY <1>2, <1>3

(* What the function in Chunks(r) says of its first n places.              *)
ChunkStep(r, u, k) ==
  IF k = 0 THEN [out |-> <<>>, open |-> <<>>, iCounter |-> 1] ELSE PutEntry(u[k - 1], r[k])
IsChunks(r, u, n) == u = [k \in 0..n |-> ChunkStep(r, u, k)]

LEMMA ChunksExist ==
  ASSUME NEW r, NEW n \in Nat
  PROVE  \E u : IsChunks(r, u, n)
<1> DEFINE P == {m \in Nat : \E u : IsChunks(r, u, m)}
<1>1. 0 \in P
  <2>1. PICK u : u = [k \in 0..0 |-> [out |-> <<>>, open |-> <<>>, iCounter |-> 1]]
    OBVIOUS
  <2> QED BY <2>1 DEF IsChunks, ChunkStep
<1>2. ASSUME NEW m \in Nat, m \in P PROVE m + 1 \in P
  <2>1. PICK u : IsChunks(r, u, m)
    BY <1>2
  <2>2. PICK e : e = PutEntry(u[m], r[m + 1])
    OBVIOUS
  <2>3. PICK v : v = [k \in 0..m + 1 |-> IF k = m + 1 THEN e ELSE u[k]]
    OBVIOUS
  <2>4. ASSUME NEW k \in 0..m + 1 PROVE v[k] = ChunkStep(r, v, k)
    <3>1. CASE k = m + 1
      <4>1. k # 0 /\ k - 1 = m /\ m \in 0..m + 1 /\ m # m + 1
        BY <3>1
      <4>2. v[m] = u[m] /\ v[k] = e
        BY <2>3, <3>1, <4>1
      <4> QED BY <2>2, <3>1, <4>1, <4>2 DEF ChunkStep
    <3>2. CASE k # m + 1
      <4>1. k \in 0..m /\ v[k] = u[k]
        BY <2>3, <3>2
      <4>2. u[k] = ChunkStep(r, u, k)
        BY <2>1, <4>1 DEF IsChunks
      <4>3. k # 0 => k - 1 \in 0..m + 1 /\ k - 1 # m + 1 /\ v[k - 1] = u[k - 1]
        BY <2>3, <4>1
      <4> QED BY <4>1, <4>2, <4>3 DEF ChunkStep
    <3> QED BY <3>1, <3>2
  <2>5. IsChunks(r, v, m + 1)
    BY <2>3, <2>4 DEF IsChunks
  <2> QED BY <2>5
<1>3. \A m \in Nat : m \in P
  <2> HIDE DEF P
  <2> QED BY <1>1, <1>2, InductionFromZero
<1> QED BY <1>3

LEMMA ChunksIs ==
  ASSUME NEW r, Len(r) \in Nat
  PROVE  \E u : IsChunks(r, u, Len(r)) /\ Chunks(r) = u[Len(r)]
<1> DEFINE Body(w) == [k \in 0..Len(r) |->
                         IF k = 0 THEN [out |-> <<>>, open |-> <<>>, iCounter |-> 1]
                         ELSE PutEntry(w[k - 1], r[k])]
           v == CHOOSE w : w = Body(w)
<1>1. PICK u : IsChunks(r, u, Len(r))
  BY ChunksExist
<1>2. u = Body(u)
  BY <1>1 DEF IsChunks, ChunkStep
<1>3. v = Body(v)
  BY <1>2
<1>4. IsChunks(r, v, Len(r))
  <2>1. Body(v) = [k \in 0..Len(r) |-> ChunkStep(r, v, k)]
    <3> HIDE DEF v
    <3> QED BY DEF ChunkStep
  <2> HIDE DEF v
  <2> QED BY <1>3, <2>1 DEF IsChunks
<1>5. Chunks(r) = v[Len(r)]
  BY DEF Chunks
<1> QED BY <1>4, <1>5

(* How long the lists of out may be.                                       *)
InBound(out) ==
  \A k \in DOMAIN out : Len(out[k]) < ChunkWords + (IF k = 1 THEN 0 ELSE 1)

LEMMA InBoundAppend ==
  ASSUME NEW S, NEW out \in Seq(Seq(S)), NEW e \in Seq(S), InBound(out),
         Len(e) < ChunkWords + (IF out = <<>> THEN 0 ELSE 1)
  PROVE  InBound(Append(out, e))
<1>1. PICK t : t = Append(out, e)
  OBVIOUS
<1>2. /\ t \in Seq(Seq(S)) /\ Len(t) = Len(out) + 1 /\ Len(out) \in Nat
      /\ \A k \in 1..Len(out) : t[k] = out[k]
      /\ t[Len(out) + 1] = e
      /\ DOMAIN t = 1..Len(t) /\ DOMAIN out = 1..Len(out)
  BY <1>1, AppendProperties, LenProperties
<1>3. out # <<>> => Len(out) + 1 # 1
  BY <1>2, EmptySeq
<1>4. out = <<>> => Len(out) + 1 = 1
  BY EmptySeq
<1>5. ASSUME NEW k \in 1..Len(t) PROVE Len(t[k]) < ChunkWords + (IF k = 1 THEN 0 ELSE 1)
  <2>1. CASE k = Len(out) + 1
    BY <1>2, <1>3, <1>4, <2>1
  <2>2. CASE k # Len(out) + 1
    <3>1. k \in 1..Len(out)
      BY <1>2, <2>2
    <3> QED BY <1>2, <3>1 DEF InBound
  <2> QED BY <2>1, <2>2
<1> QED BY <1>1, <1>5 DEF InBound

(* After n entries of r: the lists spell them, the counter of a worker of  *)
(* the service stands at the words of the open list, one more while that   *)
(* is the first, and the other worker has only the one list.               *)
Chunked(acc, r, n, S) ==
  /\ acc.out \in Seq(Seq(S)) /\ acc.open \in Seq(S) /\ acc.iCounter \in Nat
  /\ FlattenSeq(acc.out) \o acc.open = SubSeq(r, 1, n)
  /\ ipfs => acc.out = <<>> /\ acc.iCounter = 1
  /\ ~ ipfs => acc.iCounter % ChunkWords = Len(acc.open) + (IF acc.out = <<>> THEN 1 ELSE 0)
  /\ InBound(acc.out)

LEMMA ChunkMore ==
  ASSUME ipfs \in BOOLEAN, NEW S, NEW r \in Seq(S), NEW n \in Nat, n < Len(r),
         NEW acc, Chunked(acc, r, n, S)
  PROVE  Chunked(PutEntry(acc, r[n + 1]), r, n + 1, S)
<1>1. ChunkWords \in Nat /\ ChunkWords > 1 /\ ChunkWords > 0
  BY OstrichAssumption
<1>2. PICK e \in S : e = r[n + 1]
  <2>1. n + 1 \in 1..Len(r)
    BY LenProperties
  <2> QED BY <2>1, ElementOfSeq
<1>3. PICK out \in Seq(Seq(S)), open \in Seq(S), c \in Nat :
        out = acc.out /\ open = acc.open /\ c = acc.iCounter
  BY DEF Chunked
<1>4. PICK longer : longer = Append(open, e)
  OBVIOUS
<1>5. longer \in Seq(S) /\ Len(longer) = Len(open) + 1 /\ Len(open) \in Nat
  BY <1>4, AppendProperties, LenProperties
<1>6. PICK d : d = c + (IF ipfs THEN 0 ELSE 1)
  OBVIOUS
<1>7. d \in Nat /\ (ipfs => d = c) /\ (~ ipfs => d = c + 1)
  BY <1>6
<1>8. PutEntry(acc, e) = [out |-> IF d % ChunkWords = 0 THEN Append(out, longer) ELSE out,
                          open |-> IF d % ChunkWords = 0 THEN <<>> ELSE longer,
                          iCounter |-> d]
  BY <1>3, <1>4, <1>6 DEF PutEntry
<1>9. FlattenSeq(out) \o longer = SubSeq(r, 1, n + 1)
  <2>1. FlattenSeq(out) \in Seq(S)
    BY FlattenType
  <2>2. FlattenSeq(out) \o longer = Append(FlattenSeq(out) \o open, e)
    BY <1>4, <2>1, AppendRight
  <2>3. FlattenSeq(out) \o open = SubSeq(r, 1, n)
    BY <1>3 DEF Chunked
  <2>4. SubSeq(r, 1, n + 1) = Append(SubSeq(r, 1, n), r[n + 1])
    BY OneMore
  <2> QED BY <1>2, <2>2, <2>3, <2>4
<1>10. InBound(out) /\ (ipfs => out = <<>> /\ c = 1)
       /\ (~ ipfs => c % ChunkWords = Len(open) + (IF out = <<>> THEN 1 ELSE 0))
  BY <1>3 DEF Chunked
<1>11. PICK m \in 0..ChunkWords - 1 : m = c % ChunkWords
  BY <1>1, Divided
<1>12. ~ ipfs => d % ChunkWords = IF m + 1 = ChunkWords THEN 0 ELSE m + 1
  <2>1. (c + 1) % ChunkWords = IF (c % ChunkWords) + 1 = ChunkWords THEN 0 ELSE (c % ChunkWords) + 1
    BY ONLY c \in Nat, <1>1, RestMore
  <2> QED BY ONLY <1>7, <1>11, <2>1
<1>13. ipfs => d % ChunkWords = 1
  <2>1. 1 % ChunkWords = 1
    <3>1. (ChunkWords * 0 + 1) % ChunkWords = 1
      BY <1>1, RestOf, SMTT(60)
    <3>2. ChunkWords * 0 + 1 = 1
      BY <1>1
    <3> QED BY <3>1, <3>2
  <2> QED BY <1>7, <1>10, <2>1
<1>14. CASE d % ChunkWords = 0
  <2>1. ~ ipfs /\ m + 1 = ChunkWords
    BY <1>11, <1>12, <1>13, <1>14
  <2>2. Len(open) + (IF out = <<>> THEN 1 ELSE 0) + 1 = ChunkWords
    BY <1>10, <1>11, <2>1
  <2>3. Len(longer) < ChunkWords + (IF out = <<>> THEN 0 ELSE 1)
    BY <1>1, <1>5, <2>2
  <2>4. InBound(Append(out, longer))
    BY <1>5, <1>10, <2>3, InBoundAppend
  <2>5. FlattenSeq(Append(out, longer)) \o <<>> = SubSeq(r, 1, n + 1)
    <3>1. FlattenSeq(Append(out, longer)) = FlattenSeq(out) \o longer
      BY <1>5, FlattenAppend
    <3>2. FlattenSeq(out) \o longer \in Seq(S)
      BY <1>5, FlattenType, ConcatProperties
    <3> QED BY <1>9, <3>1, <3>2, ConcatEmptySeq
  <2>6. Append(out, longer) \in Seq(Seq(S)) /\ Append(out, longer) # <<>>
        /\ <<>> \in Seq(S) /\ Len(<<>>) = 0
    BY <1>5, AppendProperties, EmptySeq
  <2>7. PICK more : more = Append(out, longer)
    OBVIOUS
  <2>8. PutEntry(acc, e) = [out |-> more, open |-> <<>>, iCounter |-> d]
    BY <1>8, <1>14, <2>7
  <2> QED BY <1>2, <1>7, <1>14, <2>1, <2>4, <2>5, <2>6, <2>7, <2>8, SMTT(60) DEF Chunked
<1>15. CASE d % ChunkWords # 0
  <2>1. PutEntry(acc, e) = [out |-> out, open |-> longer, iCounter |-> d]
    BY <1>8, <1>15
  <2>2. ~ ipfs => d % ChunkWords = Len(longer) + (IF out = <<>> THEN 1 ELSE 0)
    <3> SUFFICES ASSUME ~ ipfs PROVE d % ChunkWords = Len(longer) + (IF out = <<>> THEN 1 ELSE 0)
      OBVIOUS
    <3>1. d % ChunkWords = m + 1 /\ m = Len(open) + (IF out = <<>> THEN 1 ELSE 0)
      BY <1>10, <1>11, <1>12, <1>15
    <3> QED BY <1>5, <3>1
  <2>3. PICK next : next = PutEntry(acc, e)
    OBVIOUS
  <2>4. next.out = out /\ next.open = longer /\ next.iCounter = d
    BY <2>1, <2>3
  <2>5. ipfs => next.out = <<>> /\ next.iCounter = 1
    BY <1>7, <1>10, <2>4
  <2>6. ~ ipfs => next.iCounter % ChunkWords = Len(next.open) + (IF next.out = <<>> THEN 1 ELSE 0)
    BY <2>2, <2>4
  <2>7. next.out \in Seq(Seq(S)) /\ next.open \in Seq(S) /\ next.iCounter \in Nat /\ InBound(next.out)
    BY <1>5, <1>7, <1>10, <2>4
  <2>8. FlattenSeq(next.out) \o next.open = SubSeq(r, 1, n + 1)
    BY <1>9, <2>4
  <2>9. Chunked(next, r, n + 1, S)
    BY <2>5, <2>6, <2>7, <2>8 DEF Chunked
  <2> QED BY <1>2, <2>3, <2>9
<1> QED BY <1>14, <1>15

LEMMA ChunksChunked ==
  ASSUME ipfs \in BOOLEAN, NEW S, NEW r \in Seq(S)
  PROVE  Chunked(Chunks(r), r, Len(r), S)
<1>1. Len(r) \in Nat
  BY LenProperties
<1>2. PICK u : IsChunks(r, u, Len(r)) /\ Chunks(r) = u[Len(r)]
  BY <1>1, ChunksIs
<1>3. ASSUME NEW k \in 0..Len(r) PROVE u[k] = ChunkStep(r, u, k)
  BY <1>2 DEF IsChunks
<1> DEFINE P == {n \in Nat : n <= Len(r) => Chunked(u[n], r, n, S)}
<1>4. 0 \in P
  <2>1. u[0] = [out |-> <<>>, open |-> <<>>, iCounter |-> 1]
    BY <1>1, <1>3 DEF ChunkStep
  <2>2. <<>> \in Seq(S) /\ <<>> \in Seq(Seq(S)) /\ Len(<<>>) = 0
    BY EmptySeq
  <2>3. FlattenSeq(<<>>) \o <<>> = SubSeq(r, 1, 0)
    <3>1. <<>> \o <<>> = <<>>
      BY <2>2, ConcatEmptySeq
    <3>2. SubSeq(r, 1, 0) = <<>>
      BY SubSeqEmpty
    <3> QED BY FlattenEmpty, <3>1, <3>2
  <2>4. 1 % ChunkWords = 1
    <3>1. ChunkWords \in Nat /\ ChunkWords > 0 /\ 1 \in 0..ChunkWords - 1 /\ ChunkWords * 0 + 1 = 1
      BY OstrichAssumption
    <3> QED BY <3>1, RestOf
  <2>5. InBound(<<>>)
    BY <2>2 DEF InBound
  <2>6. Chunked(u[0], r, 0, S)
    BY <2>1, <2>2, <2>3, <2>4, <2>5 DEF Chunked
  <2> QED BY <2>6
<1>5. ASSUME NEW n \in Nat, n \in P PROVE n + 1 \in P
  <2> SUFFICES ASSUME n + 1 <= Len(r) PROVE Chunked(u[n + 1], r, n + 1, S)
    OBVIOUS
  <2>1. n < Len(r) /\ n + 1 \in 0..Len(r) /\ n + 1 # 0 /\ (n + 1) - 1 = n
    BY <1>1
  <2>2. Chunked(u[n], r, n, S)
    BY <1>1, <1>5, <2>1
  <2>3. u[n + 1] = PutEntry(u[n], r[n + 1])
    BY <1>3, <2>1 DEF ChunkStep
  <2> QED BY <2>1, <2>2, <2>3, ChunkMore
<1>6. \A n \in Nat : n \in P
  <2> HIDE DEF P
  <2> QED BY <1>4, <1>5, InductionFromZero
<1> QED BY <1>1, <1>2, <1>6

-----------------------------------------------------------------------------
(* The word lists spell the ranking *)

LEMMA UploadsSpell ==
  ASSUME ipfs \in BOOLEAN, NEW S, Ranking \in Seq(S), Counts = {} <=> Ranking = <<>>
  PROVE  /\ FlattenSeq(PickupWordRanking) = Ranking
         /\ ~ ipfs => InBound(PickupWordRanking)
         /\ ipfs => Len(PickupWordRanking) <= 1
         /\ ipfs \/ PickupWordRanking # <<>>
<1>1. PICK r \in Seq(S) : r = Ranking
  OBVIOUS
<1>2. Len(r) \in Nat
  BY LenProperties
<1>3. PICK acc : acc = Chunks(r) /\ Chunked(acc, r, Len(r), S)
  BY ChunksChunked
<1>4. PICK out \in Seq(Seq(S)), open \in Seq(S), c \in Nat :
        out = acc.out /\ open = acc.open /\ c = acc.iCounter
  BY <1>3 DEF Chunked
<1>5. PICK ups : ups = PickupWordRanking
  OBVIOUS
<1>6. ups = out \o (IF open = <<>> THEN <<>> ELSE <<open>>)
                \o (IF Counts = {} /\ ~ ipfs THEN << <<>> >> ELSE <<>>)
  <2>1. Chunks(Ranking) = acc
    BY ONLY <1>1, <1>3
  <2>2. PickupWordRanking = Chunks(Ranking).out
                              \o (IF Chunks(Ranking).open = <<>> THEN <<>> ELSE <<Chunks(Ranking).open>>)
                              \o (IF Counts = {} /\ ~ ipfs THEN << <<>> >> ELSE <<>>)
    BY ONLY ZenonT(60) DEF PickupWordRanking
  <2> QED BY ONLY <1>4, <1>5, <2>1, <2>2, Zenon
<1>7. FlattenSeq(out) \o open = r
  <2>1. SubSeq(r, 1, Len(r)) = r
    BY SubSeqFull
  <2> QED BY <1>3, <1>4, <2>1 DEF Chunked
<1>8. /\ ipfs => out = <<>>
      /\ ~ ipfs => c % ChunkWords = Len(open) + (IF out = <<>> THEN 1 ELSE 0)
      /\ InBound(out)
  BY <1>3, <1>4 DEF Chunked
<1>9. Len(open) \in Nat /\ FlattenSeq(out) \in Seq(S) /\ Len(<<>>) = 0
      /\ <<>> \in Seq(S) /\ <<>> \in Seq(Seq(S))
  BY LenProperties, FlattenType, EmptySeq
<1>10. ChunkWords \in Nat /\ ChunkWords > 1
  BY OstrichAssumption
<1>11. CASE Counts = {}
  <2>1. r = <<>> /\ Len(r) = 0
    BY <1>1, <1>9, <1>11
  <2>2. out = <<>> /\ open = <<>>
    <3>1. PICK u : IsChunks(r, u, Len(r)) /\ acc = u[Len(r)]
      BY <1>2, <1>3, ChunksIs
    <3>2. acc = ChunkStep(r, u, 0)
      <4>1. u = [k \in 0..0 |-> ChunkStep(r, u, k)] /\ acc = u[0]
        BY ONLY <2>1, <3>1 DEF IsChunks
      <4>2. 0 \in 0..0
        OBVIOUS
      <4> QED BY ONLY <4>1, <4>2
    <3> QED BY <1>4, <3>2 DEF ChunkStep
  <2>3. CASE ipfs
    <3>1. ups = <<>>
      BY <1>6, <1>9, <2>2, <2>3, ConcatEmptySeq
    <3> QED BY <1>1, <1>5, <1>9, <2>1, <2>3, <3>1, FlattenEmpty
  <2>4. CASE ~ ipfs
    <3>1. << <<>> >> \in Seq(Seq(S)) /\ << <<>> >> = Append(<<>>, <<>>)
      BY <1>9
    <3>2. ups = Append(<<>>, <<>>)
      <4>1. <<>> \o <<>> = <<>> /\ <<>> \o << <<>> >> = << <<>> >>
        BY <1>9, <3>1, ConcatEmptySeq
      <4> QED BY <1>6, <1>11, <2>2, <2>4, <3>1, <4>1
    <3>3. FlattenSeq(ups) = <<>>
      <4>1. FlattenSeq(Append(<<>>, <<>>)) = FlattenSeq(<<>>) \o <<>>
        BY <1>9, FlattenAppend
      <4>2. <<>> \o <<>> = <<>>
        BY <1>9, ConcatEmptySeq
      <4> QED BY <3>2, <4>1, <4>2, FlattenEmpty
    <3>4. InBound(ups)
      <4>1. InBound(<<>>)
        BY <1>9 DEF InBound
      <4>2. Len(<<>>) < ChunkWords + (IF <<>> = <<>> THEN 0 ELSE 1)
        BY <1>9, <1>10
      <4> QED BY <1>9, <3>2, <4>1, <4>2, InBoundAppend
    <3>5. ups # <<>>
      BY <1>9, <3>2, AppendProperties
    <3> QED BY <1>1, <1>5, <2>1, <2>4, <3>3, <3>4, <3>5
  <2> QED BY <2>3, <2>4
<1>12. CASE Counts # {} /\ open = <<>>
  <2>1. ups = out
    BY <1>6, <1>12, ConcatEmptySeq
  <2>2. FlattenSeq(ups) = r
    BY <1>7, <1>9, <1>12, <2>1, ConcatEmptySeq
  <2>3. ups # <<>>
    BY <1>1, <1>12, <2>2, FlattenEmpty
  <2> QED BY <1>1, <1>5, <1>8, <2>1, <2>2, <2>3
<1>13. CASE Counts # {} /\ open # <<>>
  <2>1. ups = Append(out, open)
    <3>1. <<open>> \in Seq(Seq(S)) /\ out \o <<open>> \in Seq(Seq(S))
      BY ConcatProperties
    <3>2. ups = out \o <<open>>
      BY <1>6, <1>13, <3>1, ConcatEmptySeq
    <3> QED BY <3>2, AppendIsConcat
  <2>2. FlattenSeq(ups) = r
    BY <1>7, <2>1, FlattenAppend
  <2>3. ups # <<>> /\ Len(ups) = Len(out) + 1
    BY <2>1, AppendProperties
  <2>4. ASSUME ~ ipfs PROVE InBound(ups)
    <3>1. c % ChunkWords \in 0..ChunkWords - 1
      BY <1>10, Divided
    <3>2. Len(open) < ChunkWords + (IF out = <<>> THEN 0 ELSE 1)
      BY <1>8, <1>9, <1>10, <2>4, <3>1
    <3> QED BY <1>8, <2>1, <3>2, InBoundAppend
  <2>5. ipfs => Len(ups) <= 1
    BY <1>8, <1>9, <2>3
  <2> QED BY <1>1, <1>5, <2>2, <2>3, <2>4, <2>5
<1> QED BY <1>11, <1>12, <1>13

-----------------------------------------------------------------------------
(* Runs within runs *)

LEMMA WithinIs ==
  ASSUME NEW w \in Seq(Chars), NEW v \in Seq(Chars)
  PROVE  Within(w, v) <=> \E p \in 0..Len(v) - Len(w) : Stands(v, w, p)
<1>1. Within(w, v) <=> \E p : p \in Places(v, w)
  BY DEF Within, Places
<1>2. \A p : p \in Places(v, w) <=> p \in 0..Len(v) - Len(w) /\ Stands(v, w, p)
  BY PlacesAre
<1> QED BY <1>1, <1>2

LEMMA WithinLonger ==
  ASSUME NEW w \in Seq(Chars), NEW v \in Seq(Chars), Within(w, v), v # w
  PROVE  Len(w) < Len(v)
<1>1. Len(w) \in Nat /\ Len(v) \in Nat
  BY LenProperties
<1>2. PICK p \in 0..Len(v) - Len(w) : Stands(v, w, p)
  BY WithinIs
<1>3. SUFFICES ASSUME ~ (Len(w) < Len(v)) PROVE FALSE
  OBVIOUS
<1>4. Len(v) = Len(w) /\ p = 0
  BY <1>1, <1>2, <1>3
<1>5. \A j \in 1..Len(w) : v[j] = w[j]
  <2> SUFFICES ASSUME NEW j \in 1..Len(w) PROVE v[j] = w[j]
    OBVIOUS
  <2>1. p + j = j
    BY <1>4
  <2> QED BY <1>2, <2>1 DEF Stands
<1>6. v = w
  BY <1>4, <1>5, SeqEqual
<1> QED BY <1>6

LEMMA WithinTrans ==
  ASSUME NEW a \in Seq(Chars), NEW b \in Seq(Chars), NEW c \in Seq(Chars),
         Within(a, b), Within(b, c)
  PROVE  Within(a, c)
<1>1. Len(a) \in Nat /\ Len(b) \in Nat /\ Len(c) \in Nat
  BY LenProperties
<1>2. PICK p \in 0..Len(b) - Len(a) : Stands(b, a, p)
  BY WithinIs
<1>3. PICK q \in 0..Len(c) - Len(b) : Stands(c, b, q)
  BY WithinIs
<1>4. q + p \in 0..Len(c) - Len(a)
  BY <1>1, <1>2, <1>3
<1>5. ASSUME NEW j \in 1..Len(a) PROVE c[(q + p) + j] = a[j]
  <2>1. p + j \in 1..Len(b) /\ q + (p + j) = (q + p) + j
    BY <1>1, <1>2, <1>3
  <2>2. b[p + j] = a[j]
    BY <1>2 DEF Stands
  <2>3. c[q + (p + j)] = b[p + j]
    BY <1>3, <2>1 DEF Stands
  <2> QED BY <2>1, <2>2, <2>3
<1> QED BY <1>4, <1>5, WithinIs DEF Stands

(* How often a word stands in a text, and the repeated runs that no longer *)
(* one as frequent contains.                                               *)
Often(t, w) == Cardinality(Places(t, w))
Unmatched(t) ==
  {v \in Repeated(t) :
     \A x \in Repeated(t) \ {v} : Often(t, x) = Often(t, v) => ~ Within(v, x)}

(* Every repeated run lies within such a one: take the longest above it.   *)
LEMMA LongestAbove ==
  ASSUME NEW t \in Seq(Chars), NEW w \in Repeated(t)
  PROVE  \E v \in Unmatched(t) : Often(t, v) = Often(t, w) /\ (v = w \/ Within(w, v))
<1> DEFINE Above == {v \in Repeated(t) : Often(t, v) = Often(t, w) /\ (v = w \/ Within(w, v))}
           Gaps == {g \in Nat : \E v \in Above : g = maxWordLength_ - Len(v)}
<1>1. ASSUME NEW v \in Repeated(t)
      PROVE  v \in Seq(Chars) /\ Len(v) \in Nat /\ maxWordLength_ - Len(v) \in Nat
  <2>1. IsRun(v)
    BY RunsAre DEF Repeated
  <2>2. maxWordLength_ \in Nat
    BY OstrichAssumption
  <2> QED BY <2>1, <2>2, RunShape
<1>2. w \in Above
  OBVIOUS
<1>3. Gaps # {}
  BY <1>1, <1>2
<1>4. PICK g \in Gaps : \A h \in Gaps : g <= h
  <2>1. Gaps \subseteq Nat
    OBVIOUS
  <2> HIDE DEF Gaps
  <2> QED BY <1>3, <2>1, LeastNatural
<1>5. PICK v \in Above : g = maxWordLength_ - Len(v)
  OBVIOUS
<1>6. ASSUME NEW x \in Repeated(t) \ {v}, Often(t, x) = Often(t, v), Within(v, x) PROVE FALSE
  <2>1. Len(v) < Len(x)
    BY <1>1, <1>6, WithinLonger
  <2>2. Within(w, x)
    <3>1. CASE v = w
      BY <1>6, <3>1
    <3>2. CASE v # w
      BY <1>1, <1>6, <3>2, WithinTrans
    <3> QED BY <3>1, <3>2
  <2>3. x \in Above
    BY <1>6, <2>2
  <2>4. maxWordLength_ - Len(x) \in Gaps
    BY <1>1, <2>3
  <2>5. maxWordLength_ - Len(v) <= maxWordLength_ - Len(x)
    BY <1>4, <1>5, <2>4
  <2>6. maxWordLength_ \in Nat /\ Len(v) \in Nat /\ Len(x) \in Nat
    BY <1>1, OstrichAssumption
  <2> QED BY <2>1, <2>5, <2>6
<1>7. v \in Unmatched(t)
  BY <1>6 DEF Unmatched
<1> QED BY <1>7

-----------------------------------------------------------------------------
(* What is sent for a text whose runs are counted *)

LEMMA RunsFinite ==
  ASSUME NEW t \in Seq(Chars)
  PROVE  IsFiniteSet(RunsOf(t))
<1>1. Len(t) \in Nat /\ DOMAIN t = 1..Len(t)
  BY LenProperties
<1>2. PICK D : D = DOMAIN t
  OBVIOUS
<1>3. IsFiniteSet(D \X D)
  <2>1. IsFiniteSet(D)
    BY <1>1, <1>2, FS_Interval
  <2> QED BY <2>1, FS_Product
<1>4. PICK f : f = [p \in D \X D |-> Run(t, p[1], p[2])]
  OBVIOUS
<1>5. f \in Surjection(D \X D, Range(f))
  BY <1>4 DEF Surjection, Range
<1>6. IsFiniteSet(Range(f))
  BY <1>3, <1>5, FS_Surjection
<1>7. ASSUME NEW w \in RunsOf(t) PROVE w \in Range(f)
  <2>1. PICK k \in D, l \in D : w = Run(t, k, l)
    BY <1>2 DEF RunsOf
  <2>2. <<k, l>> \in D \X D /\ f[<<k, l>>] = w
    BY <1>4, <2>1
  <2> QED BY <1>4, <2>2 DEF Range
<1> QED BY <1>6, <1>7, FS_Subset

LEMMA MultiCounts ==
  ASSUME NEW t \in Seq(Chars), multiWord = Multi(t)
  PROVE  /\ IsFiniteSet(DOMAIN multiWord) /\ DOMAIN multiWord = RunsOf(t)
         /\ \A w \in RunsOf(t) : multiWord[w] = Often(t, w) /\ Often(t, w) \in Nat
         /\ IsFiniteSet(Counts) /\ Counts \subseteq Nat
<1>1. DOMAIN multiWord = RunsOf(t) /\ \A w \in RunsOf(t) : multiWord[w] = Often(t, w)
  BY DEF Multi, Often
<1>2. \A w \in RunsOf(t) : Often(t, w) \in Nat
  BY RunsAre, RunShape, PlacesFinite DEF Often
<1>3. IsFiniteSet(RunsOf(t))
  BY RunsFinite
<1>4. PICK m : m = multiWord
  OBVIOUS
<1>5. m \in Surjection(RunsOf(t), Range(m))
  <2>1. m = [w \in RunsOf(t) |-> m[w]]
    BY <1>4 DEF Multi
  <2> QED BY <1>1, <1>4, <2>1 DEF Surjection, Range
<1>6. IsFiniteSet(Range(m))
  BY <1>3, <1>5, FS_Surjection
<1>7. Range(m) \subseteq Nat
  BY <1>1, <1>2, <1>4 DEF Range
<1>8. Counts \subseteq Range(m)
  BY <1>4 DEF Counts
<1> QED BY <1>1, <1>2, <1>3, <1>6, <1>7, <1>8, FS_Subset

LEMMA KeptAre ==
  ASSUME NEW t \in Seq(Chars), multiWord = Multi(t)
  PROVE  Kept(Counts) = Unmatched(t)
<1>1. DOMAIN multiWord = RunsOf(t) /\ \A w \in RunsOf(t) : multiWord[w] = Often(t, w)
  BY MultiCounts
<1>2. \A w : w \in Repeated(t) <=> w \in RunsOf(t) /\ Often(t, w) >= minWordRepeateTimes_
  BY DEF Repeated, Often
<1>3. ASSUME NEW w \in RunsOf(t) PROVE multiWord[w] \in Counts <=> w \in Repeated(t)
  BY <1>1, <1>2 DEF Counts, Range
<1>4. ASSUME NEW w \in Repeated(t)
      PROVE  IsShort(w) <=> \E x \in Repeated(t) \ {w} : Often(t, x) = Often(t, w) /\ Within(w, x)
  <2>1. \A x : x \in OfCount(multiWord[w]) <=> x \in RunsOf(t) /\ Often(t, x) = Often(t, w)
    BY <1>1, <1>2 DEF OfCount
  <2>2. \A x : x \in RunsOf(t) /\ Often(t, x) = Often(t, w) => x \in Repeated(t)
    BY <1>2
  <2> QED BY <1>2, <2>1, <2>2 DEF IsShort
<1>5. ASSUME NEW w PROVE w \in Kept(Counts) <=> w \in Unmatched(t)
  <2>1. w \in Kept(Counts) <=> w \in Repeated(t) /\ ~ IsShort(w)
    BY <1>1, <1>2, <1>3 DEF Kept
  <2> QED BY <1>4, <2>1 DEF Unmatched
<1> QED BY <1>5

(* The entries of a text.                                                  *)
EntryIn(t, w) == <<w, Often(t, w) \div minWordRepeateTimes_>>
Named(t) == {EntryIn(t, w) : w \in Unmatched(t)}

LEMMA ListedAre ==
  ASSUME NEW t \in Seq(Chars), multiWord = Multi(t)
  PROVE  Listed(Counts) = Named(t) /\ (Counts = {} <=> Named(t) = {})
<1>1. Kept(Counts) = Unmatched(t)
  BY KeptAre
<1>2. ASSUME NEW w \in Kept(Counts) PROVE Entry(w) = EntryIn(t, w)
  <2>1. multiWord[w] = Often(t, w)
    BY MultiCounts DEF Kept
  <2> QED BY <2>1 DEF Entry, EntryIn
<1>3. Listed(Counts) = Named(t)
  BY <1>1, <1>2 DEF Listed, Named
<1>4. Named(t) = {} <=> Kept(Counts) = {}
  BY <1>1 DEF Named
<1>5. Counts = {} => Kept(Counts) = {}
  BY DEF Kept
<1>6. ASSUME Counts # {} PROVE Kept(Counts) # {}
  <2>1. PICK w \in DOMAIN multiWord : multiWord[w] \in Counts
    BY <1>6 DEF Counts, Range
  <2>2. w \in Repeated(t)
    BY <2>1, MultiCounts DEF Counts, Repeated, Often
  <2> QED BY <1>1, <2>2, LongestAbove
<1> QED BY <1>3, <1>4, <1>5, <1>6

(* RankingExact, of one text, its lists and its learner.                   *)
ExactFor(t, ups, ip) ==
  /\ Len(FlattenSeq(ups)) = Cardinality(Range(FlattenSeq(ups)))
  /\ Range(FlattenSeq(ups)) = Named(t)
  /\ ~ ip => InBound(ups)
  /\ ip => Len(ups) <= 1
  /\ ip \/ ups # <<>>

LEMMA SentExactly ==
  ASSUME ipfs \in BOOLEAN, NEW t \in Seq(Chars), multiWord = Multi(t)
  PROVE  ExactFor(t, PickupWordRanking, ipfs)
<1>1. IsFiniteSet(DOMAIN multiWord) /\ IsFiniteSet(Counts) /\ Counts \subseteq Nat
  BY MultiCounts
<1>2. Lists(Ranking, Named(t))
  BY <1>1, RankingLists, ListedAre
<1>3. Ranking \in Seq(Named(t)) /\ Range(Ranking) = Named(t) /\ Len(Ranking) = Cardinality(Named(t))
  BY <1>2, ListsRange DEF Lists
<1>4. Counts = {} <=> Ranking = <<>>
  <2>1. Counts = {} <=> Named(t) = {}
    BY ListedAre
  <2>2. Ranking = <<>> => Named(t) = {}
    BY <1>3 DEF Range
  <2>3. Named(t) = {} => Ranking = <<>>
    <3>1. Cardinality({}) = 0
      BY FS_EmptySet
    <3> QED BY <1>3, <3>1, EmptySeq
  <2> QED BY <2>1, <2>2, <2>3
<1>5. /\ FlattenSeq(PickupWordRanking) = Ranking
      /\ ~ ipfs => InBound(PickupWordRanking)
      /\ ipfs => Len(PickupWordRanking) <= 1
      /\ ipfs \/ PickupWordRanking # <<>>
  BY <1>3, <1>4, UploadsSpell
<1> QED BY <1>3, <1>5 DEF ExactFor

-----------------------------------------------------------------------------
(* The two properties of what was sent *)

Ranked == ipfs \in BOOLEAN /\ (pc = "sent" => ExactFor(article, uploads, ipfs))

LEMMA RankedStep ==
  ASSUME IInv, Counted, Ranked, [Next]_vars PROVE Ranked'
<1>1. CASE Commit
  <2>1. multiWord = Multi(article) /\ article \in Seq(Chars)
    BY <1>1 DEF Commit, Counted, IInv, Typed
  <2>2. ExactFor(article, PickupWordRanking, ipfs)
    BY <2>1, SentExactly DEF Ranked
  <2>3. uploads' = PickupWordRanking /\ article' = article /\ ipfs' = ipfs
    BY <1>1 DEF Commit
  <2> QED BY <2>2, <2>3 DEF Ranked
<1>2. CASE UNCHANGED vars
  BY <1>2 DEF Ranked, vars
<1>3. ASSUME NEW text \in Articles, Begin(text) PROVE Ranked'
  BY <1>3 DEF Ranked, Begin
<1>4. CASE ClawStop
  BY <1>4 DEF Ranked, ClawStop
<1>5. CASE ClawChar
  BY <1>5 DEF Ranked, ClawChar
<1>6. CASE ClawEnd
  BY <1>6 DEF Ranked, ClawEnd
<1>7. CASE Learn
  BY <1>7 DEF Ranked, Learn
<1>8. CASE LearnEnd
  BY <1>8 DEF Ranked, LearnEnd
<1> QED BY <1>1, <1>2, <1>3, <1>4, <1>5, <1>6, <1>7, <1>8 DEF Next

(* The word lists of an article name its repeated runs, less those a       *)
(* longer one of the same count contains, each once and with its weight,   *)
(* cut in lists as the worker's counter cuts them, and a worker of the     *)
(* service sends at least one list.                                        *)
THEOREM RankingIsExact == Spec => []RankingExact
<1>1. Init => IInv /\ Counted /\ Ranked
  BY InitCut, OstrichAssumption DEF Init, Counted, Ranked
<1>2. IInv /\ Counted /\ Ranked /\ [Next]_vars => (IInv /\ Counted /\ Ranked)'
  BY CutStep, CountStep, RankedStep
<1>3. IInv /\ Counted /\ Ranked => RankingExact
  <2>1. SUFFICES ASSUME Ranked, pc = "sent" PROVE RankingExact
    BY DEF RankingExact
  <2>2. ExactFor(article, uploads, ipfs)
    BY <2>1 DEF Ranked
  <2>3. ~ ipfs => \A k \in DOMAIN uploads : Len(uploads[k]) < ChunkWords + (IF k = 1 THEN 0 ELSE 1)
    BY <2>2 DEF ExactFor, InBound
  <2>4. Named(article) =
          {<<w, Cardinality(Places(article, w)) \div minWordRepeateTimes_>> :
             w \in {v \in Repeated(article) :
                      \A x \in Repeated(article) \ {v} :
                        Cardinality(Places(article, x)) = Cardinality(Places(article, v))
                          => ~ Within(v, x)}}
    BY DEF Named, EntryIn, Unmatched, Often
  <2> QED BY <2>2, <2>3, <2>4 DEF RankingExact, Sent, ExactFor
<1> QED BY <1>1, <1>2, <1>3, PTL DEF Spec

(* Dropping a word that a longer one of the same count contains loses      *)
(* nothing: every repeated run of the article lies within a word that is   *)
(* sent with the weight of that run.                                       *)
THEOREM NothingIsLost == Spec => []NothingRepeatedIsLost
<1>1. Init => IInv /\ Counted /\ Ranked
  BY InitCut, OstrichAssumption DEF Init, Counted, Ranked
<1>2. IInv /\ Counted /\ Ranked /\ [Next]_vars => (IInv /\ Counted /\ Ranked)'
  BY CutStep, CountStep, RankedStep
<1>3. IInv /\ Counted /\ Ranked => NothingRepeatedIsLost
  <2> SUFFICES ASSUME IInv, Ranked, pc = "sent", NEW w \in Repeated(article)
               PROVE  \E e \in Range(Sent) :
                        /\ w = e[1] \/ Within(w, e[1])
                        /\ e[2] = Cardinality(Places(article, w)) \div minWordRepeateTimes_
    BY DEF NothingRepeatedIsLost
  <2>1. Range(Sent) = Named(article)
    BY DEF Ranked, ExactFor, Sent
  <2>2. article \in Seq(Chars)
    BY DEF IInv, Typed
  <2>3. PICK v \in Unmatched(article) : Often(article, v) = Often(article, w) /\ (v = w \/ Within(w, v))
    BY <2>2, LongestAbove
  <2>4. EntryIn(article, v) \in Range(Sent)
    BY <2>1 DEF Named
  <2>5. /\ EntryIn(article, v)[1] = v
        /\ EntryIn(article, v)[2] = Often(article, w) \div minWordRepeateTimes_
    BY <2>3 DEF EntryIn
  <2> QED BY <2>3, <2>4, <2>5 DEF Often
<1> QED BY <1>1, <1>2, <1>3, PTL DEF Spec
=============================================================================
