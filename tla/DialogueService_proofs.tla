----------------------- MODULE DialogueService_proofs -----------------------
(***************************************************************************)
(* Proofs about RedisClient, DialogueService and RedisParser.              *)
(***************************************************************************)
EXTENDS DialogueService, RedisParser, SequenceTheorems, WellFoundedInduction, TLAPS

-----------------------------------------------------------------------------
(* Induction *)

(* A set of natural numbers that is not empty has a least element.         *)
LEMMA LeastNatural ==
  ASSUME NEW T, T \subseteq Nat, T # {}
  PROVE  \E n \in T : \A m \in T : n <= m
<1> DEFINE R == OpToRel(<, Nat)
<1>1. IsWellFoundedOn(R, Nat)
  BY NatLessThanWellFounded
<1>2. PICK n \in T : \A m \in T : ~ (<<m, n>> \in R)
  <2> HIDE DEF R
  <2> QED BY <1>1, WFMin
<1>3. ASSUME NEW m \in T PROVE n <= m
  <2>1. n \in Nat /\ m \in Nat
    OBVIOUS
  <2>2. ~ (<<m, n>> \in R)
    BY <1>2
  <2>3. ~ (m < n)
    BY <2>1, <2>2 DEF OpToRel
  <2> QED BY <2>1, <2>3
<1> QED BY <1>2, <1>3

(* Induction over the natural numbers, for a property given as a set.      *)
LEMMA Induction ==
  ASSUME NEW S, 0 \in S, \A n \in Nat : n \in S => n + 1 \in S
  PROVE  Nat \subseteq S
<1> SUFFICES ASSUME Nat \ S # {} PROVE FALSE
  OBVIOUS
<1>1. PICK n \in Nat \ S : \A m \in Nat \ S : n <= m
  <2>1. Nat \ S \subseteq Nat
    OBVIOUS
  <2> QED BY <2>1, LeastNatural
<1>2. n # 0
  OBVIOUS
<1>3. n - 1 \in Nat /\ ~ (n <= n - 1) /\ (n - 1) + 1 = n
  BY <1>2
<1>4. n - 1 \in S
  BY <1>1, <1>3
<1> QED BY <1>3, <1>4

-----------------------------------------------------------------------------
(* The commands of a sequence *)

(* What the function in Commands(s) says of each prefix.                   *)
Prolong(commands, e) == IF IsCommand(e) THEN Append(commands, e) ELSE commands
IsUpTo(s, u) ==
  /\ u[0] = <<>>
  /\ \A n \in Nat : n < Len(s) => u[n + 1] = Prolong(u[n], s[n + 1])

LEMMA ProlongType ==
  ASSUME NEW E, NEW s \in Seq(E), NEW e \in E
  PROVE  Prolong(s, e) \in Seq(E)
BY DEF Prolong

(* There is one.                                                           *)
LEMMA UpToExists ==
  ASSUME NEW E, NEW s \in Seq(E)
  PROVE  \E u \in [0..Len(s) -> Seq(E)] : IsUpTo(s, u)
<1> DEFINE Good(n) == \E u \in [0..n -> Seq(E)] :
                        /\ u[0] = <<>>
                        /\ \A m \in Nat : m < n => u[m + 1] = Prolong(u[m], s[m + 1])
           S == {n \in Nat : n <= Len(s) => Good(n)}
<1>1. Good(0)
  <2>1. PICK u : u = [m \in 0..0 |-> <<>>]
    OBVIOUS
  <2>2. u \in [0..0 -> Seq(E)] /\ u[0] = <<>>
    BY <2>1
  <2> QED BY <2>2
<1>2. ASSUME NEW n \in Nat, n + 1 <= Len(s), Good(n) PROVE Good(n + 1)
  <2>1. PICK u \in [0..n -> Seq(E)] :
          u[0] = <<>> /\ \A m \in Nat : m < n => u[m + 1] = Prolong(u[m], s[m + 1])
    BY <1>2
  <2>2. Prolong(u[n], s[n + 1]) \in Seq(E)
    <3>1. s[n + 1] \in E /\ u[n] \in Seq(E)
      BY <1>2
    <3> QED BY <3>1, ProlongType
  <2>3. PICK v : v = [m \in 0..n + 1 |-> IF m = n + 1 THEN Prolong(u[n], s[n + 1]) ELSE u[m]]
    OBVIOUS
  <2>4. v \in [0..n + 1 -> Seq(E)] /\ v[0] = <<>>
    BY <2>1, <2>2, <2>3
  <2>5. ASSUME NEW m \in Nat, m < n + 1 PROVE v[m + 1] = Prolong(v[m], s[m + 1])
    <3>1. v[m] = u[m] /\ m \in 0..n
      BY <2>3, <2>5
    <3>2. CASE m = n
      BY <2>3, <3>1, <3>2
    <3>3. CASE m < n
      <4>1. v[m + 1] = u[m + 1]
        BY <2>3, <3>3
      <4> QED BY <2>1, <3>1, <3>3, <4>1
    <3> QED BY <2>5, <3>2, <3>3
  <2> QED BY <2>4, <2>5
<1> HIDE DEF Good
<1>3. 0 \in S
  BY <1>1
<1>4. ASSUME NEW n \in Nat, n \in S PROVE n + 1 \in S
  BY <1>2, <1>4
<1>5. Nat \subseteq S
  <2> HIDE DEF S
  <2> QED BY <1>3, <1>4, Induction
<1>6. Good(Len(s))
  BY <1>5
<1> QED BY <1>6 DEF Good, IsUpTo

(* It is settled by the prefix it is applied to.                           *)
LEMMA UpToUnique ==
  ASSUME NEW E, NEW s \in Seq(E), NEW t \in Seq(E), NEW u, NEW v, IsUpTo(s, u), IsUpTo(t, v),
         NEW k \in Nat, k <= Len(s), k <= Len(t), \A n \in 1..k : s[n] = t[n]
  PROVE  u[k] = v[k]
<1> DEFINE S == {n \in Nat : n <= k => u[n] = v[n]}
<1>1. 0 \in S
  BY DEF IsUpTo
<1>2. ASSUME NEW n \in Nat, n \in S PROVE n + 1 \in S
  <2> SUFFICES ASSUME n + 1 <= k PROVE u[n + 1] = v[n + 1]
    OBVIOUS
  <2>1. u[n] = v[n] /\ s[n + 1] = t[n + 1] /\ n < Len(s) /\ n < Len(t)
    BY <1>2
  <2>2. u[n + 1] = Prolong(u[n], s[n + 1])
    BY <2>1 DEF IsUpTo
  <2>3. v[n + 1] = Prolong(v[n], t[n + 1])
    BY <2>1 DEF IsUpTo
  <2> QED BY <2>1, <2>2, <2>3
<1>3. Nat \subseteq S
  <2> HIDE DEF S
  <2> QED BY <1>1, <1>2, Induction
<1> QED BY <1>3

LEMMA CommandsUpTo ==
  ASSUME NEW E, NEW s \in Seq(E)
  PROVE  \E u : IsUpTo(s, u) /\ Commands(s) = u[Len(s)] /\ u[Len(s)] \in Seq(E)
<1> DEFINE Body(u) == [n \in 0..Len(s) |->
                         IF n = 0 THEN <<>>
                         ELSE IF IsCommand(s[n]) THEN Append(u[n - 1], s[n]) ELSE u[n - 1]]
<1>1. PICK u \in [0..Len(s) -> Seq(E)] : IsUpTo(s, u)
  BY UpToExists
<1>2. u = Body(u)
  <2>1. ASSUME NEW n \in 0..Len(s) PROVE u[n] = Body(u)[n]
    <3>1. CASE n = 0
      BY <1>1, <3>1 DEF IsUpTo
    <3>2. CASE n # 0
      <4>1. n - 1 \in Nat /\ n - 1 < Len(s) /\ (n - 1) + 1 = n
        BY <3>2
      <4>2. u[n] = Prolong(u[n - 1], s[n])
        BY <1>1, <4>1 DEF IsUpTo
      <4> QED BY <3>2, <4>2 DEF Prolong
    <3> QED BY <3>1, <3>2
  <2>2. DOMAIN Body(u) = 0..Len(s) /\ Body(u) = [n \in 0..Len(s) |-> Body(u)[n]]
    OBVIOUS
  <2> HIDE DEF Body
  <2> QED BY <2>1, <2>2
<1>3. PICK v : v = Body(v) /\ Commands(s) = v[Len(s)]
  BY <1>2 DEF Commands
<1>4. IsUpTo(s, v)
  <2>1. v[0] = <<>>
    BY <1>3
  <2>2. ASSUME NEW n \in Nat, n < Len(s) PROVE v[n + 1] = Prolong(v[n], s[n + 1])
    <3>1. n + 1 \in 0..Len(s) /\ n + 1 # 0 /\ (n + 1) - 1 = n
      BY <2>2
    <3>2. Body(v)[n + 1] = Prolong(v[n], s[n + 1])
      BY <3>1 DEF Prolong
    <3> QED BY <1>3, <3>2
  <2> QED BY <2>1, <2>2 DEF IsUpTo
<1>5. u[Len(s)] = v[Len(s)]
  BY <1>1, <1>4, UpToUnique
<1>6. u[Len(s)] \in Seq(E)
  BY <1>1
<1> QED BY <1>3, <1>4, <1>5, <1>6

LEMMA CommandsType ==
  ASSUME NEW E, NEW s \in Seq(E)
  PROVE  Commands(s) \in Seq(E)
BY CommandsUpTo

LEMMA CommandsEmpty == Commands(<<>>) = <<>>
<1>1. <<>> \in Seq({}) /\ Len(<<>>) = 0
  OBVIOUS
<1>2. PICK u : IsUpTo(<<>>, u) /\ Commands(<<>>) = u[Len(<<>>)]
  BY <1>1, CommandsUpTo
<1> QED BY <1>1, <1>2 DEF IsUpTo

LEMMA CommandsAppend ==
  ASSUME NEW E, NEW s \in Seq(E), NEW e \in E
  PROVE  Commands(Append(s, e)) = Prolong(Commands(s), e)
<1>1. PICK t : t = Append(s, e)
  OBVIOUS
<1>2. /\ t \in Seq(E) /\ Len(t) = Len(s) + 1 /\ t[Len(s) + 1] = e /\ Len(s) \in Nat
      /\ \A n \in 1..Len(s) : s[n] = t[n]
  BY <1>1
<1>3. PICK u : IsUpTo(s, u) /\ Commands(s) = u[Len(s)]
  BY CommandsUpTo
<1>4. PICK v : IsUpTo(t, v) /\ Commands(t) = v[Len(t)]
  BY <1>2, CommandsUpTo
<1>5. u[Len(s)] = v[Len(s)]
  BY <1>2, <1>3, <1>4, UpToUnique
<1>6. v[Len(s) + 1] = Prolong(v[Len(s)], t[Len(s) + 1])
  BY <1>2, <1>4 DEF IsUpTo
<1> QED BY <1>1, <1>2, <1>3, <1>4, <1>5, <1>6

(* The first element is the first command or none.                         *)
LEMMA CommandsTail ==
  ASSUME NEW E, NEW s \in Seq(E), s # <<>>
  PROVE  Commands(s) = Prolong(<<>>, Head(s)) \o Commands(Tail(s))
<1>1. PICK t : t = Tail(s)
  OBVIOUS
<1>2. PICK first : first = Prolong(<<>>, Head(s))
  OBVIOUS
<1>3. /\ t \in Seq(E) /\ Len(s) = Len(t) + 1 /\ s[1] = Head(s) /\ Head(s) \in E /\ Len(t) \in Nat
      /\ \A n \in 1..Len(t) : t[n] = s[n + 1]
  BY <1>1
<1>4. first \in Seq(E)
  <2>1. <<>> \in Seq(E)
    OBVIOUS
  <2> QED BY <1>2, <1>3, <2>1, ProlongType
<1>5. PICK u : IsUpTo(s, u) /\ Commands(s) = u[Len(s)]
  BY CommandsUpTo
<1>6. PICK v : IsUpTo(t, v) /\ Commands(t) = v[Len(t)]
  BY <1>3, CommandsUpTo
<1> DEFINE S == {n \in Nat : n <= Len(t) => v[n] \in Seq(E) /\ u[n + 1] = first \o v[n]}
<1>7. 0 \in S
  <2>1. u[0] = <<>> /\ v[0] = <<>> /\ u[0 + 1] = Prolong(u[0], s[0 + 1])
    BY <1>3, <1>5, <1>6 DEF IsUpTo
  <2>2. u[0 + 1] = first
    BY <1>2, <1>3, <2>1
  <2>3. first \o <<>> = first /\ <<>> \in Seq(E)
    BY <1>4
  <2> QED BY <2>1, <2>2, <2>3
<1>8. ASSUME NEW n \in Nat, n \in S PROVE n + 1 \in S
  <2> SUFFICES ASSUME n + 1 <= Len(t)
               PROVE  v[n + 1] \in Seq(E) /\ u[(n + 1) + 1] = first \o v[n + 1]
    OBVIOUS
  <2>1. v[n] \in Seq(E) /\ u[n + 1] = first \o v[n]
    BY <1>3, <1>8
  <2>2. /\ t[n + 1] = s[(n + 1) + 1] /\ t[n + 1] \in E /\ n < Len(t) /\ n + 1 < Len(s)
    BY <1>3
  <2>3. u[(n + 1) + 1] = Prolong(u[n + 1], s[(n + 1) + 1])
    BY <1>5, <2>2 DEF IsUpTo
  <2>4. v[n + 1] = Prolong(v[n], t[n + 1])
    BY <1>6, <2>2 DEF IsUpTo
  <2>5. Prolong(first \o v[n], t[n + 1]) = first \o Prolong(v[n], t[n + 1])
    <3>1. PICK w : w = v[n]
      OBVIOUS
    <3>2. PICK e : e = t[n + 1]
      OBVIOUS
    <3>3. w \in Seq(E) /\ e \in E /\ <<e>> \in Seq(E) /\ first \o w \in Seq(E)
      BY <1>4, <2>1, <2>2, <3>1, <3>2
    <3>4. Append(first \o w, e) = (first \o w) \o <<e>>
      BY <3>3, AppendIsConcat
    <3>5. Append(w, e) = w \o <<e>>
      BY <3>3, AppendIsConcat
    <3>6. (first \o w) \o <<e>> = first \o (w \o <<e>>)
      <4> HIDE DEF S
      <4> QED BY <1>4, <3>3, SMTT(60)
    <3> QED BY <3>1, <3>2, <3>4, <3>5, <3>6 DEF Prolong
  <2> QED BY <2>1, <2>2, <2>3, <2>4, <2>5, ProlongType
<1>9. Nat \subseteq S
  <2> HIDE DEF S
  <2> QED BY <1>7, <1>8, Induction
<1>10. u[Len(t) + 1] = first \o v[Len(t)]
  BY <1>3, <1>9
<1> QED BY <1>1, <1>2, <1>3, <1>5, <1>6, <1>10

-----------------------------------------------------------------------------
(* RepliesMatch for one client, over its queues: handlers, commands among  *)
(* what comes in, the write under way, how much of it was taken, and what  *)
(* is queued behind it.                                                    *)
Match(h, c, w, t, q) == h = c \o SubSeq(w, t + 1, Len(w)) \o q

(* The part of a write that is not taken.                                  *)
LEMMA UntakenType ==
  ASSUME NEW E, NEW w \in Seq(E), NEW t \in Nat
  PROVE  SubSeq(w, t + 1, Len(w)) \in Seq(E)
<1>1. Len(w) \in Int /\ t + 1 \in Int /\ \A i \in t + 1..Len(w) : w[i] \in E
  OBVIOUS
<1> QED BY <1>1, SubSeqProperties

LEMMA MatchStart == Match(<<>>, <<>>, <<>>, 0, <<>>)
<1>1. Len(<<>>) = 0
  OBVIOUS
<1>2. SubSeq(<<>>, 1, 0) = <<>>
  BY SubSeqEmpty
<1> QED BY <1>1, <1>2 DEF Match

(* A command is queued.                                                    *)
LEMMA MatchQueue ==
  ASSUME NEW E, NEW h \in Seq(E), NEW c \in Seq(E), NEW w \in Seq(E), NEW t \in Nat, NEW q \in Seq(E),
         NEW e \in E, Match(h, c, w, t, q)
  PROVE  Match(Append(h, e), c, w, t, Append(q, e))
<1>1. PICK r : r = c \o SubSeq(w, t + 1, Len(w))
  OBVIOUS
<1>2. r \in Seq(E) /\ <<e>> \in Seq(E)
  <2>1. SubSeq(w, t + 1, Len(w)) \in Seq(E)
    BY UntakenType
  <2> QED BY <1>1, <2>1
<1>3. h = r \o q
  BY <1>1 DEF Match
<1>4. Append(h, e) = h \o <<e>> /\ Append(q, e) = q \o <<e>>
  BY AppendIsConcat
<1>5. (r \o q) \o <<e>> = r \o (q \o <<e>>)
  BY <1>2, SMTT(60)
<1> QED BY <1>1, <1>3, <1>4, <1>5 DEF Match

(* A write is done; the next one takes all that is queued.                 *)
LEMMA MatchWritten ==
  ASSUME NEW E, NEW h \in Seq(E), NEW c \in Seq(E), NEW w \in Seq(E), NEW q \in Seq(E),
         Match(h, c, w, Len(w), q)
  PROVE  Match(h, c, q, 0, <<>>)
<1>1. Len(w) \in Nat /\ Len(w) < Len(w) + 1
  OBVIOUS
<1>2. SubSeq(w, Len(w) + 1, Len(w)) = <<>>
  BY <1>1, SubSeqEmpty
<1>3. c \o <<>> = c
  BY ConcatEmptySeq
<1>4. h = c \o q
  BY <1>2, <1>3 DEF Match
<1>5. SubSeq(q, 1, Len(q)) = q
  BY SubSeqFull
<1>6. c \o q \in Seq(E) /\ (c \o q) \o <<>> = c \o q
  BY ConcatEmptySeq
<1> QED BY <1>4, <1>5, <1>6 DEF Match

(* The server takes a command and its reply is on the way.                 *)
LEMMA MatchTaken ==
  ASSUME NEW E, NEW h \in Seq(E), NEW c \in Seq(E), NEW w \in Seq(E), NEW t \in Nat, t < Len(w), NEW q \in Seq(E),
         Match(h, c, w, t, q)
  PROVE  Match(h, Append(c, w[t + 1]), w, t + 1, q)
<1>1. PICK m : m = t + 1
  OBVIOUS
<1>2. m \in 1..Len(w) /\ Len(w) \in m..Len(w) /\ w[m] \in E /\ <<w[m]>> \in Seq(E)
  BY <1>1
<1>3. PICK r : r = SubSeq(w, m + 1, Len(w))
  OBVIOUS
<1>4. r \in Seq(E)
  BY <1>2, <1>3, UntakenType
<1>5. SubSeq(w, m, Len(w)) = <<w[m]>> \o r
  BY <1>2, <1>3, SubSeqRecursiveFirst
<1>6. PICK e : e = <<w[m]>>
  OBVIOUS
<1>7. e \in Seq(E)
  BY <1>2, <1>6
<1>8. (c \o e) \o r = c \o (e \o r)
  BY ONLY c \in Seq(E), <1>4, <1>7, SMTT(60)
<1>9. Append(c, w[m]) = c \o e
  BY <1>2, <1>6, AppendIsConcat
<1> QED BY <1>1, <1>3, <1>5, <1>6, <1>8, <1>9 DEF Match

(* A reply goes to the first handler.                                      *)
LEMMA MatchReplied ==
  ASSUME NEW E, NEW h \in Seq(E), NEW c \in Seq(E), NEW w \in Seq(E), NEW t \in Nat, NEW q \in Seq(E),
         NEW e \in E, Match(h, <<e>> \o c, w, t, q)
  PROVE  h # <<>> /\ Match(Tail(h), c, w, t, q)
<1>1. PICK r : r = SubSeq(w, t + 1, Len(w))
  OBVIOUS
<1>2. r \in Seq(E)
  BY <1>1, UntakenType
<1>3. PICK f : f = <<e>>
  OBVIOUS
<1>4. f \in Seq(E) /\ c \o r \in Seq(E)
  BY <1>2, <1>3
<1>5. (f \o c) \o r = f \o (c \o r)
  <2>1. f \in Seq(E)
    BY <1>4
  <2> QED BY ONLY c \in Seq(E), <1>2, <2>1, SMTT(60)
<1>6. (f \o (c \o r)) \o q = f \o ((c \o r) \o q)
  <2>1. PICK s \in Seq(E) : s = c \o r
    BY <1>4
  <2>2. f \in Seq(E)
    BY <1>4
  <2>3. (f \o s) \o q = f \o (s \o q)
    BY ONLY <2>2, s \in Seq(E), q \in Seq(E), SMTT(60)
  <2> QED BY <2>1, <2>3
<1>7. PICK u \in Seq(E) : u = (c \o r) \o q
  <2>1. (c \o r) \o q \in Seq(E)
    BY <1>4
  <2> QED BY <2>1
<1>8. h = <<e>> \o u
  BY <1>1, <1>3, <1>5, <1>6, <1>7 DEF Match
<1>9. <<e>> \o u # <<>> /\ Tail(<<e>> \o u) = u
  OBVIOUS
<1> QED BY <1>1, <1>7, <1>8, <1>9 DEF Match

-----------------------------------------------------------------------------
(* The inductive invariant *)

Languages == {"ja"} \cup ({r.lang : r \in Requests} \ {None})
Answer == [to : Nat \ {0}, lang : Languages \cup {None}]
Publishes == [cmd : {"publish"}, arg : Answer]
Messages == [cmd : {"message"}, arg : Nat \ {0}]

(* The subscriber sends nothing but its subscription and the publisher     *)
(* nothing but answers; messages come to the subscriber alone.             *)
CommandsOf(c) == IF c = Sub THEN {Subscribe} ELSE Publishes
EntriesOf(c) == IF c = Sub THEN {Subscribe} \cup Messages ELSE Publishes
Entries == {Subscribe} \cup Messages \cup Publishes

ClientTypes ==
  /\ state \in [Clients -> {"None", "Dead", "Unconnected", "Connecting", "Connected", "Subscribed"}]
  /\ over \in [Clients -> BOOLEAN]
  /\ taken \in [Clients -> Nat]
  /\ posted \in [Clients -> Seq(Entries)]
  /\ handlers \in [Clients -> Seq(Entries)]
  /\ dataQueued \in [Clients -> Seq(Entries)]
  /\ dataWrited \in [Clients -> Seq(Entries)]
  /\ incoming \in [Clients -> Seq(Entries)]
ServiceTypes ==
  /\ asked \in Seq(Requests)
  /\ subscribed \in BOOLEAN
  /\ gLang \in Languages
  /\ busy # None => busy \in [to : Nat \ {0}, step : {"lock", "publish", "stale"}, lang : Languages \cup {None}]
  /\ answers \in Seq(Answer)
  /\ handled \subseteq 1..Len(asked)

TypeOK == ClientTypes /\ ServiceTypes

(* A client that is not connected has nothing in its queues; of one that   *)
(* is, the queues match until the connection is broken.                    *)
ClientOK(c) ==
  /\ posted[c] \in Seq(EntriesOf(c))
  /\ handlers[c] \in Seq(CommandsOf(c))
  /\ dataQueued[c] \in Seq(CommandsOf(c))
  /\ dataWrited[c] \in Seq(CommandsOf(c))
  /\ incoming[c] \in Seq(EntriesOf(c))
  /\ taken[c] <= Len(dataWrited[c])
  /\ ~IsConnected(c) => /\ posted[c] = <<>> /\ handlers[c] = <<>> /\ dataQueued[c] = <<>>
                        /\ dataWrited[c] = <<>> /\ incoming[c] = <<>>
  /\ IsConnected(c) /\ ~over[c] =>
       Match(handlers[c], Commands(incoming[c]), dataWrited[c], taken[c], dataQueued[c])

SubscriptionOK == subscribed => IsConnected(Sub) /\ ~over[Sub]

QueuesOK == (\A c \in Clients : ClientOK(c)) /\ SubscriptionOK

-----------------------------------------------------------------------------
(* The queues of one client *)

(* A command for the strand is one of the client's own.                    *)
LEMMA CommandEntry ==
  ASSUME NEW c, NEW e \in EntriesOf(c), IsCommand(e)
  PROVE  e \in CommandsOf(c)
BY DEF EntriesOf, CommandsOf, Messages, IsCommand

LEMMA CommandsAre ==
  ASSUME NEW c
  PROVE  /\ CommandsOf(c) \subseteq EntriesOf(c) /\ EntriesOf(c) \subseteq Entries
         /\ \A e \in CommandsOf(c) : IsCommand(e) /\ ~IsMessage(e)
         /\ \A e \in EntriesOf(c) : IsCommand(e) <=> ~IsMessage(e)
BY DEF EntriesOf, CommandsOf, Entries, Messages, Publishes, Subscribe, IsCommand, IsMessage

(* The commands in what comes in are the client's own.                     *)
LEMMA CommandsOnly ==
  ASSUME NEW c, NEW s \in Seq(EntriesOf(c))
  PROVE  Commands(s) \in Seq(CommandsOf(c))
<1>1. PICK u : IsUpTo(s, u) /\ Commands(s) = u[Len(s)]
  BY CommandsUpTo
<1> DEFINE S == {n \in Nat : n <= Len(s) => u[n] \in Seq(CommandsOf(c))}
<1>2. 0 \in S
  <2>1. u[0] = <<>> /\ <<>> \in Seq(CommandsOf(c))
    BY <1>1 DEF IsUpTo
  <2> QED BY <2>1
<1>3. ASSUME NEW n \in Nat, n \in S PROVE n + 1 \in S
  <2> SUFFICES ASSUME n + 1 <= Len(s) PROVE u[n + 1] \in Seq(CommandsOf(c))
    OBVIOUS
  <2>1. u[n] \in Seq(CommandsOf(c)) /\ n < Len(s) /\ s[n + 1] \in EntriesOf(c)
    BY <1>3
  <2>2. u[n + 1] = Prolong(u[n], s[n + 1])
    BY <1>1, <2>1 DEF IsUpTo
  <2>3. IsCommand(s[n + 1]) => s[n + 1] \in CommandsOf(c)
    BY <2>1, CommandEntry
  <2> QED BY <2>1, <2>2, <2>3 DEF Prolong
<1>4. Nat \subseteq S
  <2> HIDE DEF S
  <2> QED BY <1>2, <1>3, Induction
<1> QED BY <1>1, <1>4

(* What a step leaves alone.                                               *)
LEMMA OtherClient ==
  ASSUME NEW d \in Clients, ClientOK(d),
         state'[d] = state[d], posted'[d] = posted[d], handlers'[d] = handlers[d],
         dataQueued'[d] = dataQueued[d], dataWrited'[d] = dataWrited[d],
         taken'[d] = taken[d], incoming'[d] = incoming[d], over'[d] = over[d]
  PROVE  ClientOK(d)'
BY DEF ClientOK, IsConnected

LEMMA DoAsyncCommandClient ==
  ASSUME NEW c \in Clients, ClientTypes, ClientOK(c), DoAsyncCommand(c)
  PROVE  ClientTypes' /\ ClientOK(c)'
<1>1. PICK e : e = Head(posted[c])
  OBVIOUS
<1>2. e \in CommandsOf(c) /\ e \in Entries
  <2>1. e \in EntriesOf(c) /\ IsCommand(e)
    BY <1>1 DEF ClientOK, DoAsyncCommand
  <2> QED BY <2>1, CommandEntry, CommandsAre
<1>3. /\ posted' = [posted EXCEPT ![c] = Tail(@)]
      /\ handlers' = [handlers EXCEPT ![c] = Append(@, e)]
      /\ dataQueued' = [dataQueued EXCEPT ![c] = IF dataWrited[c] = <<>> THEN <<>> ELSE Append(dataQueued[c], e)]
      /\ dataWrited' = [dataWrited EXCEPT ![c] = IF @ = <<>> THEN Append(dataQueued[c], e) ELSE @]
      /\ UNCHANGED <<state, taken, incoming, over>>
      /\ IsConnected(c) /\ posted[c] # <<>>
  BY <1>1 DEF DoAsyncCommand
<1>4. ClientTypes'
  BY <1>2, <1>3, SMTT(60) DEF ClientTypes
<1>5. /\ posted'[c] = Tail(posted[c]) /\ handlers'[c] = Append(handlers[c], e)
      /\ dataQueued'[c] = IF dataWrited[c] = <<>> THEN <<>> ELSE Append(dataQueued[c], e)
      /\ dataWrited'[c] = IF dataWrited[c] = <<>> THEN Append(dataQueued[c], e) ELSE dataWrited[c]
      /\ state'[c] = state[c] /\ taken'[c] = taken[c] /\ incoming'[c] = incoming[c] /\ over'[c] = over[c]
      /\ taken[c] \in Nat
  BY <1>3 DEF ClientTypes
<1>6. taken'[c] <= Len(dataWrited'[c])
  BY <1>2, <1>5 DEF ClientOK
<1>7. ASSUME ~over[c]
      PROVE  Match(handlers'[c], Commands(incoming'[c]), dataWrited'[c], taken'[c], dataQueued'[c])
  <2>1. Match(handlers[c], Commands(incoming[c]), dataWrited[c], taken[c], dataQueued[c])
    BY <1>3, <1>7 DEF ClientOK
  <2>2. Commands(incoming[c]) \in Seq(CommandsOf(c))
    BY CommandsOnly DEF ClientOK
  <2>3. Match(Append(handlers[c], e), Commands(incoming[c]), dataWrited[c], taken[c], Append(dataQueued[c], e))
    BY <1>2, <1>5, <2>1, <2>2, MatchQueue DEF ClientOK
  <2>4. CASE dataWrited[c] = <<>>
    <3>1. taken[c] = Len(dataWrited[c])
      BY <1>5, <2>4 DEF ClientOK
    <3>2. Match(Append(handlers[c], e), Commands(incoming[c]), Append(dataQueued[c], e), 0, <<>>)
      <4>1. PICK h \in Seq(CommandsOf(c)) : h = Append(handlers[c], e)
        <5>1. Append(handlers[c], e) \in Seq(CommandsOf(c))
          BY <1>2 DEF ClientOK
        <5> QED BY <5>1
      <4>2. PICK q \in Seq(CommandsOf(c)) : q = Append(dataQueued[c], e)
        <5>1. Append(dataQueued[c], e) \in Seq(CommandsOf(c))
          BY <1>2 DEF ClientOK
        <5> QED BY <5>1
      <4>3. Match(h, Commands(incoming[c]), dataWrited[c], Len(dataWrited[c]), q)
        BY <2>3, <3>1, <4>1, <4>2
      <4>4. dataWrited[c] \in Seq(CommandsOf(c))
        BY DEF ClientOK
      <4> QED BY <2>2, <4>1, <4>2, <4>3, <4>4, MatchWritten
    <3>3. taken[c] = 0
      BY <2>4, <3>1
    <3> QED BY <1>5, <2>4, <3>2, <3>3
  <2>5. CASE dataWrited[c] # <<>>
    BY <1>5, <2>3, <2>5
  <2> QED BY <2>4, <2>5
<1>8. /\ posted'[c] \in Seq(EntriesOf(c)) /\ handlers'[c] \in Seq(CommandsOf(c))
      /\ dataQueued'[c] \in Seq(CommandsOf(c)) /\ dataWrited'[c] \in Seq(CommandsOf(c))
      /\ incoming'[c] \in Seq(EntriesOf(c))
  BY <1>2, <1>3, <1>5 DEF ClientOK
<1> QED BY <1>3, <1>4, <1>5, <1>6, <1>7, <1>8 DEF ClientOK, IsConnected

(* Without a connection nothing is queued.                                 *)
LEMMA ConnectingClient ==
  ASSUME NEW c \in Clients, ClientTypes, ClientOK(c), Construct(c) \/ Connect(c) \/ ConnectFails(c)
  PROVE  ClientTypes' /\ ClientOK(c)'
<1>1. /\ UNCHANGED <<posted, handlers, dataQueued, dataWrited, taken, incoming>>
      /\ ~IsConnected(c)
      /\ state' \in {[state EXCEPT ![c] = "Unconnected"], [state EXCEPT ![c] = "Connecting"]}
      /\ over' \in {over, [over EXCEPT ![c] = TRUE]}
  BY DEF Construct, Connect, ConnectFails, IsConnected
<1>2. ClientTypes'
  BY <1>1 DEF ClientTypes
<1>3. state'[c] \in {"Unconnected", "Connecting"}
  BY <1>1 DEF ClientTypes
<1>4. ~IsConnected(c)'
  BY <1>3 DEF IsConnected
<1> QED BY <1>1, <1>2, <1>4 DEF ClientOK

LEMMA HandleAsyncConnectClient ==
  ASSUME NEW c \in Clients, ClientTypes, ClientOK(c), HandleAsyncConnect(c), Subscribers = {Sub}
  PROVE  ClientTypes' /\ ClientOK(c)'
<1>1. /\ UNCHANGED <<handlers, dataQueued, dataWrited, taken, incoming, over>>
      /\ ~IsConnected(c)
      /\ state' = [state EXCEPT ![c] = IF c \in Subscribers THEN "Subscribed" ELSE "Connected"]
      /\ posted' = IF c \in Subscribers THEN [posted EXCEPT ![c] = Append(@, Subscribe)] ELSE posted
  BY DEF HandleAsyncConnect, IsConnected
<1>2. Subscribe \in Entries /\ (c \in Subscribers => Subscribe \in EntriesOf(c))
  BY DEF Entries, EntriesOf
<1>3. ClientTypes'
  BY <1>1, <1>2 DEF ClientTypes
<1>4. posted'[c] \in Seq(EntriesOf(c))
  <2>1. posted'[c] = IF c \in Subscribers THEN Append(posted[c], Subscribe) ELSE posted[c]
    BY <1>1 DEF ClientTypes
  <2> QED BY <1>2, <2>1 DEF ClientOK
<1>5. IsConnected(c)'
  <2>1. state'[c] \in {"Subscribed", "Connected"}
    BY <1>1 DEF ClientTypes
  <2> QED BY <2>1 DEF IsConnected
<1>6. Match(handlers[c], Commands(incoming[c]), dataWrited[c], taken[c], dataQueued[c])
  <2>1. /\ handlers[c] = <<>> /\ dataQueued[c] = <<>> /\ dataWrited[c] = <<>> /\ incoming[c] = <<>>
        /\ taken[c] <= Len(dataWrited[c]) /\ taken[c] \in Nat
    BY <1>1 DEF ClientOK, ClientTypes
  <2>2. taken[c] = 0
    BY <2>1
  <2> QED BY <2>1, <2>2, MatchStart, CommandsEmpty
<1> QED BY <1>1, <1>3, <1>4, <1>5, <1>6 DEF ClientOK

LEMMA ServerTakesClient ==
  ASSUME NEW c \in Clients, ClientTypes, ClientOK(c), ServerTakes(c)
  PROVE  ClientTypes' /\ ClientOK(c)' /\ IsConnected(c)
<1>1. PICK e : e = dataWrited[c][taken[c] + 1]
  OBVIOUS
<1>2. /\ ~over[c] /\ taken[c] < Len(dataWrited[c]) /\ taken[c] \in Nat
      /\ taken' = [taken EXCEPT ![c] = @ + 1]
      /\ incoming' = [incoming EXCEPT ![c] = Append(@, e)]
      /\ UNCHANGED <<state, posted, handlers, dataQueued, dataWrited, over>>
  BY <1>1 DEF ServerTakes, ClientTypes
<1>3. e \in CommandsOf(c) /\ e \in EntriesOf(c) /\ e \in Entries /\ IsCommand(e)
  <2>1. e \in CommandsOf(c)
    BY <1>1, <1>2 DEF ClientOK
  <2> QED BY <2>1, CommandsAre
<1>4. ClientTypes'
  BY <1>2, <1>3 DEF ClientTypes
<1>5. taken'[c] = taken[c] + 1 /\ incoming'[c] = Append(incoming[c], e)
  BY <1>2 DEF ClientTypes
<1>6. IsConnected(c)
  BY <1>2 DEF ClientOK
<1>7. Commands(incoming'[c]) = Append(Commands(incoming[c]), e)
  <2>1. Commands(Append(incoming[c], e)) = Prolong(Commands(incoming[c]), e)
    BY <1>3, CommandsAppend DEF ClientOK
  <2> QED BY <1>3, <1>5, <2>1 DEF Prolong
<1>8. Match(handlers[c], Append(Commands(incoming[c]), e), dataWrited[c], taken[c] + 1, dataQueued[c])
  <2>1. Match(handlers[c], Commands(incoming[c]), dataWrited[c], taken[c], dataQueued[c])
    BY <1>2, <1>6 DEF ClientOK
  <2>2. Commands(incoming[c]) \in Seq(CommandsOf(c))
    BY CommandsOnly DEF ClientOK
  <2> QED BY <1>1, <1>2, <2>1, <2>2, MatchTaken DEF ClientOK
<1>9. incoming'[c] \in Seq(EntriesOf(c)) /\ taken'[c] <= Len(dataWrited'[c])
  <2>1. Len(dataWrited[c]) \in Nat
    BY DEF ClientOK
  <2> QED BY <1>2, <1>3, <1>5, <2>1 DEF ClientOK
<1>10. Match(handlers'[c], Commands(incoming'[c]), dataWrited'[c], taken'[c], dataQueued'[c])
  BY <1>2, <1>5, <1>7, <1>8
<1> QED BY <1>2, <1>4, <1>6, <1>9, <1>10 DEF ClientOK, IsConnected

LEMMA AsyncWriteClient ==
  ASSUME NEW c \in Clients, ClientTypes, ClientOK(c), AsyncWrite(c)
  PROVE  ClientTypes' /\ ClientOK(c)'
<1>1. /\ dataWrited[c] # <<>> /\ taken[c] = Len(dataWrited[c])
      /\ dataWrited' = [dataWrited EXCEPT ![c] = dataQueued[c]]
      /\ dataQueued' = [dataQueued EXCEPT ![c] = <<>>]
      /\ taken' = [taken EXCEPT ![c] = 0]
      /\ UNCHANGED <<state, posted, handlers, incoming, over>>
  BY DEF AsyncWrite
<1>2. ClientTypes'
  BY <1>1 DEF ClientTypes
<1>3. taken'[c] = 0 /\ dataWrited'[c] = dataQueued[c] /\ dataQueued'[c] = <<>>
  BY <1>1 DEF ClientTypes
<1>4. IsConnected(c)
  BY <1>1 DEF ClientOK
<1>5. ASSUME ~over[c]
      PROVE  Match(handlers[c], Commands(incoming[c]), dataQueued[c], 0, <<>>)
  <2>1. Match(handlers[c], Commands(incoming[c]), dataWrited[c], Len(dataWrited[c]), dataQueued[c])
    BY <1>1, <1>4, <1>5 DEF ClientOK
  <2>2. Commands(incoming[c]) \in Seq(CommandsOf(c))
    BY CommandsOnly DEF ClientOK
  <2> QED BY <2>1, <2>2, MatchWritten DEF ClientOK
<1>6. taken'[c] <= Len(dataWrited'[c])
  BY <1>3 DEF ClientOK
<1> QED BY <1>1, <1>2, <1>3, <1>4, <1>5, <1>6 DEF ClientOK, IsConnected

(* A reply always finds its handler.                                       *)
LEMMA AsyncReadClient ==
  ASSUME NEW c \in Clients, ClientTypes, ClientOK(c), AsyncRead(c)
  PROVE  ClientTypes' /\ ClientOK(c)' /\ over' = over
<1>1. PICK e : e = Head(incoming[c])
  OBVIOUS
<1>2. /\ ~over[c] /\ incoming[c] # <<>>
      /\ incoming' = [incoming EXCEPT ![c] = Tail(@)]
      /\ UNCHANGED <<state, dataQueued, dataWrited, taken>>
  BY DEF AsyncRead
<1>3. IsMessage(e) => posted' = [posted EXCEPT ![c] = Append(@, e)] /\ UNCHANGED <<handlers, over>>
  BY <1>1 DEF AsyncRead
<1>4. ~IsMessage(e) => /\ handlers' = [handlers EXCEPT ![c] = IF @ = <<>> THEN @ ELSE Tail(@)]
                       /\ over' = [over EXCEPT ![c] = handlers[c] = <<>>]
                       /\ posted' = posted
  BY <1>1 DEF AsyncRead
<1>5. e \in EntriesOf(c) /\ e \in Entries
  <2>1. e \in EntriesOf(c)
    BY <1>1, <1>2 DEF ClientOK
  <2> QED BY <2>1, CommandsAre
<1>6. ClientTypes'
  <2>1. posted' \in [Clients -> Seq(Entries)]
    <3>1. Append(posted[c], e) \in Seq(Entries)
      BY <1>5 DEF ClientTypes
    <3> QED BY <1>3, <1>4, <3>1 DEF ClientTypes
  <2>2. handlers' \in [Clients -> Seq(Entries)]
    <3>1. handlers[c] # <<>> => Tail(handlers[c]) \in Seq(Entries)
      BY DEF ClientTypes
    <3> QED BY <1>3, <1>4, <3>1, ZenonT(60) DEF ClientTypes
  <2>3. incoming' \in [Clients -> Seq(Entries)]
    BY <1>2 DEF ClientTypes
  <2>4. over' \in [Clients -> BOOLEAN]
    BY <1>3, <1>4 DEF ClientTypes
  <2> QED BY <1>2, <2>1, <2>2, <2>3, <2>4 DEF ClientTypes
<1>7. IsConnected(c) /\ IsConnected(c)'
  BY <1>2 DEF ClientOK, IsConnected
<1>8. Match(handlers[c], Commands(incoming[c]), dataWrited[c], taken[c], dataQueued[c])
  BY <1>2, <1>7 DEF ClientOK
<1>9. Commands(incoming[c]) = Prolong(<<>>, e) \o Commands(Tail(incoming[c]))
  BY <1>1, <1>2, CommandsTail DEF ClientOK
<1>10. PICK rest : rest = Commands(Tail(incoming[c]))
  OBVIOUS
<1>11. rest \in Seq(CommandsOf(c)) /\ Tail(incoming[c]) \in Seq(EntriesOf(c))
  <2>1. Tail(incoming[c]) \in Seq(EntriesOf(c))
    BY <1>2 DEF ClientOK
  <2> QED BY <1>10, <2>1, CommandsOnly
<1>12. incoming'[c] = Tail(incoming[c]) /\ taken[c] \in Nat
  BY <1>2 DEF ClientTypes
<1>13. CASE IsMessage(e)
  <2>1. Commands(incoming[c]) = rest
    <3>1. Prolong(<<>>, e) = <<>>
      BY <1>5, <1>13, CommandsAre DEF Prolong
    <3> QED BY <1>9, <1>10, <1>11, <3>1
  <2>2. posted'[c] = Append(posted[c], e) /\ posted'[c] \in Seq(EntriesOf(c))
    <3>1. posted'[c] = Append(posted[c], e)
      BY <1>3, <1>13 DEF ClientTypes
    <3> QED BY <1>5, <3>1 DEF ClientOK
  <2> QED BY <1>2, <1>3, <1>6, <1>7, <1>8, <1>10, <1>11, <1>12, <1>13, <2>1, <2>2 DEF ClientOK
<1>14. CASE ~IsMessage(e)
  <2>1. IsCommand(e) /\ e \in CommandsOf(c)
    BY <1>5, <1>14, CommandsAre, CommandEntry
  <2>2. Commands(incoming[c]) = <<e>> \o rest
    <3>1. Prolong(<<>>, e) = <<e>>
      BY <2>1 DEF Prolong
    <3> QED BY <1>9, <1>10, <3>1
  <2>3. handlers[c] # <<>> /\ Match(Tail(handlers[c]), rest, dataWrited[c], taken[c], dataQueued[c])
    <3>1. Match(handlers[c], <<e>> \o rest, dataWrited[c], taken[c], dataQueued[c])
      BY <1>8, <2>2
    <3>2. /\ handlers[c] \in Seq(CommandsOf(c)) /\ dataWrited[c] \in Seq(CommandsOf(c))
          /\ dataQueued[c] \in Seq(CommandsOf(c))
      BY DEF ClientOK
    <3> QED BY ONLY <1>11, <1>12, <2>1, <3>1, <3>2, MatchReplied
  <2>4. handlers'[c] = Tail(handlers[c]) /\ handlers'[c] \in Seq(CommandsOf(c))
    <3>1. handlers'[c] = Tail(handlers[c])
      BY <1>4, <1>14, <2>3 DEF ClientTypes
    <3> QED BY <2>3, <3>1 DEF ClientOK
  <2>5. over' = over
    BY <1>2, <1>4, <1>14, <2>3 DEF ClientTypes
  <2> QED BY <1>2, <1>4, <1>6, <1>7, <1>10, <1>11, <1>12, <1>14, <2>3, <2>4, <2>5 DEF ClientOK
<1> QED BY <1>13, <1>14

LEMMA BreakClient ==
  ASSUME NEW c \in Clients, ClientTypes, ClientOK(c), Break(c)
  PROVE  ClientTypes' /\ ClientOK(c)'
<1>1. /\ IsConnected(c)
      /\ over' = [over EXCEPT ![c] = TRUE]
      /\ incoming' = [incoming EXCEPT ![c] = <<>>]
      /\ UNCHANGED <<state, posted, handlers, dataQueued, dataWrited, taken>>
  BY DEF Break
<1>2. ClientTypes'
  BY <1>1 DEF ClientTypes
<1>3. over'[c] /\ incoming'[c] = <<>>
  BY <1>1 DEF ClientTypes
<1> QED BY <1>1, <1>2, <1>3 DEF ClientOK, IsConnected

LEMMA ForgottenClient ==
  ASSUME NEW c \in Clients, ClientTypes, Forgotten(c)
  PROVE  ClientTypes' /\ ClientOK(c)'
<1>1. ClientTypes'
  BY DEF Forgotten, ClientTypes
<1>2. /\ state'[c] = "None" /\ posted'[c] = <<>> /\ handlers'[c] = <<>> /\ dataQueued'[c] = <<>>
      /\ dataWrited'[c] = <<>> /\ taken'[c] = 0 /\ incoming'[c] = <<>>
  BY DEF Forgotten, ClientTypes
<1> QED BY <1>1, <1>2 DEF ClientOK, IsConnected

-----------------------------------------------------------------------------
(* Every step keeps the queues in order *)

(* A step of one client changes nothing of another one.                    *)
OnlyOf(c) ==
  \A d \in Clients \ {c} :
    /\ state'[d] = state[d] /\ posted'[d] = posted[d] /\ handlers'[d] = handlers[d]
    /\ dataQueued'[d] = dataQueued[d] /\ dataWrited'[d] = dataWrited[d]
    /\ taken'[d] = taken[d] /\ incoming'[d] = incoming[d] /\ over'[d] = over[d]

LEMMA ClientsOK ==
  ASSUME NEW c \in Clients, \A d \in Clients : ClientOK(d), OnlyOf(c), ClientOK(c)'
  PROVE  \A d \in Clients : ClientOK(d)'
<1> SUFFICES ASSUME NEW d \in Clients, d # c PROVE ClientOK(d)'
  OBVIOUS
<1> QED BY OtherClient DEF OnlyOf

Connecting(c) == Construct(c) \/ Connect(c) \/ ConnectFails(c)

LEMMA OnlyOne ==
  ASSUME NEW c \in Clients, ClientTypes,
         Connecting(c) \/ HandleAsyncConnect(c) \/ DoAsyncCommand(c) \/ ServerTakes(c)
           \/ AsyncWrite(c) \/ AsyncRead(c) \/ Break(c) \/ Forgotten(c)
  PROVE  OnlyOf(c)
<1>1. CASE Connecting(c)
  BY <1>1 DEF ClientTypes, OnlyOf, Connecting, Construct, Connect, ConnectFails
<1>2. CASE HandleAsyncConnect(c)
  BY <1>2 DEF ClientTypes, OnlyOf, HandleAsyncConnect
<1>3. CASE DoAsyncCommand(c)
  BY <1>3 DEF ClientTypes, OnlyOf, DoAsyncCommand
<1>4. CASE ServerTakes(c)
  BY <1>4 DEF ClientTypes, OnlyOf, ServerTakes
<1>5. CASE AsyncWrite(c)
  BY <1>5 DEF ClientTypes, OnlyOf, AsyncWrite
<1>6. CASE AsyncRead(c)
  BY <1>6 DEF ClientTypes, OnlyOf, AsyncRead
<1>7. CASE Break(c)
  BY <1>7 DEF ClientTypes, OnlyOf, Break
<1>8. CASE Forgotten(c)
  BY <1>8 DEF ClientTypes, OnlyOf, Forgotten
<1> QED BY <1>1, <1>2, <1>3, <1>4, <1>5, <1>6, <1>7, <1>8

(* A step of a client as RedisClient has it.                               *)
LEMMA ClientStep ==
  ASSUME NEW c \in Clients, ClientTypes, \A d \in Clients : ClientOK(d),
         Connecting(c) \/ HandleAsyncConnect(c) \/ DoAsyncCommand(c) \/ ServerTakes(c)
           \/ AsyncWrite(c) \/ AsyncRead(c) \/ Break(c) \/ Forgotten(c)
  PROVE  ClientTypes' /\ (\A d \in Clients : ClientOK(d)') /\ OnlyOf(c)
<1>1. OnlyOf(c)
  BY OnlyOne
<1>2. Subscribers = {Sub}
  BY DialogueAssumption
<1>3. ClientTypes' /\ ClientOK(c)'
  BY <1>2, ConnectingClient, HandleAsyncConnectClient, DoAsyncCommandClient, ServerTakesClient,
     AsyncWriteClient, AsyncReadClient, BreakClient, ForgottenClient DEF Connecting
<1> QED BY <1>1, <1>3, ClientsOK

QInv == TypeOK /\ QueuesOK

LEMMA InitQueues == Init => QInv
<1> SUFFICES ASSUME Init PROVE QInv
  OBVIOUS
<1>0. <<>> \in Seq(Entries) /\ <<>> \in Seq(Requests) /\ <<>> \in Seq(Answer)
  OBVIOUS
<1>1. ClientTypes
  <2>1. ClientInit
    BY DEF Init
  <2> QED BY <1>0, <2>1 DEF ClientInit, ClientTypes
<1>2. ServiceTypes
  <2>1. "ja" \in Languages
    BY DEF Languages
  <2> QED BY <1>0, <2>1 DEF Init, ServiceTypes
<1>3. ASSUME NEW c \in Clients PROVE ClientOK(c)
  <2>1. /\ state[c] = "None" /\ posted[c] = <<>> /\ handlers[c] = <<>> /\ dataQueued[c] = <<>>
        /\ dataWrited[c] = <<>> /\ incoming[c] = <<>> /\ taken[c] = 0
    BY DEF Init, ClientInit
  <2>2. <<>> \in Seq(EntriesOf(c)) /\ <<>> \in Seq(CommandsOf(c)) /\ 0 <= Len(<<>>)
    OBVIOUS
  <2> QED BY <2>1, <2>2 DEF ClientOK, IsConnected
<1>4. SubscriptionOK
  BY DEF Init, SubscriptionOK
<1> QED BY <1>1, <1>2, <1>3, <1>4 DEF QInv, TypeOK, QueuesOK

LEMMA AskQueues ==
  ASSUME QInv, NEW r \in Requests, Ask(r)
  PROVE  QInv'
<1>a. ClientTypes /\ ServiceTypes /\ SubscriptionOK /\ \A d \in Clients : ClientOK(d)
  BY DEF QInv, TypeOK, QueuesOK
<1>1. PICK m : m = [cmd |-> "message", arg |-> Len(asked) + 1]
  OBVIOUS
<1>2. /\ asked' = Append(asked, r)
      /\ incoming' = IF subscribed THEN [incoming EXCEPT ![Sub] = Append(@, m)] ELSE incoming
      /\ UNCHANGED <<state, posted, handlers, dataQueued, dataWrited, taken, over,
                     subscribed, gLang, busy, answers, handled, faults>>
  BY <1>1 DEF Ask
<1>3. m \in Messages /\ m \in Entries /\ m \in EntriesOf(Sub) /\ ~IsCommand(m)
  <2>1. Len(asked) + 1 \in Nat \ {0}
    <3>1. asked \in Seq(Requests)
      BY <1>a DEF ServiceTypes
    <3> QED BY <3>1
  <2> QED BY <1>1, <2>1 DEF Messages, Entries, EntriesOf, IsCommand
<1>4. ServiceTypes'
  <2>1. asked \in Seq(Requests) /\ handled \subseteq 1..Len(asked)
    BY <1>a DEF ServiceTypes
  <2>2. asked' \in Seq(Requests) /\ Len(asked') = Len(asked) + 1 /\ Len(asked) \in Nat
    BY <1>2, <2>1
  <2>3. 1..Len(asked) \subseteq 1..Len(asked')
    BY <2>2
  <2>4. handled' \subseteq 1..Len(asked')
    BY <1>2, <2>1, <2>3
  <2>5. gLang' = gLang /\ busy' = busy /\ answers' = answers /\ subscribed' = subscribed
    BY <1>2
  <2> QED BY <1>a, <2>2, <2>4, <2>5 DEF ServiceTypes
<1>5. ClientTypes'
  <2>1. Sub \in Clients
    BY DialogueAssumption
  <2>2. incoming' \in [Clients -> Seq(Entries)]
    <3>1. incoming \in [Clients -> Seq(Entries)]
      BY <1>a DEF ClientTypes
    <3>2. Append(incoming[Sub], m) \in Seq(Entries)
      BY <1>3, <2>1, <3>1
    <3> QED BY <1>2, <2>1, <3>1, <3>2
  <2>3. /\ state' = state /\ over' = over /\ taken' = taken /\ posted' = posted /\ handlers' = handlers
        /\ dataQueued' = dataQueued /\ dataWrited' = dataWrited
    BY <1>2
  <2> QED BY <1>a, <2>2, <2>3 DEF ClientTypes
<1>6. ASSUME NEW c \in Clients PROVE ClientOK(c)'
  <2>1. CASE c = Sub /\ subscribed
    <3>1. incoming'[c] = Append(incoming[c], m) /\ IsConnected(c)
      BY <1>a, <1>2, <2>1 DEF ClientTypes, SubscriptionOK
    <3>2. incoming'[c] \in Seq(EntriesOf(c))
      <4>1. incoming[c] \in Seq(EntriesOf(c))
        BY <1>a DEF ClientOK
      <4> QED BY <1>3, <2>1, <3>1, <4>1
    <3>3. Commands(incoming'[c]) = Commands(incoming[c])
      <4>1. Commands(Append(incoming[c], m)) = Prolong(Commands(incoming[c]), m)
        BY <1>a, <1>3, <2>1, CommandsAppend DEF ClientOK
      <4> QED BY <1>3, <3>1, <4>1 DEF Prolong
    <3> QED BY <1>a, <1>2, <3>1, <3>2, <3>3 DEF ClientOK, IsConnected
  <2>2. CASE ~(c = Sub /\ subscribed)
    <3>1. incoming'[c] = incoming[c]
      BY <1>a, <1>2, <2>2 DEF ClientTypes
    <3> QED BY <1>a, <1>2, <3>1 DEF ClientOK, IsConnected
  <2> QED BY <2>1, <2>2
<1>7. SubscriptionOK'
  BY <1>a, <1>2 DEF SubscriptionOK, IsConnected
<1> QED BY <1>4, <1>5, <1>6, <1>7 DEF QInv, TypeOK, QueuesOK

LEMMA ServeQueues ==
  ASSUME QInv, NEW c \in Clients, Serve(c)
  PROVE  QInv'
<1>a. ClientTypes /\ ServiceTypes /\ SubscriptionOK /\ \A d \in Clients : ClientOK(d)
  BY DEF QInv, TypeOK, QueuesOK
<1>1. PICK e : e = dataWrited[c][taken[c] + 1]
  OBVIOUS
<1>2. /\ ServerTakes(c)
      /\ subscribed' = (subscribed \/ e.cmd = "subscribe")
      /\ answers' = IF e.cmd = "publish" THEN Append(answers, e.arg) ELSE answers
      /\ UNCHANGED <<asked, gLang, busy, handled, faults>>
  BY <1>1 DEF Serve
<1>3. ClientTypes' /\ (\A d \in Clients : ClientOK(d)')
  BY <1>a, <1>2, ClientStep
<1>4. /\ IsConnected(c) /\ ~over[c] /\ taken[c] < Len(dataWrited[c]) /\ taken[c] \in Nat
      /\ state' = state /\ over' = over
  BY <1>a, <1>2, ServerTakesClient DEF ServerTakes, ClientTypes
<1>5. e \in CommandsOf(c)
  <2>1. dataWrited[c] \in Seq(CommandsOf(c))
    BY <1>a DEF ClientOK
  <2> QED BY <1>1, <1>4, <2>1
<1>6. e.cmd = "publish" => e.arg \in Answer
  <2>1. e = Subscribe \/ e \in Publishes
    BY <1>5 DEF CommandsOf
  <2>2. Subscribe.cmd # "publish"
    BY DEF Subscribe
  <2>3. e \in Publishes => e.arg \in Answer
    BY DEF Publishes
  <2> QED BY <2>1, <2>2, <2>3
<1>7. e.cmd = "subscribe" => c = Sub
  BY <1>5 DEF CommandsOf, Publishes
<1>8. ServiceTypes'
  <2>1. answers \in Seq(Answer)
    BY <1>a DEF ServiceTypes
  <2>2. answers' \in Seq(Answer)
    BY <1>2, <1>6, <2>1
  <2>3. asked' = asked /\ gLang' = gLang /\ busy' = busy /\ handled' = handled /\ subscribed' \in BOOLEAN
    BY <1>2
  <2> QED BY <1>a, <2>2, <2>3 DEF ServiceTypes
<1>9. SubscriptionOK'
  BY <1>a, <1>2, <1>4, <1>7 DEF SubscriptionOK, IsConnected
<1> QED BY <1>3, <1>8, <1>9 DEF QInv, TypeOK, QueuesOK

LEMMA FaultQueues ==
  ASSUME QInv, NEW c \in Clients, Fault(c)
  PROVE  QInv'
<1>a. ClientTypes /\ ServiceTypes /\ SubscriptionOK /\ \A d \in Clients : ClientOK(d)
  BY DEF QInv, TypeOK, QueuesOK
<1>1. /\ ConnectFails(c) \/ Break(c)
      /\ subscribed' = (subscribed /\ c # Sub)
      /\ UNCHANGED <<asked, gLang, busy, answers, handled>>
  BY DEF Fault
<1>2. ClientTypes' /\ (\A d \in Clients : ClientOK(d)') /\ OnlyOf(c)
  BY <1>a, <1>1, ClientStep DEF Connecting
<1>3. ServiceTypes'
  BY <1>a, <1>1 DEF ServiceTypes
<1>4. SubscriptionOK'
  BY <1>a, <1>1, <1>2, DialogueAssumption DEF SubscriptionOK, IsConnected, OnlyOf
<1> QED BY <1>2, <1>3, <1>4 DEF QInv, TypeOK, QueuesOK

LEMMA RunQueues ==
  ASSUME QInv, NEW c \in Clients, Run(c)
  PROVE  QInv'
<1>a. ClientTypes /\ ServiceTypes /\ SubscriptionOK /\ \A d \in Clients : ClientOK(d)
  BY DEF QInv, TypeOK, QueuesOK
<1>1. /\ \/ Construct(c) \/ Connect(c) \/ HandleAsyncConnect(c)
         \/ DoAsyncCommand(c) \/ AsyncWrite(c) \/ AsyncRead(c)
      /\ UNCHANGED <<asked, subscribed, gLang, busy, answers, handled, faults>>
  BY DEF Run
<1>2. ClientTypes' /\ (\A d \in Clients : ClientOK(d)')
  BY <1>a, <1>1, ClientStep DEF Connecting
<1>3. ServiceTypes'
  BY <1>a, <1>1 DEF ServiceTypes
<1>4. SubscriptionOK'
  <2> SUFFICES ASSUME subscribed PROVE IsConnected(Sub)' /\ ~over'[Sub]
    BY <1>a, <1>1 DEF SubscriptionOK
  <2>1. IsConnected(Sub) /\ ~over[Sub]
    BY <1>a DEF SubscriptionOK
  <2>2. CASE c = Sub
    <3>1. state' = state /\ over' = over
      BY <1>a, <1>1, <2>1, <2>2, AsyncReadClient
         DEF Construct, Connect, HandleAsyncConnect, DoAsyncCommand, AsyncWrite, AsyncRead, IsConnected
    <3> QED BY <2>1, <3>1 DEF IsConnected
  <2>3. CASE c # Sub
    <3>1. OnlyOf(c)
      BY <1>a, <1>1, OnlyOne DEF Connecting
    <3> QED BY <2>1, <2>3, <3>1, DialogueAssumption DEF OnlyOf, IsConnected
  <2> QED BY <2>2, <2>3
<1> QED BY <1>2, <1>3, <1>4 DEF QInv, TypeOK, QueuesOK

LEMMA RunEndsQueues ==
  ASSUME QInv, NEW c \in Clients, RunEnds(c)
  PROVE  QInv'
<1>a. ClientTypes /\ ServiceTypes /\ SubscriptionOK /\ \A d \in Clients : ClientOK(d)
  BY DEF QInv, TypeOK, QueuesOK
<1>1. /\ over[c] /\ Forgotten(c)
      /\ busy' = IF busy # None /\ busy.step = "publish" THEN [busy EXCEPT !.step = "stale"] ELSE busy
      /\ UNCHANGED <<asked, subscribed, gLang, answers, handled, faults>>
  BY DEF RunEnds, Destroy
<1>2. ClientTypes' /\ (\A d \in Clients : ClientOK(d)') /\ OnlyOf(c)
  BY <1>a, <1>1, ClientStep
<1>3. ServiceTypes'
  BY <1>a, <1>1 DEF ServiceTypes
<1>4. SubscriptionOK'
  BY <1>a, <1>1, <1>2, DialogueAssumption DEF SubscriptionOK, IsConnected, OnlyOf
<1> QED BY <1>2, <1>3, <1>4 DEF QInv, TypeOK, QueuesOK

(* The messages on their way to the subscriber are requests of users.      *)
KnownEntries == {Subscribe} \cup [cmd : {"message"}, arg : 1..Len(asked)]
KnownOK == posted[Sub] \in Seq(KnownEntries) /\ incoming[Sub] \in Seq(KnownEntries)

LEMMA KnownUnchanged ==
  ASSUME KnownOK, asked' = asked,
         posted'[Sub] \in {posted[Sub], <<>>}, incoming'[Sub] \in {incoming[Sub], <<>>}
  PROVE  KnownOK'
<1>1. KnownEntries' = KnownEntries
  BY DEF KnownEntries
<1>2. <<>> \in Seq(KnownEntries)
  OBVIOUS
<1> QED BY <1>1, <1>2 DEF KnownOK

LEMMA KnownStep ==
  ASSUME QInv, KnownOK, Next
  PROVE  KnownOK'
<1>a. ClientTypes /\ ServiceTypes /\ \A d \in Clients : ClientOK(d)
  BY DEF QInv, TypeOK, QueuesOK
<1>b. Sub \in Clients /\ Pub \in Clients /\ Sub # Pub /\ \A c \in Clients : c # Sub => c = Pub
  BY DialogueAssumption
<1>c. /\ posted[Sub] \in Seq(KnownEntries) /\ incoming[Sub] \in Seq(KnownEntries)
      /\ Subscribe \in KnownEntries
  BY DEF KnownOK, KnownEntries
<1>1. ASSUME NEW r \in Requests, Ask(r) PROVE KnownOK'
  <2>1. PICK m : m = [cmd |-> "message", arg |-> Len(asked) + 1]
    OBVIOUS
  <2>2. asked \in Seq(Requests)
    BY <1>a DEF ServiceTypes
  <2>3. Len(asked') = Len(asked) + 1 /\ Len(asked) \in Nat
    BY <1>1, <2>2 DEF Ask
  <2>4. m \in KnownEntries' /\ KnownEntries \subseteq KnownEntries'
    <3>1. 1..Len(asked) \subseteq 1..Len(asked') /\ Len(asked) + 1 \in 1..Len(asked')
      BY <2>3
    <3> QED BY <2>1, <3>1 DEF KnownEntries
  <2>5. posted[Sub] \in Seq(KnownEntries') /\ incoming[Sub] \in Seq(KnownEntries')
    BY <1>c, <2>4, SeqMonotonic
  <2>6. posted'[Sub] = posted[Sub] /\ incoming'[Sub] \in {incoming[Sub], Append(incoming[Sub], m)}
    BY <1>1, <1>a, <1>b, <2>1 DEF Ask, ClientTypes
  <2>7. Append(incoming[Sub], m) \in Seq(KnownEntries')
    BY <2>4, <2>5
  <2> QED BY <2>5, <2>6, <2>7 DEF KnownOK
<1>2. ASSUME asked' = asked, NEW c \in Clients,
             Connecting(c) \/ HandleAsyncConnect(c) \/ DoAsyncCommand(c) \/ ServerTakes(c)
               \/ AsyncWrite(c) \/ AsyncRead(c) \/ Break(c) \/ Forgotten(c)
      PROVE  KnownOK'
  <2>1. CASE c # Sub
    <3>1. OnlyOf(c)
      BY <1>2, <1>a, OnlyOne
    <3>2. posted'[Sub] = posted[Sub] /\ incoming'[Sub] = incoming[Sub]
      BY <1>b, <2>1, <3>1 DEF OnlyOf
    <3> QED BY <1>2, <3>2, KnownUnchanged
  <2>2. CASE c = Sub
    <3>0. KnownEntries' = KnownEntries
      BY <1>2 DEF KnownEntries
    <3>1. CASE Connecting(c) \/ AsyncWrite(c)
      <4>1. posted' = posted /\ incoming' = incoming
        BY <3>1 DEF Connecting, Construct, Connect, ConnectFails, AsyncWrite
      <4> QED BY <1>2, <4>1, KnownUnchanged
    <3>2. CASE HandleAsyncConnect(c)
      <4>1. incoming' = incoming /\ posted'[Sub] \in {posted[Sub], Append(posted[Sub], Subscribe)}
        BY <1>a, <1>b, <2>2, <3>2 DEF HandleAsyncConnect, ClientTypes
      <4>2. Append(posted[Sub], Subscribe) \in Seq(KnownEntries)
        BY <1>c
      <4> QED BY <1>c, <3>0, <4>1, <4>2 DEF KnownOK
    <3>3. CASE DoAsyncCommand(c)
      <4>1. incoming' = incoming /\ posted'[Sub] = Tail(posted[Sub]) /\ posted[Sub] # <<>>
        BY <1>a, <1>b, <2>2, <3>3 DEF DoAsyncCommand, ClientTypes
      <4>2. Tail(posted[Sub]) \in Seq(KnownEntries)
        BY <1>c, <4>1
      <4> QED BY <1>c, <3>0, <4>1, <4>2 DEF KnownOK
    <3>4. CASE ServerTakes(c)
      <4>1. PICK e : e = dataWrited[Sub][taken[Sub] + 1]
        OBVIOUS
      <4>2. /\ posted' = posted /\ incoming'[Sub] = Append(incoming[Sub], e)
            /\ taken[Sub] < Len(dataWrited[Sub]) /\ taken[Sub] \in Nat
        BY <1>a, <1>b, <2>2, <3>4, <4>1 DEF ServerTakes, ClientTypes
      <4>3. dataWrited[Sub] \in Seq({Subscribe})
        BY <1>a, <1>b DEF ClientOK, CommandsOf
      <4>4. e = Subscribe
        BY <4>1, <4>2, <4>3
      <4>5. Append(incoming[Sub], e) \in Seq(KnownEntries)
        BY <1>c, <4>4
      <4> QED BY <1>c, <3>0, <4>2, <4>5 DEF KnownOK
    <3>5. CASE AsyncRead(c)
      <4>1. /\ incoming[Sub] # <<>> /\ incoming'[Sub] = Tail(incoming[Sub])
            /\ posted'[Sub] \in {posted[Sub], Append(posted[Sub], Head(incoming[Sub]))}
        BY <1>a, <1>b, <2>2, <3>5 DEF AsyncRead, ClientTypes
      <4>2. Tail(incoming[Sub]) \in Seq(KnownEntries) /\ Head(incoming[Sub]) \in KnownEntries
        BY <1>c, <4>1
      <4>3. Append(posted[Sub], Head(incoming[Sub])) \in Seq(KnownEntries)
        BY <1>c, <4>2
      <4> QED BY <1>c, <3>0, <4>1, <4>2, <4>3 DEF KnownOK
    <3>6. CASE Break(c) \/ Forgotten(c)
      <4>1. posted'[Sub] \in {posted[Sub], <<>>} /\ incoming'[Sub] = <<>>
        BY <1>a, <1>b, <2>2, <3>6 DEF Break, Forgotten, ClientTypes
      <4> QED BY <1>2, <4>1, KnownUnchanged
    <3> QED BY <1>2, <3>1, <3>2, <3>3, <3>4, <3>5, <3>6
  <2> QED BY <2>1, <2>2
<1>3. ASSUME NEW c \in Clients, Serve(c) \/ Fault(c) \/ Run(c) \/ RunEnds(c) PROVE KnownOK'
  <2>1. asked' = asked
    BY <1>3 DEF Serve, Fault, Run, RunEnds
  <2>2. Connecting(c) \/ HandleAsyncConnect(c) \/ DoAsyncCommand(c) \/ ServerTakes(c)
          \/ AsyncWrite(c) \/ AsyncRead(c) \/ Break(c) \/ Forgotten(c)
    BY <1>3 DEF Serve, Fault, Run, RunEnds, Destroy, Connecting
  <2> QED BY <1>2, <2>1, <2>2
<1>4. ASSUME ProcessText PROVE KnownOK'
  <2>1. /\ asked' = asked /\ incoming' = incoming /\ posted[Sub] # <<>>
        /\ posted'[Sub] = Tail(posted[Sub])
    BY <1>4, <1>a, <1>b DEF ProcessText, ClientTypes
  <2>2. Tail(posted[Sub]) \in Seq(KnownEntries) /\ KnownEntries' = KnownEntries
    BY <1>c, <2>1 DEF KnownEntries
  <2> QED BY <1>c, <2>1, <2>2 DEF KnownOK
<1>5. ASSUME Dies PROVE KnownOK'
  <2>1. asked' = asked /\ posted'[Sub] = <<>> /\ incoming'[Sub] = <<>>
    BY <1>5, <1>b DEF Dies
  <2> QED BY <2>1, KnownUnchanged
<1>6. ASSUME ProcessTextDies \/ LockNothing \/ LockRace \/ LockRef \/ Publish \/ PublishStale
      PROVE  KnownOK'
  <2>1. CASE Dies
    BY <1>5, <2>1
  <2>2. CASE ~Dies
    <3>1. asked' = asked /\ incoming' = incoming /\ posted'[Sub] = posted[Sub]
      BY <1>6, <1>a, <1>b, <2>2
      DEF ProcessTextDies, LockNothing, LockRace, LockRef, Publish, PublishStale, Keep, clientVars,
          ClientTypes
    <3> QED BY <3>1, KnownUnchanged
  <2> QED BY <2>1, <2>2
<1> QED BY <1>1, <1>3, <1>4, <1>6 DEF Next, OnMessage

LEMMA ProcessTextQueues ==
  ASSUME QInv, KnownOK, ProcessText
  PROVE  QInv'
<1>a. ClientTypes /\ ServiceTypes /\ SubscriptionOK /\ \A d \in Clients : ClientOK(d)
  BY DEF QInv, TypeOK, QueuesOK
<1>b. Sub \in Clients
  BY DialogueAssumption
<1>1. PICK n : n = Head(posted[Sub]).arg
  OBVIOUS
<1>2. /\ posted[Sub] # <<>> /\ IsMessage(Head(posted[Sub]))
      /\ posted' = [posted EXCEPT ![Sub] = Tail(@)]
      /\ gLang' = Language(asked[n])
      /\ busy' = [to |-> n, step |-> "lock",
                  lang |-> IF asked[n].text = "sentence" THEN gLang' ELSE None]
      /\ handled' = handled \cup {n}
      /\ UNCHANGED <<state, handlers, dataQueued, dataWrited, taken, incoming, over,
                     asked, subscribed, answers, faults>>
  BY <1>1 DEF ProcessText
<1>3. n \in 1..Len(asked)
  <2>1. Head(posted[Sub]) \in KnownEntries
    BY <1>2 DEF KnownOK
  <2>2. Head(posted[Sub]) # Subscribe
    BY <1>2 DEF Subscribe, IsMessage
  <2> QED BY <1>1, <2>1, <2>2 DEF KnownEntries
<1>4. asked \in Seq(Requests) /\ asked[n] \in Requests
  <2>1. asked \in Seq(Requests)
    BY <1>a DEF ServiceTypes
  <2> QED BY <1>3, <2>1
<1>5. gLang' \in Languages
  <2>1. asked[n].lang # None => asked[n].lang \in Languages
    BY <1>4 DEF Languages
  <2>2. gLang \in Languages
    BY <1>a DEF ServiceTypes
  <2> QED BY <1>2, <2>1, <2>2 DEF Language
<1>6. ServiceTypes'
  <2>1. busy' \in [to : Nat \ {0}, step : {"lock", "publish", "stale"}, lang : Languages \cup {None}]
    BY <1>2, <1>3, <1>5
  <2>2. handled' \subseteq 1..Len(asked')
    BY <1>a, <1>2, <1>3 DEF ServiceTypes
  <2>3. asked' = asked /\ answers' = answers /\ subscribed' = subscribed
    BY <1>2
  <2> QED BY <1>a, <1>5, <2>1, <2>2, <2>3 DEF ServiceTypes
<1>7. ClientTypes'
  <2>1. posted' \in [Clients -> Seq(Entries)]
    <3>1. posted \in [Clients -> Seq(Entries)]
      BY <1>a DEF ClientTypes
    <3>2. Tail(posted[Sub]) \in Seq(Entries)
      BY <1>b, <1>2, <3>1
    <3> QED BY <1>b, <1>2, <3>1, <3>2
  <2>2. /\ state' = state /\ over' = over /\ taken' = taken /\ incoming' = incoming /\ handlers' = handlers
        /\ dataQueued' = dataQueued /\ dataWrited' = dataWrited
    BY <1>2
  <2> QED BY <1>a, <2>1, <2>2 DEF ClientTypes
<1>8. OnlyOf(Sub)
  BY <1>a, <1>2 DEF OnlyOf, ClientTypes
<1>9. ClientOK(Sub)'
  <2>1. ClientOK(Sub) /\ posted'[Sub] = Tail(posted[Sub])
    BY <1>a, <1>b, <1>2 DEF ClientTypes
  <2>2. posted'[Sub] \in Seq(EntriesOf(Sub)) /\ IsConnected(Sub)
    BY <1>2, <2>1 DEF ClientOK
  <2> QED BY <1>2, <2>1, <2>2 DEF ClientOK, IsConnected
<1>10. \A d \in Clients : ClientOK(d)'
  BY <1>a, <1>b, <1>8, <1>9, ClientsOK
<1>11. SubscriptionOK'
  BY <1>a, <1>2 DEF SubscriptionOK, IsConnected
<1> QED BY <1>6, <1>7, <1>10, <1>11 DEF QInv, TypeOK, QueuesOK

LEMMA DiesQueues ==
  ASSUME QInv, Dies
  PROVE  QInv'
<1>a. ServiceTypes
  BY DEF QInv, TypeOK
<1>1. ClientTypes'
  <2>1. <<>> \in Seq(Entries)
    OBVIOUS
  <2> QED BY <2>1 DEF Dies, ClientTypes
<1>2. ServiceTypes'
  BY <1>a DEF Dies, ServiceTypes
<1>3. ASSUME NEW c \in Clients PROVE ClientOK(c)'
  <2>1. /\ state'[c] = "Dead" /\ posted'[c] = <<>> /\ handlers'[c] = <<>> /\ dataQueued'[c] = <<>>
        /\ dataWrited'[c] = <<>> /\ taken'[c] = 0 /\ incoming'[c] = <<>>
    BY DEF Dies
  <2>2. <<>> \in Seq(EntriesOf(c)) /\ <<>> \in Seq(CommandsOf(c)) /\ 0 <= Len(<<>>)
    OBVIOUS
  <2> QED BY <2>1, <2>2 DEF ClientOK, IsConnected
<1>4. SubscriptionOK'
  BY DEF Dies, SubscriptionOK
<1> QED BY <1>1, <1>2, <1>3, <1>4 DEF QInv, TypeOK, QueuesOK

LEMMA PublishQueues ==
  ASSUME QInv, Publish
  PROVE  QInv'
<1>a. ClientTypes /\ ServiceTypes /\ SubscriptionOK /\ \A d \in Clients : ClientOK(d)
  BY DEF QInv, TypeOK, QueuesOK
<1>b. Pub \in Clients /\ Pub # Sub
  BY DialogueAssumption
<1>1. PICK e : e = [cmd |-> "publish", arg |-> [to |-> busy.to, lang |-> busy.lang]]
  OBVIOUS
<1>2. /\ posted' = IF IsConnected(Pub) THEN [posted EXCEPT ![Pub] = Append(@, e)] ELSE posted
      /\ busy # None /\ busy' = None
      /\ UNCHANGED <<state, handlers, dataQueued, dataWrited, taken, incoming, over>>
      /\ UNCHANGED <<asked, subscribed, gLang, answers, handled, faults>>
  BY <1>1 DEF Publish, AtStep, Keep
<1>3. e \in Publishes
  <2>1. busy.to \in Nat \ {0} /\ busy.lang \in Languages \cup {None}
    BY <1>a, <1>2 DEF ServiceTypes
  <2> QED BY <1>1, <2>1 DEF Publishes, Answer
<1>4. e \in Entries /\ e \in EntriesOf(Pub)
  BY <1>b, <1>3 DEF Entries, EntriesOf
<1>5. ClientTypes'
  <2>1. posted' \in [Clients -> Seq(Entries)]
    <3>1. posted \in [Clients -> Seq(Entries)]
      BY <1>a DEF ClientTypes
    <3>2. Append(posted[Pub], e) \in Seq(Entries)
      BY <1>b, <1>4, <3>1
    <3> QED BY <1>b, <1>2, <3>1, <3>2
  <2>2. /\ state' = state /\ over' = over /\ taken' = taken /\ incoming' = incoming /\ handlers' = handlers
        /\ dataQueued' = dataQueued /\ dataWrited' = dataWrited
    BY <1>2
  <2> QED BY <1>a, <2>1, <2>2 DEF ClientTypes
<1>6. ServiceTypes'
  BY <1>a, <1>2 DEF ServiceTypes
<1>7. OnlyOf(Pub)
  BY <1>a, <1>2 DEF OnlyOf, ClientTypes
<1>8. ClientOK(Pub)'
  <2>1. ClientOK(Pub) /\ posted'[Pub] = IF IsConnected(Pub) THEN Append(posted[Pub], e) ELSE posted[Pub]
    BY <1>a, <1>b, <1>2 DEF ClientTypes
  <2>2. posted'[Pub] \in Seq(EntriesOf(Pub))
    BY <1>4, <2>1 DEF ClientOK
  <2> QED BY <1>2, <2>1, <2>2 DEF ClientOK, IsConnected
<1>9. \A d \in Clients : ClientOK(d)'
  BY <1>a, <1>b, <1>7, <1>8, ClientsOK
<1>10. SubscriptionOK'
  BY <1>a, <1>2 DEF SubscriptionOK, IsConnected
<1> QED BY <1>5, <1>6, <1>9, <1>10 DEF QInv, TypeOK, QueuesOK

LEMMA LockQueues ==
  ASSUME QInv, LockNothing \/ LockRace \/ LockRef \/ PublishStale
  PROVE  QInv'
<1>a. ClientTypes /\ ServiceTypes /\ SubscriptionOK /\ \A d \in Clients : ClientOK(d)
  BY DEF QInv, TypeOK, QueuesOK
<1>1. CASE Dies
  BY <1>1, DiesQueues
<1>2. CASE ~Dies
  <2>1. UNCHANGED clientVars /\ UNCHANGED <<asked, subscribed, gLang, answers, handled, faults>>
    BY <1>2 DEF LockNothing, LockRace, LockRef, PublishStale, Keep
  <2>2. ClientTypes' /\ SubscriptionOK' /\ OnlyOf(Sub) /\ (ClientOK(Sub)  => ClientOK(Sub)')
    BY <1>a, <2>1 DEF clientVars, ClientTypes, SubscriptionOK, IsConnected, OnlyOf, ClientOK
  <2>3. \A d \in Clients : ClientOK(d)'
    BY <1>a, <2>2, ClientsOK, DialogueAssumption
  <2>4. busy' = None \/ (busy # None /\ busy' = [busy EXCEPT !.step = "publish"])
    BY <1>2 DEF LockNothing, LockRace, LockRef, PublishStale, AtStep
  <2>5. ServiceTypes'
    BY <1>a, <2>1, <2>4 DEF ServiceTypes
  <2> QED BY <2>2, <2>3, <2>5 DEF QInv, TypeOK, QueuesOK
<1> QED BY <1>1, <1>2

LEMMA QueuesStep == QInv /\ KnownOK /\ [Next]_vars => QInv' /\ KnownOK'
<1> SUFFICES ASSUME QInv, KnownOK, [Next]_vars PROVE QInv' /\ KnownOK'
  OBVIOUS
<1>1. CASE Next
  <2>1. KnownOK'
    BY <1>1, KnownStep
  <2>2. ASSUME NEW r \in Requests, Ask(r) PROVE QInv'
    BY <2>2, AskQueues
  <2>3. ASSUME NEW c \in Clients, Serve(c) \/ Fault(c) \/ Run(c) \/ RunEnds(c) PROVE QInv'
    BY <2>3, ServeQueues, FaultQueues, RunQueues, RunEndsQueues
  <2>4. ASSUME OnMessage PROVE QInv'
    BY <2>4, ProcessTextQueues, DiesQueues, PublishQueues, LockQueues DEF OnMessage, ProcessTextDies
  <2> QED BY <1>1, <2>1, <2>2, <2>3, <2>4 DEF Next
<1>2. CASE UNCHANGED vars
  <2>1. KnownOK'
    BY <1>2 DEF KnownOK, KnownEntries, vars, clientVars
  <2>2. UNCHANGED clientVars /\ UNCHANGED <<asked, subscribed, gLang, busy, answers, handled>>
    BY <1>2 DEF vars
  <2>3. ClientTypes' /\ ServiceTypes' /\ SubscriptionOK'
    BY <2>2 DEF QInv, TypeOK, QueuesOK, clientVars, ClientTypes, ServiceTypes, SubscriptionOK, IsConnected
  <2>4. ASSUME NEW d \in Clients PROVE ClientOK(d)'
    <3>1. ClientOK(d)
      BY DEF QInv, QueuesOK
    <3> QED BY <2>2, <3>1 DEF clientVars, ClientOK, IsConnected
  <2> QED BY <2>1, <2>3, <2>4 DEF QInv, TypeOK, QueuesOK
<1> QED BY <1>1, <1>2

LEMMA InitKnown == Init => KnownOK
<1> SUFFICES ASSUME Init PROVE KnownOK
  OBVIOUS
<1>1. Sub \in Clients
  BY DialogueAssumption
<1>2. posted[Sub] = <<>> /\ incoming[Sub] = <<>>
  BY <1>1 DEF Init, ClientInit
<1>3. <<>> \in Seq(KnownEntries)
  OBVIOUS
<1> QED BY <1>2, <1>3 DEF KnownOK

LEMMA QueuesInvariant == Spec => [](QInv /\ KnownOK)
<1>1. Init => QInv /\ KnownOK
  BY InitQueues, InitKnown
<1> QED BY <1>1, QueuesStep, PTL DEF Spec

(* RepliesMatch: the handlers that wait at a client are those of the       *)
(* replies on their way, of what the server has not taken from the write   *)
(* under way and of what is queued behind it, for any number of requests,  *)
(* answers and faults.                                                     *)
THEOREM RepliesMatchInvariant == Spec => []RepliesMatch
<1>1. QInv => RepliesMatch
  BY DEF QInv, QueuesOK, ClientOK, Match, RepliesMatch
<1> QED BY <1>1, QueuesInvariant, PTL

-----------------------------------------------------------------------------
(* The order of requests and answers *)

(* The number of the request an entry is about; a subscription has none.   *)
Numbered(e) == e.cmd # "subscribe"
RequestOf(e) == IF e.cmd = "publish" THEN e.arg.to ELSE e.arg
Numbers(s) == {RequestOf(s[k]) : k \in {l \in DOMAIN s : Numbered(s[l])}}
Rising(s) ==
  \A k, l \in DOMAIN s : k < l /\ Numbered(s[k]) /\ Numbered(s[l]) => RequestOf(s[k]) < RequestOf(s[l])
Below(S, T) == \A m \in S, n \in T : m < n

LEMMA NumbersEmpty == Numbers(<<>>) = {} /\ Rising(<<>>)
BY DEF Numbers, Rising

LEMMA NumbersTail ==
  ASSUME NEW E, NEW s \in Seq(E), s # <<>>, Rising(s)
  PROVE  /\ Rising(Tail(s)) /\ Numbers(Tail(s)) \subseteq Numbers(s)
         /\ Numbered(Head(s)) => /\ RequestOf(Head(s)) \in Numbers(s)
                                 /\ Below({RequestOf(Head(s))}, Numbers(Tail(s)))
<1>1. PICK t : t = Tail(s)
  OBVIOUS
<1>2. t \in Seq(E) /\ \A k \in DOMAIN t : k \in Nat /\ k + 1 \in DOMAIN s /\ t[k] = s[k + 1] /\ k > 0
  BY <1>1
<1>3. Head(s) = s[1] /\ 1 \in DOMAIN s
  OBVIOUS
<1>4. Rising(t)
  <2> SUFFICES ASSUME NEW k \in DOMAIN t, NEW l \in DOMAIN t, k < l, Numbered(t[k]), Numbered(t[l])
               PROVE  RequestOf(t[k]) < RequestOf(t[l])
    BY DEF Rising
  <2>1. k + 1 < l + 1 /\ k + 1 \in DOMAIN s /\ l + 1 \in DOMAIN s /\ t[k] = s[k + 1] /\ t[l] = s[l + 1]
    BY <1>2
  <2> QED BY <2>1 DEF Rising
<1>5. Numbers(t) \subseteq Numbers(s)
  BY <1>2 DEF Numbers
<1>6. ASSUME Numbered(Head(s)) PROVE RequestOf(Head(s)) \in Numbers(s) /\ Below({RequestOf(Head(s))}, Numbers(t))
  <2>1. RequestOf(Head(s)) \in Numbers(s)
    BY <1>3, <1>6 DEF Numbers
  <2>2. ASSUME NEW k \in DOMAIN t, Numbered(t[k]) PROVE RequestOf(Head(s)) < RequestOf(t[k])
    <3>1. 1 < k + 1 /\ k + 1 \in DOMAIN s /\ t[k] = s[k + 1]
      BY <1>2
    <3> QED BY <1>3, <1>6, <2>2, <3>1 DEF Rising
  <2> QED BY <2>1, <2>2 DEF Below, Numbers
<1> QED BY <1>1, <1>4, <1>5, <1>6

LEMMA NumbersAppend ==
  ASSUME NEW E, NEW s \in Seq(E), NEW e \in E, Rising(s), Numbered(e) => Below(Numbers(s), {RequestOf(e)})
  PROVE  /\ Rising(Append(s, e))
         /\ Numbers(Append(s, e)) = Numbers(s) \cup (IF Numbered(e) THEN {RequestOf(e)} ELSE {})
<1>1. PICK t : t = Append(s, e)
  OBVIOUS
<1>2. /\ t \in Seq(E) /\ DOMAIN t = DOMAIN s \cup {Len(s) + 1} /\ t[Len(s) + 1] = e
      /\ \A k \in DOMAIN s : t[k] = s[k] /\ k \in Nat /\ k < Len(s) + 1
      /\ Len(s) + 1 \in Nat
  BY <1>1
<1>3. Numbers(t) = Numbers(s) \cup (IF Numbered(e) THEN {RequestOf(e)} ELSE {})
  BY <1>2 DEF Numbers
<1>4. Rising(t)
  <2> SUFFICES ASSUME NEW k \in DOMAIN t, NEW l \in DOMAIN t, k < l, Numbered(t[k]), Numbered(t[l])
               PROVE  RequestOf(t[k]) < RequestOf(t[l])
    BY DEF Rising
  <2>1. k \in DOMAIN s
    BY <1>2
  <2>2. CASE l \in DOMAIN s
    BY <1>2, <2>1, <2>2 DEF Rising
  <2>3. CASE l = Len(s) + 1
    <3>1. RequestOf(s[k]) \in Numbers(s)
      BY <1>2, <2>1 DEF Numbers
    <3> QED BY <1>2, <2>1, <2>3, <3>1 DEF Below
  <2> QED BY <1>2, <2>2, <2>3
<1> QED BY <1>1, <1>3, <1>4

(* Requests on their way in: those handled, those posted to the strand and *)
(* those the server has sent.                                              *)
Ordered(h, p, i) ==
  /\ Rising(p) /\ Rising(i)
  /\ Below(Numbers(p), Numbers(i)) /\ Below(h, Numbers(p)) /\ Below(h, Numbers(i))

LEMMA OrderedDrop ==
  ASSUME NEW h, NEW p, NEW i, Ordered(h, p, i), NEW p2 \in {p, <<>>}, NEW i2 \in {i, <<>>}
  PROVE  Ordered(h, p2, i2)
BY NumbersEmpty DEF Ordered, Below

LEMMA OrderedAsk ==
  ASSUME NEW E, NEW h, NEW p, NEW i \in Seq(E), Ordered(h, p, i), NEW m \in E,
         Numbered(m), Below(h, {RequestOf(m)}), Below(Numbers(p), {RequestOf(m)}), Below(Numbers(i), {RequestOf(m)})
  PROVE  Ordered(h, p, Append(i, m))
<1>1. Rising(Append(i, m)) /\ Numbers(Append(i, m)) = Numbers(i) \cup {RequestOf(m)}
  BY NumbersAppend DEF Ordered
<1> QED BY <1>1 DEF Ordered, Below

LEMMA OrderedCommand ==
  ASSUME NEW E, NEW h, NEW p \in Seq(E), NEW i \in Seq(E), Ordered(h, p, i), NEW e \in E, ~Numbered(e)
  PROVE  Ordered(h, Append(p, e), i) /\ Ordered(h, p, Append(i, e))
<1>1. Rising(Append(i, e)) /\ Numbers(Append(i, e)) = Numbers(i) \cup {}
  BY NumbersAppend DEF Ordered
<1>2. Rising(Append(p, e)) /\ Numbers(Append(p, e)) = Numbers(p) \cup {}
  BY NumbersAppend DEF Ordered
<1> QED BY <1>1, <1>2 DEF Ordered

LEMMA OrderedRead ==
  ASSUME NEW E, NEW h, NEW p \in Seq(E), NEW i \in Seq(E), Ordered(h, p, i), i # <<>>
  PROVE  Ordered(h, p, Tail(i)) /\ Ordered(h, Append(p, Head(i)), Tail(i))
<1>1. PICK e : e = Head(i)
  OBVIOUS
<1>2. PICK t : t = Tail(i)
  OBVIOUS
<1>3. /\ Rising(t) /\ Numbers(t) \subseteq Numbers(i)
      /\ Numbered(e) => RequestOf(e) \in Numbers(i) /\ Below({RequestOf(e)}, Numbers(t))
  BY <1>1, <1>2, NumbersTail DEF Ordered
<1>4. e \in E
  BY <1>1
<1>5. Rising(Append(p, e)) /\ Numbers(Append(p, e)) = Numbers(p) \cup (IF Numbered(e) THEN {RequestOf(e)} ELSE {})
  <2>1. Numbered(e) => Below(Numbers(p), {RequestOf(e)})
    BY <1>3 DEF Ordered, Below
  <2> QED BY <1>4, <2>1, NumbersAppend DEF Ordered
<1>6. Ordered(h, p, t)
  BY <1>3 DEF Ordered, Below
<1>7. Ordered(h, Append(p, e), t)
  <2>1. PICK q : q = Append(p, e)
    OBVIOUS
  <2>2. Rising(q) /\ Numbers(q) \subseteq Numbers(p) \cup {RequestOf(e)} /\ (~Numbered(e) => Numbers(q) = Numbers(p))
    BY <1>5, <2>1
  <2>3. Ordered(h, q, t)
    BY <1>3, <2>2 DEF Ordered, Below
  <2> QED BY <2>1, <2>3
<1> QED BY <1>1, <1>2, <1>6, <1>7

LEMMA OrderedTake ==
  ASSUME NEW E, NEW h, NEW p \in Seq(E), NEW i, Ordered(h, p, i), p # <<>>
  PROVE  /\ Ordered(h, Tail(p), i)
         /\ Numbered(Head(p)) => /\ Ordered(h \cup {RequestOf(Head(p))}, Tail(p), i)
                                 /\ Below(h, {RequestOf(Head(p))})
<1>1. PICK n : n = RequestOf(Head(p))
  OBVIOUS
<1>2. PICK t : t = Tail(p)
  OBVIOUS
<1>3. /\ Rising(t) /\ Numbers(t) \subseteq Numbers(p)
      /\ Numbered(Head(p)) => n \in Numbers(p) /\ Below({n}, Numbers(t))
  BY <1>1, <1>2, NumbersTail DEF Ordered
<1>4. Ordered(h, t, i)
  BY <1>3 DEF Ordered, Below
<1>5. Numbered(Head(p)) => Ordered(h \cup {n}, t, i) /\ Below(h, {n})
  BY <1>3 DEF Ordered, Below
<1> QED BY <1>1, <1>2, <1>4, <1>5

(* Answers on their way out: those given, those of the write under way     *)
(* that the server has not taken, those queued behind it, those posted to  *)
(* the strand and the request that is worked on.                           *)
Stages(g, u, q, p, w) ==
  /\ \A k, l \in DOMAIN g : k < l => g[k].to < g[l].to
  /\ Rising(u) /\ Rising(q) /\ Rising(p)
  /\ \A k \in DOMAIN g : \A n \in Numbers(u) \cup Numbers(q) \cup Numbers(p) \cup w : g[k].to < n
  /\ Below(Numbers(u), Numbers(q) \cup Numbers(p) \cup w)
  /\ Below(Numbers(q), Numbers(p) \cup w)
  /\ Below(Numbers(p), w)

LEMMA StagesDrop ==
  ASSUME NEW g, NEW u, NEW q, NEW p, NEW w, Stages(g, u, q, p, w), NEW w2, w2 \subseteq w
  PROVE  Stages(g, <<>>, <<>>, <<>>, w2) /\ Stages(g, u, q, p, w2)
BY NumbersEmpty DEF Stages, Below

LEMMA StagesWritten ==
  ASSUME NEW g, NEW u, NEW q, NEW p, NEW w, Stages(g, u, q, p, w)
  PROVE  Stages(g, q, <<>>, p, w)
BY NumbersEmpty DEF Stages, Below

LEMMA StagesQueue ==
  ASSUME NEW E, NEW g, NEW u, NEW q \in Seq(E), NEW p \in Seq(E), NEW w, Stages(g, u, q, p, w),
         p # <<>>, Numbered(Head(p))
  PROVE  Stages(g, u, Append(q, Head(p)), Tail(p), w)
<1>1. PICK e : e = Head(p)
  OBVIOUS
<1>2. PICK t : t = Tail(p)
  OBVIOUS
<1>3. /\ Rising(t) /\ Numbers(t) \subseteq Numbers(p)
      /\ RequestOf(e) \in Numbers(p) /\ Below({RequestOf(e)}, Numbers(t))
  BY <1>1, <1>2, NumbersTail DEF Stages
<1>4. e \in E
  BY <1>1
<1>5. Rising(Append(q, e)) /\ Numbers(Append(q, e)) = Numbers(q) \cup {RequestOf(e)}
  <2>1. Numbered(e) /\ Below(Numbers(q), {RequestOf(e)}) /\ Rising(q)
    BY <1>1, <1>3 DEF Stages, Below
  <2> QED BY <1>4, <2>1, NumbersAppend
<1>6. PICK r : r = Append(q, e)
  OBVIOUS
<1>7. Stages(g, u, r, t, w)
  <2>1. Rising(r) /\ Numbers(r) = Numbers(q) \cup {RequestOf(e)}
    BY <1>5, <1>6
  <2>2. \A m \in Numbers(r) : m \in Numbers(q) \/ m \in Numbers(p)
    BY <1>3, <2>1
  <2>3. Below(Numbers(r), Numbers(t) \cup w)
    BY <1>3, <2>1 DEF Stages, Below
  <2>4. Below(Numbers(u), Numbers(r) \cup Numbers(t) \cup w) /\ Below(Numbers(t), w)
    BY <1>3, <2>2 DEF Stages, Below
  <2>5. \A k \in DOMAIN g : \A n \in Numbers(u) \cup Numbers(r) \cup Numbers(t) \cup w : g[k].to < n
    BY <1>3, <2>2 DEF Stages
  <2> QED BY <1>3, <2>1, <2>3, <2>4, <2>5 DEF Stages
<1> QED BY <1>1, <1>2, <1>6, <1>7

LEMMA StagesServe ==
  ASSUME NEW E, NEW A, NEW g \in Seq(A), NEW u \in Seq(E), NEW q, NEW p, NEW w, Stages(g, u, q, p, w),
         u # <<>>, Head(u).cmd = "publish", Head(u).arg \in A
  PROVE  Stages(Append(g, Head(u).arg), Tail(u), q, p, w)
<1>1. PICK a : a = Head(u).arg
  OBVIOUS
<1>2. PICK t : t = Tail(u)
  OBVIOUS
<1>3. Numbered(Head(u)) /\ RequestOf(Head(u)) = a.to
  BY <1>1 DEF Numbered, RequestOf
<1>4. /\ Rising(t) /\ Numbers(t) \subseteq Numbers(u)
      /\ a.to \in Numbers(u) /\ Below({a.to}, Numbers(t))
  BY <1>2, <1>3, NumbersTail DEF Stages
<1>5. PICK f : f = Append(g, a)
  OBVIOUS
<1>6. /\ DOMAIN f = DOMAIN g \cup {Len(g) + 1} /\ f[Len(g) + 1] = a
      /\ \A k \in DOMAIN g : f[k] = g[k] /\ k \in Nat /\ k < Len(g) + 1
      /\ Len(g) + 1 \in Nat
  BY <1>1, <1>5
<1>7. ASSUME NEW k \in DOMAIN f, NEW l \in DOMAIN f, k < l PROVE f[k].to < f[l].to
  <2>1. k \in DOMAIN g
    BY <1>6, <1>7
  <2>2. CASE l \in DOMAIN g
    BY <1>6, <1>7, <2>1, <2>2 DEF Stages
  <2>3. CASE l = Len(g) + 1
    BY <1>4, <1>6, <2>1, <2>3 DEF Stages
  <2> QED BY <1>6, <2>2, <2>3
<1>8. ASSUME NEW k \in DOMAIN f, NEW n \in Numbers(t) \cup Numbers(q) \cup Numbers(p) \cup w PROVE f[k].to < n
  <2>1. CASE k \in DOMAIN g
    BY <1>4, <1>6, <1>8, <2>1 DEF Stages
  <2>2. CASE k = Len(g) + 1
    BY <1>4, <1>6, <1>8, <2>2 DEF Stages, Below
  <2> QED BY <1>6, <2>1, <2>2
<1>9. Stages(f, t, q, p, w)
  BY <1>4, <1>7, <1>8 DEF Stages, Below
<1> QED BY <1>1, <1>2, <1>5, <1>9

LEMMA StagesPublish ==
  ASSUME NEW E, NEW g, NEW u, NEW q, NEW p \in Seq(E), NEW e \in E, Stages(g, u, q, p, {RequestOf(e)}), Numbered(e)
  PROVE  Stages(g, u, q, Append(p, e), {})
<1>1. PICK r : r = Append(p, e)
  OBVIOUS
<1>2. Rising(r) /\ Numbers(r) = Numbers(p) \cup {RequestOf(e)}
  BY <1>1, NumbersAppend DEF Stages
<1>3. Stages(g, u, q, r, {})
  BY <1>2 DEF Stages, Below
<1> QED BY <1>1, <1>3

LEMMA StagesWork ==
  ASSUME NEW g, NEW u, NEW q, NEW p, Stages(g, u, q, p, {}), NEW h, NEW n, Below(h, {n}),
         \A k \in DOMAIN g : g[k].to \in h,
         Numbers(u) \subseteq h, Numbers(q) \subseteq h, Numbers(p) \subseteq h
  PROVE  Stages(g, u, q, p, {n})
BY DEF Stages, Below

-----------------------------------------------------------------------------
(* The language of an answer *)

(* Of the requests h that were processed, a being all that were asked,     *)
(* those up to n that name a language, and the language in force at n.     *)
Naming(h, a, n) == {m \in h : m <= n /\ a[m].lang # None}
Greatest(N) == CHOOSE m \in N : \A k \in N : k <= m
InForce(h, a, n) ==
  IF Naming(h, a, n) = {} THEN "ja" ELSE a[Greatest(Naming(h, a, n))].lang

(* The answers that are right.                                             *)
RightAnswers(h, a) ==
  {x \in Answer : /\ x.to \in h
                  /\ x.lang = IF a[x.to].text = "sentence" THEN InForce(h, a, x.to) ELSE None}

(* A bounded set of numbers that is not empty has a greatest.              *)
LEMMA GreatestNatural ==
  ASSUME NEW b \in Nat, NEW T, T \subseteq 1..b, T # {}
  PROVE  \E n \in T : \A m \in T : m <= n
<1> DEFINE D == {b - m : m \in T}
<1>1. D \subseteq Nat /\ D # {}
  <2>1. \A m \in T : m \in 1..b
    OBVIOUS
  <2>2. \A m \in T : b - m \in Nat
    BY <2>1
  <2> QED BY <2>2
<1>2. PICK d \in D : \A e \in D : d <= e
  <2> HIDE DEF D
  <2> QED BY <1>1, LeastNatural
<1>3. PICK n \in T : d = b - n
  BY <1>2
<1>4. ASSUME NEW m \in T PROVE m <= n
  <2>1. b - n <= b - m
    BY <1>2, <1>3
  <2>2. m \in Int /\ n \in Int
    OBVIOUS
  <2> QED BY <2>1, <2>2
<1> QED BY <1>4

Named(h, a, n) ==
  \/ Naming(h, a, n) = {} /\ InForce(h, a, n) = "ja"
  \/ \E m \in Naming(h, a, n) : /\ \A k \in Naming(h, a, n) : k <= m
                                /\ InForce(h, a, n) = a[m].lang

LEMMA InForceNamed ==
  ASSUME NEW b \in Nat, NEW h, h \subseteq 1..b, NEW a, NEW n
  PROVE  Named(h, a, n)
<1> DEFINE N == Naming(h, a, n)
<1>1. N \subseteq 1..b
  BY DEF Naming
<1>2. CASE N # {}
  <2> HIDE DEF N
  <2>1. PICK m \in N : \A k \in N : k <= m
    BY <1>1, <1>2, GreatestNatural
  <2>2. PICK c : c = Greatest(N)
    OBVIOUS
  <2>3. c \in N /\ \A k \in N : k <= c
    BY <2>1, <2>2 DEF Greatest
  <2>4. InForce(h, a, n) = a[c].lang
    BY <1>2, <2>2 DEF InForce, N
  <2> QED BY <2>3, <2>4 DEF N, Named
<1>3. CASE N = {}
  BY <1>3 DEF InForce, Named
<1> QED BY <1>2, <1>3

(* It is one of those the requests name or the default, never None.        *)
LEMMA InForceSome ==
  ASSUME NEW b \in Nat, NEW h, h \subseteq 1..b, NEW a, NEW n
  PROVE  InForce(h, a, n) # None
<1>1. None # "ja"
  BY DialogueAssumption
<1>2. \A m \in Naming(h, a, n) : a[m].lang # None
  BY DEF Naming
<1>3. Named(h, a, n)
  BY InForceNamed
<1> QED BY <1>1, <1>2, <1>3 DEF Named

(* Later requests and later processing leave it as it is.                  *)
LEMMA InForceAsked ==
  ASSUME NEW a \in Seq(Requests), NEW h, h \subseteq 1..Len(a), NEW r \in Requests, NEW n
  PROVE  InForce(h, Append(a, r), n) = InForce(h, a, n)
<1>1. PICK b : b = Append(a, r)
  OBVIOUS
<1>2. \A m \in h : b[m] = a[m] 
  BY <1>1
<1>3. Naming(h, b, n) = Naming(h, a, n)
  BY <1>2 DEF Naming
<1>4. Naming(h, a, n) # {} => Greatest(Naming(h, a, n)) \in h
  <2>1. Naming(h, a, n) \subseteq h /\ Len(a) \in Nat
    BY DEF Naming
  <2>2. PICK N : N = Naming(h, a, n)
    OBVIOUS
  <2>3. N # {} => \E m \in N : \A k \in N : k <= m
    <3>1. N \subseteq 1..Len(a)
      BY <2>1, <2>2
    <3> QED BY <2>1, <3>1, GreatestNatural
  <2>4. N # {} => Greatest(N) \in N
    BY <2>3 DEF Greatest
  <2> QED BY <2>1, <2>2, <2>4
<1>5. InForce(h, b, n) = InForce(h, a, n)
  BY <1>2, <1>3, <1>4 DEF InForce
<1> QED BY <1>1, <1>5

LEMMA InForceProcessed ==
  ASSUME NEW h, NEW a, NEW n, NEW k, n < k \/ a[k].lang = None,
         NEW b \in Nat, n \in 0..b, k \in 1..b
  PROVE  InForce(h \cup {k}, a, n) = InForce(h, a, n)
<1>1. ~ (k <= n /\ a[k].lang # None)
  OBVIOUS
<1>2. Naming(h \cup {k}, a, n) = Naming(h, a, n)
  BY <1>1 DEF Naming
<1> QED BY <1>2 DEF InForce

(* A request that names a language sets it.                                *)
SetBy(h, k, a, n) == InForce(h \cup {k}, a, n) = a[k].lang
LEMMA InForceSet ==
  ASSUME NEW b \in Nat, NEW h, h \subseteq 1..b, NEW k \in 1..b, Below(h, {k}),
         NEW a, a[k].lang # None, NEW n \in Nat, k <= n
  PROVE  SetBy(h, k, a, n)
<1> DEFINE g == h \cup {k}
<1>1. k \in Naming(g, a, n) /\ g \subseteq 1..b
  BY DEF Naming
<1>2. \A m \in Naming(g, a, n) : m = k \/ m < k
  BY DEF Naming, Below
<1>3. PICK m \in Naming(g, a, n) : (\A j \in Naming(g, a, n) : j <= m) /\ InForce(g, a, n) = a[m].lang
  <2>1. PICK f : f = g
    OBVIOUS
  <2>2. f \subseteq 1..b /\ k \in Naming(f, a, n)
    BY <1>1, <2>1
  <2>3. Named(f, a, n)
    BY <2>2, InForceNamed
  <2> QED BY <2>1, <2>2, <2>3 DEF Named
<1>4. m \in 1..b /\ k <= m
  BY <1>1, <1>3 DEF Naming
<1>5. m = k
  BY <1>2, <1>4
<1> QED BY <1>3, <1>5 DEF SetBy

LEMMA InForceEarly ==
  ASSUME NEW b \in Nat, NEW h, h \subseteq 1..b, NEW a, NEW k \in 1..b, Below(h, {k})
  PROVE  InForce(h, a, k) = InForce(h, a, b)
<1>1. \A m \in h : m <= k /\ m <= b
  BY DEF Below
<1>2. Naming(h, a, k) = Naming(h, a, b)
  BY <1>1 DEF Naming
<1> QED BY <1>2 DEF InForce

(* What onMessageAPI takes as the language of a request it processes, and  *)
(* keeps, is the one in force there.                                       *)
Now(h, k, a, b) ==
  LET l == IF a[k].lang # None THEN a[k].lang ELSE InForce(h, a, b)
  IN InForce(h \cup {k}, a, k) = l /\ InForce(h \cup {k}, a, b) = l
LEMMA InForceNow ==
  ASSUME NEW b \in Nat, NEW h, h \subseteq 1..b, NEW k \in 1..b, Below(h, {k}), NEW a
  PROVE  Now(h, k, a, b)
<1>1. k \in Nat /\ k <= b /\ k \in 0..b /\ b \in 0..b
  OBVIOUS
<1>2. CASE a[k].lang # None
  <2>1. b \in Nat /\ k \in Nat /\ k <= k
    OBVIOUS
  <2>2. SetBy(h, k, a, k)
    BY <1>1, <1>2, <2>1, InForceSet
  <2>3. SetBy(h, k, a, b)
    BY <1>1, <1>2, <2>1, InForceSet
  <2> QED BY <1>2, <2>2, <2>3 DEF SetBy, Now
<1>3. CASE a[k].lang = None
  <2>1. InForce(h \cup {k}, a, k) = InForce(h, a, k)
    BY <1>1, <1>3, InForceProcessed
  <2>2. InForce(h \cup {k}, a, b) = InForce(h, a, b)
    BY <1>1, <1>3, InForceProcessed
  <2>3. InForce(h, a, k) = InForce(h, a, b)
    BY InForceEarly
  <2> QED BY <1>3, <2>1, <2>2, <2>3 DEF Now
<1> QED BY <1>2, <1>3

LEMMA RightAsked ==
  ASSUME NEW a \in Seq(Requests), NEW h, h \subseteq 1..Len(a), NEW r \in Requests
  PROVE  RightAnswers(h, a) \subseteq RightAnswers(h, Append(a, r))
<1> SUFFICES ASSUME NEW x \in RightAnswers(h, a) PROVE x \in RightAnswers(h, Append(a, r))
  OBVIOUS
<1>1. PICK n : n = x.to
  OBVIOUS
<1>2. x \in Answer /\ n \in h /\ x.lang = IF a[n].text = "sentence" THEN InForce(h, a, n) ELSE None
  BY <1>1 DEF RightAnswers
<1>3. InForce(h, Append(a, r), n) = InForce(h, a, n)
  BY InForceAsked
<1>4. Append(a, r)[n] = a[n]
  <2>1. n \in 1..Len(a)
    BY <1>2
  <2> QED BY <2>1
<1> QED BY <1>1, <1>2, <1>3, <1>4 DEF RightAnswers

LEMMA RightProcessed ==
  ASSUME NEW b \in Nat, NEW a, NEW h, h \subseteq 1..b, NEW k \in 1..b, Below(h, {k})
  PROVE  RightAnswers(h, a) \subseteq RightAnswers(h \cup {k}, a)
<1> SUFFICES ASSUME NEW x \in RightAnswers(h, a) PROVE x \in RightAnswers(h \cup {k}, a)
  OBVIOUS
<1>1. PICK n : n = x.to
  OBVIOUS
<1>2. x \in Answer /\ n \in h /\ x.lang = IF a[n].text = "sentence" THEN InForce(h, a, n) ELSE None
  BY <1>1 DEF RightAnswers
<1>3. InForce(h \cup {k}, a, n) = InForce(h, a, n)
  <2>1. n < k /\ n \in 0..b
    BY <1>2 DEF Below
  <2> QED BY <2>1, InForceProcessed
<1> QED BY <1>1, <1>2, <1>3 DEF RightAnswers

-----------------------------------------------------------------------------
(* The inductive invariant of the answers *)

Untaken == SubSeq(dataWrited[Pub], taken[Pub] + 1, Len(dataWrited[Pub]))
InWork == IF busy = None THEN {} ELSE {busy.to}

(* Requests are processed in the order they were asked in, and answers are *)
(* given in the order their requests were processed in.                    *)
InOrder == Ordered(handled, posted[Sub], incoming[Sub])
OutOrder == Stages(answers, Untaken, dataQueued[Pub], posted[Pub], InWork)

(* An answer, given or on its way, is the right one.                       *)
RightPublishes == [cmd : {"publish"}, arg : RightAnswers(handled, asked)]
QueuesRight ==
  posted[Pub] \in Seq(RightPublishes) /\ dataQueued[Pub] \in Seq(RightPublishes)
    /\ dataWrited[Pub] \in Seq(RightPublishes)
LanguageOK ==
  /\ gLang = InForce(handled, asked, Len(asked))
  /\ answers \in Seq(RightAnswers(handled, asked))
  /\ QueuesRight
  /\ busy # None => [to |-> busy.to, lang |-> busy.lang] \in RightAnswers(handled, asked)

IInv == QInv /\ KnownOK /\ InOrder /\ OutOrder /\ LanguageOK

LEMMA InitAnswers == Init => InOrder /\ OutOrder /\ LanguageOK
<1> SUFFICES ASSUME Init PROVE InOrder /\ OutOrder /\ LanguageOK
  OBVIOUS
<1>1. Sub \in Clients /\ Pub \in Clients
  BY DialogueAssumption
<1>2. /\ posted[Sub] = <<>> /\ incoming[Sub] = <<>> /\ posted[Pub] = <<>> /\ dataQueued[Pub] = <<>>
      /\ dataWrited[Pub] = <<>> /\ taken[Pub] = 0
      /\ handled = {} /\ answers = <<>> /\ busy = None /\ asked = <<>> /\ gLang = "ja"
  BY <1>1 DEF Init, ClientInit
<1>3. InOrder
  BY <1>2, NumbersEmpty DEF InOrder, Ordered, Below
<1>4. OutOrder
  <2>1. Untaken = <<>>
    BY <1>2, SubSeqEmpty DEF Untaken
  <2>2. InWork = {}
    BY <1>2 DEF InWork
  <2>3. Stages(<<>>, <<>>, <<>>, <<>>, {})
    BY NumbersEmpty DEF Stages, Below
  <2> QED BY <1>2, <2>1, <2>2, <2>3 DEF OutOrder
<1>5. LanguageOK
  <2>1. <<>> \in Seq(RightAnswers(handled, asked)) /\ <<>> \in Seq(RightPublishes)
    OBVIOUS
  <2>2. InForce({}, <<>>, Len(<<>>)) = "ja"
    BY DEF InForce, Naming
  <2> QED BY <1>2, <2>1, <2>2 DEF LanguageOK, QueuesRight
<1> QED BY <1>3, <1>4, <1>5

(* Numbers of messages are those of requests.                              *)
LEMMA NumbersKnown ==
  ASSUME NEW s \in Seq(KnownEntries)
  PROVE  Numbers(s) \subseteq 1..Len(asked)
<1> SUFFICES ASSUME NEW k \in DOMAIN s, Numbered(s[k]) PROVE RequestOf(s[k]) \in 1..Len(asked)
  BY DEF Numbers
<1>1. s[k] \in KnownEntries
  OBVIOUS
<1>2. s[k] # Subscribe
  BY DEF Numbered, Subscribe
<1>3. s[k].cmd = "message" /\ s[k].arg \in 1..Len(asked)
  BY <1>1, <1>2 DEF KnownEntries
<1> QED BY <1>3 DEF RequestOf

LEMMA InOrderKept ==
  ASSUME InOrder, handled' = handled,
         posted'[Sub] \in {posted[Sub], <<>>}, incoming'[Sub] \in {incoming[Sub], <<>>}
  PROVE  InOrder'
BY OrderedDrop DEF InOrder

LEMMA InOrderStep ==
  ASSUME QInv, KnownOK, InOrder, Next
  PROVE  InOrder'
<1>a. ClientTypes /\ ServiceTypes /\ \A d \in Clients : ClientOK(d)
  BY DEF QInv, TypeOK, QueuesOK
<1>b. Sub \in Clients /\ Pub \in Clients /\ Sub # Pub /\ \A c \in Clients : c # Sub => c = Pub
  BY DialogueAssumption
<1>c. /\ posted[Sub] \in Seq(KnownEntries) /\ incoming[Sub] \in Seq(KnownEntries)
      /\ Subscribe \in KnownEntries /\ ~Numbered(Subscribe)
  BY DEF KnownOK, KnownEntries, Numbered, Subscribe
<1>d. Ordered(handled, posted[Sub], incoming[Sub])
  BY DEF InOrder
<1>1. ASSUME NEW r \in Requests, Ask(r) PROVE InOrder'
  <2>1. PICK m : m = [cmd |-> "message", arg |-> Len(asked) + 1]
    OBVIOUS
  <2>2. Len(asked) \in Nat /\ handled \subseteq 1..Len(asked)
    BY <1>a DEF ServiceTypes
  <2>3. Numbered(m) /\ RequestOf(m) = Len(asked) + 1
    BY <2>1 DEF Numbered, RequestOf
  <2>4. ASSUME NEW T, T \subseteq 1..Len(asked) PROVE Below(T, {RequestOf(m)})
    BY <2>2, <2>3, <2>4 DEF Below
  <2>5. /\ Below(handled, {RequestOf(m)}) /\ Below(Numbers(posted[Sub]), {RequestOf(m)})
        /\ Below(Numbers(incoming[Sub]), {RequestOf(m)})
    BY <1>c, <2>2, <2>4, NumbersKnown
  <2>6. posted'[Sub] = posted[Sub] /\ handled' = handled /\ incoming'[Sub] \in {incoming[Sub], Append(incoming[Sub], m)}
    BY <1>1, <1>a, <1>b, <2>1 DEF Ask, ClientTypes
  <2>7. Ordered(handled, posted[Sub], Append(incoming[Sub], m))
    <3>1. incoming[Sub] \in Seq(KnownEntries \cup {m})
      BY <1>c, SeqMonotonic
    <3>2. m \in KnownEntries \cup {m}
      OBVIOUS
    <3> QED BY <1>d, <2>3, <2>5, <3>1, <3>2, OrderedAsk
  <2> QED BY <1>d, <2>6, <2>7 DEF InOrder
<1>2. ASSUME handled' = handled, NEW c \in Clients,
             Connecting(c) \/ HandleAsyncConnect(c) \/ DoAsyncCommand(c) \/ ServerTakes(c)
               \/ AsyncWrite(c) \/ AsyncRead(c) \/ Break(c) \/ Forgotten(c)
      PROVE  InOrder'
  <2>1. CASE c # Sub
    <3>1. OnlyOf(c)
      BY <1>2, <1>a, OnlyOne
    <3>2. posted'[Sub] = posted[Sub] /\ incoming'[Sub] = incoming[Sub]
      BY <1>b, <2>1, <3>1 DEF OnlyOf
    <3> QED BY <1>2, <3>2, InOrderKept
  <2>2. CASE c = Sub
    <3>1. CASE Connecting(c) \/ AsyncWrite(c)
      <4>1. posted' = posted /\ incoming' = incoming
        BY <3>1 DEF Connecting, Construct, Connect, ConnectFails, AsyncWrite
      <4> QED BY <1>2, <4>1, InOrderKept
    <3>2. CASE HandleAsyncConnect(c)
      <4>1. incoming' = incoming /\ posted'[Sub] \in {posted[Sub], Append(posted[Sub], Subscribe)}
        BY <1>a, <1>b, <2>2, <3>2 DEF HandleAsyncConnect, ClientTypes
      <4>2. Ordered(handled, Append(posted[Sub], Subscribe), incoming[Sub])
        BY <1>c, <1>d, OrderedCommand
      <4> QED BY <1>2, <1>d, <4>1, <4>2 DEF InOrder
    <3>3. CASE DoAsyncCommand(c)
      <4>1. incoming' = incoming /\ posted'[Sub] = Tail(posted[Sub]) /\ posted[Sub] # <<>>
        BY <1>a, <1>b, <2>2, <3>3 DEF DoAsyncCommand, ClientTypes
      <4>2. Ordered(handled, Tail(posted[Sub]), incoming[Sub])
        BY <1>c, <1>d, <4>1, OrderedTake
      <4> QED BY <1>2, <4>1, <4>2 DEF InOrder
    <3>4. CASE ServerTakes(c)
      <4>1. PICK e : e = dataWrited[Sub][taken[Sub] + 1]
        OBVIOUS
      <4>2. /\ posted' = posted /\ incoming'[Sub] = Append(incoming[Sub], e)
            /\ taken[Sub] < Len(dataWrited[Sub]) /\ taken[Sub] \in Nat
        BY <1>a, <1>b, <2>2, <3>4, <4>1 DEF ServerTakes, ClientTypes
      <4>3. dataWrited[Sub] \in Seq({Subscribe})
        BY <1>a, <1>b DEF ClientOK, CommandsOf
      <4>4. e = Subscribe
        BY <4>1, <4>2, <4>3
      <4>5. Ordered(handled, posted[Sub], Append(incoming[Sub], Subscribe))
        BY <1>c, <1>d, OrderedCommand
      <4> QED BY <1>2, <4>2, <4>4, <4>5 DEF InOrder
    <3>5. CASE AsyncRead(c)
      <4>1. /\ incoming[Sub] # <<>> /\ incoming'[Sub] = Tail(incoming[Sub])
            /\ posted'[Sub] \in {posted[Sub], Append(posted[Sub], Head(incoming[Sub]))}
        BY <1>a, <1>b, <2>2, <3>5 DEF AsyncRead, ClientTypes
      <4>2. /\ Ordered(handled, posted[Sub], Tail(incoming[Sub]))
            /\ Ordered(handled, Append(posted[Sub], Head(incoming[Sub])), Tail(incoming[Sub]))
        BY <1>c, <1>d, <4>1, OrderedRead
      <4> QED BY <1>2, <4>1, <4>2 DEF InOrder
    <3>6. CASE Break(c) \/ Forgotten(c)
      <4>1. posted'[Sub] \in {posted[Sub], <<>>} /\ incoming'[Sub] = <<>>
        BY <1>a, <1>b, <2>2, <3>6 DEF Break, Forgotten, ClientTypes
      <4> QED BY <1>2, <4>1, InOrderKept
    <3> QED BY <1>2, <3>1, <3>2, <3>3, <3>4, <3>5, <3>6
  <2> QED BY <2>1, <2>2
<1>3. ASSUME NEW c \in Clients, Serve(c) \/ Fault(c) \/ Run(c) \/ RunEnds(c) PROVE InOrder'
  <2>1. handled' = handled
    BY <1>3 DEF Serve, Fault, Run, RunEnds
  <2>2. Connecting(c) \/ HandleAsyncConnect(c) \/ DoAsyncCommand(c) \/ ServerTakes(c)
          \/ AsyncWrite(c) \/ AsyncRead(c) \/ Break(c) \/ Forgotten(c)
    BY <1>3 DEF Serve, Fault, Run, RunEnds, Destroy, Connecting
  <2> QED BY <1>2, <2>1, <2>2
<1>4. ASSUME ProcessText PROVE InOrder'
  <2>1. PICK n : n = Head(posted[Sub]).arg
    OBVIOUS
  <2>2. /\ incoming' = incoming /\ posted[Sub] # <<>> /\ posted'[Sub] = Tail(posted[Sub])
        /\ IsMessage(Head(posted[Sub])) /\ handled' = handled \cup {n}
    BY <1>4, <1>a, <1>b, <2>1 DEF ProcessText, ClientTypes
  <2>3. Numbered(Head(posted[Sub])) /\ RequestOf(Head(posted[Sub])) = n
    BY <2>1, <2>2 DEF IsMessage, Numbered, RequestOf
  <2>4. Ordered(handled \cup {n}, Tail(posted[Sub]), incoming[Sub])
    BY <1>c, <1>d, <2>2, <2>3, OrderedTake
  <2> QED BY <2>2, <2>4 DEF InOrder
<1>5. ASSUME Dies PROVE InOrder'
  <2>1. handled' = handled /\ posted'[Sub] = <<>> /\ incoming'[Sub] = <<>>
    BY <1>5, <1>b DEF Dies
  <2> QED BY <2>1, InOrderKept
<1>6. ASSUME ProcessTextDies \/ LockNothing \/ LockRace \/ LockRef \/ Publish \/ PublishStale
      PROVE  InOrder'
  <2>1. CASE Dies
    BY <1>5, <2>1
  <2>2. CASE ~Dies
    <3>1. handled' = handled /\ incoming' = incoming /\ posted'[Sub] = posted[Sub]
      BY <1>6, <1>a, <1>b, <2>2
      DEF ProcessTextDies, LockNothing, LockRace, LockRef, Publish, PublishStale, Keep, clientVars,
          ClientTypes
    <3> QED BY <3>1, InOrderKept
  <2> QED BY <2>1, <2>2
<1> QED BY <1>1, <1>3, <1>4, <1>6 DEF Next, OnMessage

(* What a step may do to the queues of the publisher: nothing, take a      *)
(* command from the strand to the queue or at once to a write, write what  *)
(* is queued, and forget all.                                              *)
Kept ==
  /\ posted'[Pub] = posted[Pub] /\ dataQueued'[Pub] = dataQueued[Pub]
  /\ dataWrited'[Pub] = dataWrited[Pub] /\ Untaken' = Untaken
Queued ==
  /\ posted[Pub] # <<>> /\ Numbered(Head(posted[Pub]))
  /\ posted'[Pub] = Tail(posted[Pub])
  /\ \/ /\ dataQueued'[Pub] = Append(dataQueued[Pub], Head(posted[Pub]))
        /\ dataWrited'[Pub] = dataWrited[Pub] /\ Untaken' = Untaken
     \/ /\ dataWrited'[Pub] = Append(dataQueued[Pub], Head(posted[Pub]))
        /\ Untaken' = Append(dataQueued[Pub], Head(posted[Pub])) /\ dataQueued'[Pub] = <<>>
Written ==
  /\ posted'[Pub] = posted[Pub] /\ dataWrited'[Pub] = dataQueued[Pub]
  /\ Untaken' = dataQueued[Pub] /\ dataQueued'[Pub] = <<>>
Emptied ==
  posted'[Pub] = <<>> /\ dataQueued'[Pub] = <<>> /\ dataWrited'[Pub] = <<>> /\ Untaken' = <<>>

LEMMA PublisherStep ==
  ASSUME ClientTypes, ClientOK(Pub),
         Connecting(Pub) \/ HandleAsyncConnect(Pub) \/ DoAsyncCommand(Pub)
           \/ AsyncWrite(Pub) \/ AsyncRead(Pub) \/ Break(Pub) \/ Forgotten(Pub)
  PROVE  Kept \/ Queued \/ Written \/ Emptied
<1>a. Pub \in Clients /\ Pub \notin Subscribers /\ Pub # Sub
  BY DialogueAssumption
<1>b. CommandsOf(Pub) = Publishes /\ EntriesOf(Pub) = Publishes
  BY <1>a DEF CommandsOf, EntriesOf
<1>c. /\ posted[Pub] \in Seq(Publishes) /\ dataQueued[Pub] \in Seq(Publishes)
      /\ dataWrited[Pub] \in Seq(Publishes) /\ incoming[Pub] \in Seq(Publishes)
      /\ taken[Pub] \in Nat /\ taken[Pub] <= Len(dataWrited[Pub])
  BY <1>a, <1>b DEF ClientOK, ClientTypes
<1>1. CASE Connecting(Pub) \/ HandleAsyncConnect(Pub) \/ Break(Pub)
  <2>1. UNCHANGED <<posted, dataQueued, dataWrited, taken>>
    BY <1>a, <1>1 DEF Connecting, Construct, Connect, ConnectFails, HandleAsyncConnect, Break
  <2> QED BY <2>1 DEF Kept, Untaken
<1>2. CASE AsyncRead(Pub)
  <2>1. incoming[Pub] # <<>>
    BY <1>2 DEF AsyncRead
  <2>2. Head(incoming[Pub]) \in Publishes
    BY <1>c, <2>1
  <2>3. ~IsMessage(Head(incoming[Pub]))
    BY <2>2 DEF Publishes, IsMessage
  <2>4. UNCHANGED <<posted, dataQueued, dataWrited, taken>>
    BY <1>2, <2>3 DEF AsyncRead
  <2> QED BY <2>4 DEF Kept, Untaken
<1>3. CASE AsyncWrite(Pub)
  <2>1. /\ posted'[Pub] = posted[Pub] /\ dataWrited'[Pub] = dataQueued[Pub] /\ dataQueued'[Pub] = <<>>
        /\ taken'[Pub] = 0
    BY <1>a, <1>3 DEF AsyncWrite, ClientTypes
  <2>2. Untaken' = SubSeq(dataQueued[Pub], 1, Len(dataQueued[Pub]))
    BY <2>1 DEF Untaken
  <2>3. Untaken' = dataQueued[Pub]
    BY <1>c, <2>2, SubSeqFull
  <2> QED BY <2>1, <2>3 DEF Written
<1>4. CASE Forgotten(Pub)
  <2>1. posted'[Pub] = <<>> /\ dataQueued'[Pub] = <<>> /\ dataWrited'[Pub] = <<>> /\ taken'[Pub] = 0
    BY <1>a, <1>4 DEF Forgotten, ClientTypes
  <2>2. Untaken' = <<>>
    BY <2>1, SubSeqEmpty DEF Untaken
  <2> QED BY <2>1, <2>2 DEF Emptied
<1>5. CASE DoAsyncCommand(Pub)
  <2>1. PICK e : e = Head(posted[Pub])
    OBVIOUS
  <2>2. PICK q : q = Append(dataQueued[Pub], e)
    OBVIOUS
  <2>3. /\ posted[Pub] # <<>> /\ IsCommand(e) /\ posted'[Pub] = Tail(posted[Pub])
        /\ dataQueued'[Pub] = IF dataWrited[Pub] = <<>> THEN <<>> ELSE q
        /\ dataWrited'[Pub] = IF dataWrited[Pub] = <<>> THEN q ELSE dataWrited[Pub]
        /\ taken' = taken
    BY <1>a, <1>5, <2>1, <2>2 DEF DoAsyncCommand, ClientTypes
  <2>4. e \in Publishes /\ q \in Seq(Publishes)
    BY <1>c, <2>1, <2>2, <2>3
  <2>5. Numbered(e)
    BY <2>4 DEF Publishes, Numbered
  <2>6. CASE dataWrited[Pub] = <<>>
    <3>1. taken[Pub] = 0
      BY <1>c, <2>6
    <3>2. Untaken' = SubSeq(q, 1, Len(q))
      BY <2>3, <2>6, <3>1 DEF Untaken
    <3>3. Untaken' = q
      BY <2>4, <3>2, SubSeqFull
    <3> QED BY <2>1, <2>2, <2>3, <2>5, <2>6, <3>3 DEF Queued
  <2>7. CASE dataWrited[Pub] # <<>>
    <3>1. Untaken' = Untaken
      BY <2>3, <2>7 DEF Untaken
    <3> QED BY <2>1, <2>2, <2>3, <2>5, <2>7, <3>1 DEF Queued
  <2> QED BY <2>6, <2>7
<1> QED BY <1>1, <1>2, <1>3, <1>4, <1>5

(* The server takes the first command it has not taken.                    *)
LEMMA ServerStep ==
  ASSUME ClientTypes, ClientOK(Pub), ServerTakes(Pub)
  PROVE  /\ posted' = posted /\ dataQueued' = dataQueued /\ dataWrited' = dataWrited
         /\ Untaken \in Seq(Publishes) /\ Untaken # <<>> /\ Untaken' = Tail(Untaken)
         /\ Head(Untaken) = dataWrited[Pub][taken[Pub] + 1]
         /\ taken[Pub] + 1 \in 1..Len(dataWrited[Pub])
<1>a. Pub \in Clients /\ Pub # Sub
  BY DialogueAssumption
<1>1. PICK w : w = dataWrited[Pub]
  OBVIOUS
<1>2. PICK t : t = taken[Pub] + 1
  OBVIOUS
<1>3. w \in Seq(Publishes) /\ taken[Pub] \in Nat
  BY <1>a, <1>1 DEF ClientOK, ClientTypes, CommandsOf
<1>4. /\ UNCHANGED <<posted, dataQueued, dataWrited>> /\ taken'[Pub] = t
      /\ taken[Pub] < Len(w)
  BY <1>a, <1>1, <1>2 DEF ServerTakes, ClientTypes
<1>5. t \in 1..Len(w) /\ Len(w) \in t..Len(w)
  BY <1>2, <1>3, <1>4
<1>6. Head(SubSeq(w, t, Len(w))) = w[t] /\ Tail(SubSeq(w, t, Len(w))) = SubSeq(w, t + 1, Len(w))
  BY <1>3, <1>5, HeadTailOfSubSeq
<1>7. Untaken = SubSeq(w, t, Len(w)) /\ Untaken' = SubSeq(w, t + 1, Len(w))
  BY <1>1, <1>2, <1>4 DEF Untaken
<1>8. SubSeq(w, t, Len(w)) # <<>> /\ SubSeq(w, t, Len(w)) \in Seq(Publishes)
  <2>1. t \in Int /\ Len(w) \in Int /\ t <= Len(w)
    BY <1>3, <1>5
  <2>2. \A i \in t..Len(w) : w[i] \in Publishes
    BY <1>3, <1>5
  <2>3. SubSeq(w, t, Len(w)) \in Seq(Publishes) /\ Len(SubSeq(w, t, Len(w))) = Len(w) - t + 1
    BY <2>1, <2>2, SubSeqProperties
  <2>4. PICK v : v = SubSeq(w, t, Len(w))
    OBVIOUS
  <2>5. v \in Seq(Publishes) /\ Len(v) # 0
    BY <2>1, <2>3, <2>4
  <2>6. v # <<>>
    BY <2>5
  <2> QED BY <2>3, <2>4, <2>6
<1> QED BY <1>1, <1>2, <1>4, <1>5, <1>6, <1>7, <1>8

(* A queue of right answers stays one.                                     *)
LEMMA QueuesRightStep ==
  ASSUME QueuesRight, RightPublishes' = RightPublishes, Kept \/ Queued \/ Written \/ Emptied
  PROVE  QueuesRight'
<1>1. /\ posted[Pub] \in Seq(RightPublishes) /\ dataQueued[Pub] \in Seq(RightPublishes)
      /\ dataWrited[Pub] \in Seq(RightPublishes) /\ <<>> \in Seq(RightPublishes)
  BY DEF QueuesRight
<1>2. CASE Kept
  BY <1>1, <1>2 DEF Kept, QueuesRight
<1>3. CASE Queued
  <2>1. Head(posted[Pub]) \in RightPublishes /\ Tail(posted[Pub]) \in Seq(RightPublishes)
    BY <1>1, <1>3 DEF Queued
  <2>2. Append(dataQueued[Pub], Head(posted[Pub])) \in Seq(RightPublishes)
    BY <1>1, <2>1
  <2> QED BY <1>1, <1>3, <2>1, <2>2 DEF Queued, QueuesRight
<1>4. CASE Written
  BY <1>1, <1>4 DEF Written, QueuesRight
<1>5. CASE Emptied
  BY <1>1, <1>5 DEF Emptied, QueuesRight
<1> QED BY <1>2, <1>3, <1>4, <1>5

(* Answers on their way out stay in order.                                 *)
LEMMA StagesStep ==
  ASSUME ClientOK(Pub), OutOrder, answers' = answers, InWork' \subseteq InWork,
         Kept \/ Queued \/ Written \/ Emptied
  PROVE  OutOrder'
<1>a. Pub \in Clients /\ Pub # Sub
  BY DialogueAssumption
<1>b. posted[Pub] \in Seq(Publishes) /\ dataQueued[Pub] \in Seq(Publishes)
  BY <1>a DEF ClientOK, CommandsOf, EntriesOf
<1>1. /\ Stages(answers, Untaken, dataQueued[Pub], posted[Pub], InWork')
      /\ Stages(answers, <<>>, <<>>, <<>>, InWork')
  BY StagesDrop DEF OutOrder
<1>2. CASE Kept
  BY <1>1, <1>2 DEF Kept, OutOrder
<1>3. CASE Queued
  <2>1. Stages(answers, Untaken, Append(dataQueued[Pub], Head(posted[Pub])), Tail(posted[Pub]), InWork')
    BY <1>b, <1>1, <1>3, StagesQueue DEF Queued
  <2>2. Stages(answers, Append(dataQueued[Pub], Head(posted[Pub])), <<>>, Tail(posted[Pub]), InWork')
    BY <2>1, StagesWritten
  <2> QED BY <1>3, <2>1, <2>2 DEF Queued, OutOrder
<1>4. CASE Written
  <2>1. Stages(answers, dataQueued[Pub], <<>>, posted[Pub], InWork')
    BY <1>1, StagesWritten
  <2> QED BY <1>4, <2>1 DEF Written, OutOrder
<1>5. CASE Emptied
  BY <1>1, <1>5 DEF Emptied, OutOrder
<1> QED BY <1>2, <1>3, <1>4, <1>5

(* The queues of the publisher hold answers to requests that were handled. *)
LEMMA NumbersHandled ==
  ASSUME NEW s \in Seq(RightPublishes)
  PROVE  Numbers(s) \subseteq handled
<1> SUFFICES ASSUME NEW k \in DOMAIN s PROVE RequestOf(s[k]) \in handled
  BY DEF Numbers
<1>1. s[k] \in RightPublishes
  OBVIOUS
<1>2. s[k].cmd = "publish" /\ s[k].arg \in RightAnswers(handled, asked)
  BY <1>1 DEF RightPublishes
<1> QED BY <1>2 DEF RequestOf, RightAnswers

(* A step of a client, of which only the server's concerns the answers.    *)
LEMMA AnswersClient ==
  ASSUME QInv, OutOrder, LanguageOK, NEW c \in Clients,
         Serve(c) \/ Fault(c) \/ Run(c) \/ RunEnds(c)
  PROVE  OutOrder' /\ LanguageOK'
<1>a. ClientTypes /\ ServiceTypes /\ \A d \in Clients : ClientOK(d)
  BY DEF QInv, TypeOK, QueuesOK
<1>b. Sub \in Clients /\ Pub \in Clients /\ Sub # Pub /\ c \in {Sub, Pub}
  BY DialogueAssumption
<1>c. /\ gLang = InForce(handled, asked, Len(asked))
      /\ answers \in Seq(RightAnswers(handled, asked))
      /\ QueuesRight
      /\ busy # None => [to |-> busy.to, lang |-> busy.lang] \in RightAnswers(handled, asked)
  BY DEF LanguageOK
<1>1. /\ asked' = asked /\ handled' = handled /\ gLang' = gLang
      /\ busy' = busy \/ (busy # None /\ busy' = [busy EXCEPT !.step = "stale"])
  BY DEF Serve, Fault, Run, RunEnds
<1>2. busy' = busy \/ (busy # None /\ busy'.to = busy.to /\ busy'.lang = busy.lang)
  <2>1. CASE busy' = busy
    BY <2>1
  <2>2. CASE busy # None /\ busy' = [busy EXCEPT !.step = "stale"]
    <3>1. busy \in [to : Nat \ {0}, step : {"lock", "publish", "stale"}, lang : Languages \cup {None}]
      BY <1>a, <2>2 DEF ServiceTypes
    <3>2. busy'.to = busy.to /\ busy'.lang = busy.lang
      BY <2>2, <3>1
    <3> QED BY <2>2, <3>2
  <2> QED BY <1>1, <2>1, <2>2
<1>3. InWork' \subseteq InWork
  BY <1>2 DEF InWork
<1>4. RightPublishes' = RightPublishes /\ RightAnswers(handled', asked') = RightAnswers(handled, asked)
  BY <1>1 DEF RightPublishes
<1>5. busy' # None => [to |-> busy'.to, lang |-> busy'.lang] \in RightAnswers(handled, asked)
  BY <1>2, <1>c
<1>6. ASSUME QueuesRight', answers' \in Seq(RightAnswers(handled, asked)) PROVE LanguageOK'
  BY <1>1, <1>c, <1>5, <1>6 DEF LanguageOK
<1>7. CASE answers' = answers /\ (Kept \/ Queued \/ Written \/ Emptied)
  <2>1. QueuesRight'
    BY <1>4, <1>7, <1>c, QueuesRightStep
  <2>2. LanguageOK'
    BY <1>6, <1>7, <1>c, <2>1
  <2>3. OutOrder'
    BY <1>3, <1>7, <1>a, <1>b, StagesStep
  <2> QED BY <2>2, <2>3
<1>8. CASE Serve(Pub)
  <2>1. PICK e : e = dataWrited[Pub][taken[Pub] + 1]
    OBVIOUS
  <2>2. /\ UNCHANGED <<posted, dataQueued, dataWrited>>
        /\ Untaken \in Seq(Publishes) /\ Untaken # <<>> /\ Untaken' = Tail(Untaken)
        /\ Head(Untaken) = e /\ taken[Pub] + 1 \in 1..Len(dataWrited[Pub])
    BY <1>8, <1>a, <1>b, <2>1, ServerStep DEF Serve
  <2>3. e \in RightPublishes
    BY <1>c, <2>1, <2>2 DEF QueuesRight
  <2>4. e.cmd = "publish" /\ e.arg \in RightAnswers(handled, asked)
    BY <2>3 DEF RightPublishes
  <2>5. answers' = Append(answers, e.arg)
    BY <1>8, <2>1, <2>4 DEF Serve
  <2>6. LanguageOK'
    <3>1. QueuesRight'
      BY <1>4, <1>c, <2>2 DEF QueuesRight
    <3>2. answers' \in Seq(RightAnswers(handled, asked))
      BY <1>c, <2>4, <2>5
    <3> QED BY <1>6, <3>1, <3>2
  <2>7. OutOrder'
    <3>1. Stages(answers, Untaken, dataQueued[Pub], posted[Pub], InWork')
      BY <1>3, StagesDrop DEF OutOrder
    <3>2. Stages(Append(answers, e.arg), Tail(Untaken), dataQueued[Pub], posted[Pub], InWork')
      BY <1>c, <2>2, <2>4, <3>1, StagesServe
    <3> QED BY <2>2, <2>5, <3>2 DEF OutOrder
  <2> QED BY <2>6, <2>7
<1>9. CASE c = Pub /\ (Fault(c) \/ Run(c) \/ RunEnds(c))
  <2>1. Connecting(Pub) \/ HandleAsyncConnect(Pub) \/ DoAsyncCommand(Pub)
          \/ AsyncWrite(Pub) \/ AsyncRead(Pub) \/ Break(Pub) \/ Forgotten(Pub)
    BY <1>9 DEF Fault, Run, RunEnds, Destroy, Connecting
  <2>2. answers' = answers
    BY <1>9 DEF Fault, Run, RunEnds
  <2> QED BY <1>7, <1>a, <1>b, <2>1, <2>2, PublisherStep
<1>10. CASE c = Sub
  <2>1. Connecting(c) \/ HandleAsyncConnect(c) \/ DoAsyncCommand(c) \/ ServerTakes(c)
          \/ AsyncWrite(c) \/ AsyncRead(c) \/ Break(c) \/ Forgotten(c)
    BY DEF Serve, Fault, Run, RunEnds, Destroy, Connecting
  <2>2. OnlyOf(c)
    BY <1>a, <2>1, OnlyOne
  <2>3. Kept
    BY <1>10, <1>b, <2>2 DEF OnlyOf, Kept, Untaken
  <2>4. answers' = answers
    <3>1. CASE Serve(c)
      <4>1. dataWrited[c] \in Seq({Subscribe}) /\ taken[c] < Len(dataWrited[c]) /\ taken[c] \in Nat
        BY <1>10, <1>a, <3>1 DEF ClientOK, CommandsOf, ClientTypes, Serve, ServerTakes
      <4>2. dataWrited[c][taken[c] + 1] = Subscribe
        BY <4>1
      <4> QED BY <3>1, <4>2 DEF Serve, Subscribe
    <3>2. CASE ~Serve(c)
      BY <3>2 DEF Fault, Run, RunEnds
    <3> QED BY <3>1, <3>2
  <2> QED BY <1>7, <2>3, <2>4
<1> QED BY <1>8, <1>9, <1>10, <1>b

LEMMA AnswersAsk ==
  ASSUME QInv, OutOrder, LanguageOK, NEW r \in Requests, Ask(r)
  PROVE  OutOrder' /\ LanguageOK'
<1>a. ServiceTypes
  BY DEF QInv, TypeOK
<1>c. /\ gLang = InForce(handled, asked, Len(asked))
      /\ answers \in Seq(RightAnswers(handled, asked))
      /\ QueuesRight
      /\ busy # None => [to |-> busy.to, lang |-> busy.lang] \in RightAnswers(handled, asked)
  BY DEF LanguageOK
<1>1. /\ asked' = Append(asked, r)
      /\ UNCHANGED <<posted, dataQueued, dataWrited, taken, gLang, busy, answers, handled>>
  BY DEF Ask
<1>2. asked \in Seq(Requests) /\ handled \subseteq 1..Len(asked) /\ Len(asked) \in Nat
  BY <1>a DEF ServiceTypes
<1>3. OutOrder'
  BY <1>1 DEF OutOrder, Untaken, InWork
<1>4. RightAnswers(handled, asked) \subseteq RightAnswers(handled', asked')
  BY <1>1, <1>2, RightAsked
<1>5. RightPublishes \subseteq RightPublishes'
  BY <1>4 DEF RightPublishes
<1>6. QueuesRight'
  BY <1>c, <1>1, <1>5, SeqMonotonic DEF QueuesRight
<1>7. answers' \in Seq(RightAnswers(handled', asked'))
  BY <1>c, <1>1, <1>4, SeqMonotonic
<1>8. gLang' = InForce(handled', asked', Len(asked'))
  <2>1. Len(asked') = Len(asked) + 1
    BY <1>1, <1>2
  <2>2. InForce(handled, asked', Len(asked) + 1) = InForce(handled, asked, Len(asked) + 1)
    BY <1>1, <1>2, InForceAsked
  <2>3. InForce(handled, asked, Len(asked) + 1) = InForce(handled, asked, Len(asked))
    <3>1. \A m \in handled : m <= Len(asked) + 1 /\ m <= Len(asked)
      BY <1>2
    <3>2. Naming(handled, asked, Len(asked) + 1) = Naming(handled, asked, Len(asked))
      BY <3>1 DEF Naming
    <3> QED BY <3>2 DEF InForce
  <2> QED BY <1>1, <1>c, <2>1, <2>2, <2>3
<1>9. busy' # None => [to |-> busy'.to, lang |-> busy'.lang] \in RightAnswers(handled', asked')
  BY <1>c, <1>1, <1>4
<1> QED BY <1>3, <1>6, <1>7, <1>8, <1>9 DEF LanguageOK

LEMMA AnswersProcessText ==
  ASSUME QInv, KnownOK, InOrder, OutOrder, LanguageOK, ProcessText
  PROVE  OutOrder' /\ LanguageOK'
<1>a. ClientTypes /\ ServiceTypes /\ \A d \in Clients : ClientOK(d)
  BY DEF QInv, TypeOK, QueuesOK
<1>b. Sub \in Clients /\ Pub \in Clients /\ Sub # Pub
  BY DialogueAssumption
<1>c. /\ gLang = InForce(handled, asked, Len(asked))
      /\ answers \in Seq(RightAnswers(handled, asked))
      /\ QueuesRight
  BY DEF LanguageOK
<1>1. PICK n : n = Head(posted[Sub]).arg
  OBVIOUS
<1>2. PICK b : b = Len(asked)
  OBVIOUS
<1>3. PICK l : l = gLang'
  OBVIOUS
<1>4. /\ posted[Sub] # <<>> /\ IsMessage(Head(posted[Sub])) /\ busy = None
      /\ posted'[Pub] = posted[Pub]
      /\ l = IF asked[n].lang # None THEN asked[n].lang ELSE gLang
      /\ busy' = [to |-> n, step |-> "lock", lang |-> IF asked[n].text = "sentence" THEN l ELSE None]
      /\ handled' = handled \cup {n}
      /\ UNCHANGED <<dataQueued, dataWrited, taken, asked, answers>>
  BY <1>1, <1>3, <1>a, <1>b DEF ProcessText, Language, ClientTypes
<1>5. asked \in Seq(Requests) /\ handled \subseteq 1..b /\ b \in Nat /\ gLang \in Languages
  BY <1>2, <1>a DEF ServiceTypes
<1>6. Numbered(Head(posted[Sub])) /\ RequestOf(Head(posted[Sub])) = n
  BY <1>1, <1>4 DEF IsMessage, Numbered, RequestOf
<1>7. n \in 1..b
  <2>1. Head(posted[Sub]) \in KnownEntries
    BY <1>4 DEF KnownOK
  <2>2. Head(posted[Sub]) # Subscribe
    BY <1>4 DEF Subscribe, IsMessage
  <2> QED BY <1>1, <1>2, <2>1, <2>2 DEF KnownEntries
<1>8. Below(handled, {n})
  <2>1. posted[Sub] \in Seq(KnownEntries)
    BY DEF KnownOK
  <2> QED BY <1>4, <1>6, <2>1, OrderedTake DEF InOrder
<1>9. InForce(handled', asked, n) = l /\ InForce(handled', asked, b) = l
  <2>1. l = IF asked[n].lang # None THEN asked[n].lang ELSE InForce(handled, asked, b)
    BY <1>2, <1>4, <1>c
  <2>2. Now(handled, n, asked, b)
    BY <1>5, <1>7, <1>8, InForceNow
  <2> QED BY <1>4, <2>1, <2>2 DEF Now
<1>10. RightAnswers(handled, asked) \subseteq RightAnswers(handled', asked')
  <2>1. RightAnswers(handled, asked) \subseteq RightAnswers(handled \cup {n}, asked)
    BY <1>5, <1>7, <1>8, RightProcessed
  <2> QED BY <1>4, <2>1
<1>11. RightPublishes \subseteq RightPublishes'
  BY <1>10 DEF RightPublishes
<1>12. QueuesRight'
  BY <1>c, <1>4, <1>11, SeqMonotonic DEF QueuesRight
<1>13. answers' \in Seq(RightAnswers(handled', asked'))
  BY <1>c, <1>4, <1>10, SeqMonotonic
<1>14. l \in Languages
  <2>1. asked[n] \in Requests
    BY <1>2, <1>5, <1>7
  <2> QED BY <1>4, <1>5, <2>1 DEF Languages
<1>15. [to |-> busy'.to, lang |-> busy'.lang] \in RightAnswers(handled', asked')
  <2>1. PICK x : x = [to |-> n, lang |-> IF asked[n].text = "sentence" THEN l ELSE None]
    OBVIOUS
  <2>2. x \in Answer /\ x.to = n /\ x.lang = IF asked[n].text = "sentence" THEN l ELSE None
    BY <1>5, <1>7, <1>14, <2>1 DEF Answer
  <2>3. n \in handled'
    BY <1>4
  <2>4. x \in RightAnswers(handled', asked)
    BY <1>9, <2>2, <2>3 DEF RightAnswers
  <2> QED BY <1>4, <2>1, <2>4
<1>16. LanguageOK'
  BY <1>2, <1>3, <1>4, <1>9, <1>12, <1>13, <1>15 DEF LanguageOK
<1>17. OutOrder'
  <2>1. Untaken' = Untaken
    BY <1>4 DEF Untaken
  <2>2. InWork = {} /\ InWork' \subseteq {n}
    BY <1>4 DEF InWork
  <2>3. Stages(answers, Untaken, dataQueued[Pub], posted[Pub], {})
    BY <2>2 DEF OutOrder
  <2>4. \A k \in DOMAIN answers : answers[k].to \in handled
    <3>1. \A k \in DOMAIN answers : answers[k] \in RightAnswers(handled, asked)
      BY <1>c
    <3> QED BY <3>1 DEF RightAnswers
  <2>5. Numbers(dataQueued[Pub]) \subseteq handled /\ Numbers(posted[Pub]) \subseteq handled
    BY <1>c, NumbersHandled DEF QueuesRight
  <2>6. Numbers(Untaken) \subseteq handled
    <3>1. taken[Pub] \in Nat /\ dataWrited[Pub] \in Seq(RightPublishes)
      BY <1>a, <1>b, <1>c DEF ClientTypes, QueuesRight
    <3>2. Untaken \in Seq(RightPublishes)
      BY <3>1, UntakenType DEF Untaken
    <3> QED BY <3>2, NumbersHandled
  <2>7. Stages(answers, Untaken, dataQueued[Pub], posted[Pub], {n})
    BY <1>8, <2>3, <2>4, <2>5, <2>6, StagesWork
  <2>8. Stages(answers, Untaken, dataQueued[Pub], posted[Pub], InWork')
    BY <2>2, <2>7, StagesDrop
  <2> QED BY <1>4, <2>1, <2>8 DEF OutOrder
<1> QED BY <1>16, <1>17

LEMMA AnswersPublish ==
  ASSUME QInv, OutOrder, LanguageOK,
         ProcessTextDies \/ LockNothing \/ LockRace \/ LockRef \/ Publish \/ PublishStale
  PROVE  OutOrder' /\ LanguageOK'
<1>a. ClientTypes /\ ServiceTypes /\ \A d \in Clients : ClientOK(d)
  BY DEF QInv, TypeOK, QueuesOK
<1>b. Sub \in Clients /\ Pub \in Clients /\ Sub # Pub
  BY DialogueAssumption
<1>c. /\ gLang = InForce(handled, asked, Len(asked))
      /\ answers \in Seq(RightAnswers(handled, asked))
      /\ QueuesRight
      /\ busy # None => [to |-> busy.to, lang |-> busy.lang] \in RightAnswers(handled, asked)
  BY DEF LanguageOK
<1>1. /\ UNCHANGED <<asked, gLang, answers, handled>>
      /\ busy' = None \/ (busy # None /\ busy' = [busy EXCEPT !.step = "publish"])
  BY DEF ProcessTextDies, LockNothing, LockRace, LockRef, Publish, PublishStale, Keep, Dies, AtStep
<1>2. busy' = None \/ (busy # None /\ busy'.to = busy.to /\ busy'.lang = busy.lang)
  <2>1. CASE busy' = None
    BY <2>1
  <2>2. CASE busy # None /\ busy' = [busy EXCEPT !.step = "publish"]
    <3>1. busy \in [to : Nat \ {0}, step : {"lock", "publish", "stale"}, lang : Languages \cup {None}]
      BY <1>a, <2>2 DEF ServiceTypes
    <3>2. busy'.to = busy.to /\ busy'.lang = busy.lang
      BY <2>2, <3>1
    <3> QED BY <2>2, <3>2
  <2> QED BY <1>1, <2>1, <2>2
<1>3. InWork' \subseteq InWork
  BY <1>2 DEF InWork
<1>4. RightPublishes' = RightPublishes /\ RightAnswers(handled', asked') = RightAnswers(handled, asked)
  BY <1>1 DEF RightPublishes
<1>5. busy' # None => [to |-> busy'.to, lang |-> busy'.lang] \in RightAnswers(handled, asked)
  BY <1>2, <1>c
<1>6. ASSUME QueuesRight' PROVE LanguageOK'
  BY <1>1, <1>c, <1>5, <1>6 DEF LanguageOK
<1>7. CASE Kept \/ Emptied
  <2>1. QueuesRight'
    BY <1>4, <1>7, <1>c, QueuesRightStep
  <2>2. OutOrder'
    BY <1>1, <1>3, <1>7, <1>a, <1>b, StagesStep
  <2> QED BY <1>6, <2>1, <2>2
<1>8. CASE Dies
  <2>1. posted'[Pub] = <<>> /\ dataQueued'[Pub] = <<>> /\ dataWrited'[Pub] = <<>> /\ taken'[Pub] = 0
    BY <1>8, <1>b DEF Dies
  <2>2. Untaken' = <<>>
    BY <2>1, SubSeqEmpty DEF Untaken
  <2> QED BY <1>7, <2>1, <2>2 DEF Emptied
<1>9. CASE Publish /\ IsConnected(Pub)
  <2>1. PICK e : e = [cmd |-> "publish", arg |-> [to |-> busy.to, lang |-> busy.lang]]
    OBVIOUS
  <2>2. /\ busy # None /\ busy' = None /\ posted'[Pub] = Append(posted[Pub], e)
        /\ UNCHANGED <<dataQueued, dataWrited, taken>>
    BY <1>9, <1>a, <1>b, <2>1 DEF Publish, AtStep, ClientTypes
  <2>3. e \in RightPublishes
    BY <1>c, <2>1, <2>2 DEF RightPublishes
  <2>4. QueuesRight'
    BY <1>4, <1>c, <2>2, <2>3 DEF QueuesRight
  <2>5. OutOrder'
    <3>1. Numbered(e) /\ RequestOf(e) = busy.to
      BY <2>1 DEF Numbered, RequestOf
    <3>2. InWork = {RequestOf(e)} /\ InWork' = {} /\ Untaken' = Untaken
      BY <2>2, <3>1 DEF InWork, Untaken
    <3>3. Stages(answers, Untaken, dataQueued[Pub], posted[Pub], {RequestOf(e)})
      BY <3>2 DEF OutOrder
    <3>4. posted[Pub] \in Seq(RightPublishes)
      BY <1>c DEF QueuesRight
    <3>5. Stages(answers, Untaken, dataQueued[Pub], Append(posted[Pub], e), {})
      BY <2>3, <3>1, <3>3, <3>4, StagesPublish
    <3> QED BY <1>1, <2>2, <3>2, <3>5 DEF OutOrder
  <2> QED BY <1>6, <2>4, <2>5
<1>10. CASE ~Dies /\ ~(Publish /\ IsConnected(Pub))
  <2>1. UNCHANGED <<posted, dataQueued, dataWrited, taken>>
    BY <1>10 DEF ProcessTextDies, LockNothing, LockRace, LockRef, Publish, PublishStale, clientVars
  <2> QED BY <1>7, <2>1 DEF Kept, Untaken
<1> QED BY <1>8, <1>9, <1>10

LEMMA AnswersStep == IInv /\ [Next]_vars => IInv'
<1> SUFFICES ASSUME IInv, [Next]_vars PROVE IInv'
  OBVIOUS
<1>a. QInv /\ KnownOK /\ InOrder /\ OutOrder /\ LanguageOK
  BY DEF IInv
<1>0. QInv' /\ KnownOK'
  BY <1>a, QueuesStep
<1>1. CASE Next
  <2>1. InOrder'
    BY <1>a, <1>1, InOrderStep
  <2>2. ASSUME NEW r \in Requests, Ask(r) PROVE OutOrder' /\ LanguageOK'
    BY <1>a, <2>2, AnswersAsk
  <2>3. ASSUME NEW c \in Clients, Serve(c) \/ Fault(c) \/ Run(c) \/ RunEnds(c)
        PROVE  OutOrder' /\ LanguageOK'
    BY <1>a, <2>3, AnswersClient
  <2>4. ASSUME OnMessage PROVE OutOrder' /\ LanguageOK'
    BY <1>a, <2>4, AnswersProcessText, AnswersPublish DEF OnMessage
  <2> QED BY <1>0, <1>1, <2>1, <2>2, <2>3, <2>4 DEF Next, IInv
<1>2. CASE UNCHANGED vars
  <2>1. InOrder'
    BY <1>a, <1>2 DEF vars, clientVars, InOrder
  <2>2. OutOrder'
    BY <1>a, <1>2 DEF vars, clientVars, OutOrder, Untaken, InWork
  <2>3. LanguageOK'
    BY <1>a, <1>2 DEF vars, clientVars, LanguageOK, QueuesRight, RightPublishes
  <2> QED BY <1>0, <2>1, <2>2, <2>3 DEF IInv
<1> QED BY <1>1, <1>2

LEMMA AnswersAreExact == IInv => AnswersExact
<1> SUFFICES ASSUME IInv PROVE AnswersExact
  OBVIOUS
<1>a. ServiceTypes
  BY DEF IInv, QInv, TypeOK
<1>1. \A i, j \in DOMAIN answers : i < j => answers[i].to < answers[j].to
  BY DEF IInv, OutOrder, Stages
<1>2. ASSUME NEW i \in DOMAIN answers
      PROVE  LET n == answers[i].to
                 before == {m \in handled : m <= n /\ asked[m].lang # None}
             IN /\ (answers[i].lang = None) = (asked[n].text # "sentence")
                /\ answers[i].lang # None /\ n \in handled =>
                     answers[i].lang = IF before = {} THEN "ja"
                                       ELSE asked[CHOOSE m \in before : \A k \in before : k <= m].lang
  <2>1. PICK x : x = answers[i]
    OBVIOUS
  <2>2. PICK n : n = x.to
    OBVIOUS
  <2>3. x \in RightAnswers(handled, asked)
    BY <2>1 DEF IInv, LanguageOK
  <2>4. x.lang = IF asked[n].text = "sentence" THEN InForce(handled, asked, n) ELSE None
    BY <2>2, <2>3 DEF RightAnswers
  <2>5. InForce(handled, asked, n) # None
    <3>1. asked \in Seq(Requests) /\ handled \subseteq 1..Len(asked)
      BY <1>a DEF ServiceTypes
    <3>2. Len(asked) \in Nat
      BY <3>1
    <3> QED BY <3>1, <3>2, InForceSome
  <2>6. (x.lang = None) = (asked[n].text # "sentence")
    BY <2>4, <2>5
  <2>7. x.lang # None => x.lang = InForce(handled, asked, n)
    BY <2>4
  <2> QED BY <2>1, <2>2, <2>6, <2>7 DEF InForce, Naming, Greatest
<1> QED BY <1>1, <1>2 DEF AnswersExact

(* AnswersExact: a request is answered at most once, answers come in the   *)
(* order of their requests and each is in the language that was in force,  *)
(* through all reconnections and races on gPublishRef.                     *)
THEOREM AnswersExactInvariant == Spec => []AnswersExact
<1>1. Init => IInv
  BY InitQueues, InitKnown, InitAnswers DEF IInv
<1> QED BY <1>1, AnswersStep, AnswersAreExact, PTL DEF Spec

-----------------------------------------------------------------------------
(* RedisParser: sequences of bytes *)

(* w has b behind its first p bytes.                                       *)
Holds(w, b, p) == p + Len(b) <= Len(w) /\ \A i \in 1..Len(b) : w[p + i] = b[i]
(* The bytes of w behind the first p, up to the one at n.                  *)
Part(w, p, n) == SubSeq(w, p + 1, n)

LEMMA PartProperties ==
  ASSUME NEW B, NEW w \in Seq(B), NEW p \in Nat, NEW n \in Nat, p <= n, n <= Len(w)
  PROVE  /\ Part(w, p, n) \in Seq(B)
         /\ Len(Part(w, p, n)) = n - p
         /\ \A i \in 1..n - p : Part(w, p, n)[i] = w[p + i]
<1>1. p + 1 \in 1..Len(w) + 1 /\ n \in p..Len(w)
  OBVIOUS
<1>2. Part(w, p, n) \in Seq(B)
  <2>1. \A i \in p + 1..n : w[i] \in B
    OBVIOUS
  <2> QED BY <2>1 DEF Part
<1>3. Len(Part(w, p, n)) = n - p /\ \A i \in 1..n - p : Part(w, p, n)[i] = w[p + i]
  BY DEF Part
<1> QED BY <1>2, <1>3

LEMMA SameSequence ==
  ASSUME NEW B, NEW s \in Seq(B), NEW t \in Seq(B), Len(s) = Len(t), \A i \in 1..Len(s) : s[i] = t[i]
  PROVE  s = t
BY SeqEqual

(* What w has at p is a part of it.                                        *)
LEMMA HoldsIsPart ==
  ASSUME NEW B, NEW w \in Seq(B), NEW b \in Seq(B), NEW p \in Nat, Holds(w, b, p)
  PROVE  b = Part(w, p, p + Len(b))
<1>1. PICK n \in Nat : n = p + Len(b)
  BY LenProperties
<1>2. p <= n /\ n <= Len(w) /\ n - p = Len(b)
  BY <1>1, LenProperties DEF Holds
<1>3. PICK c : c = Part(w, p, n)
  OBVIOUS
<1>4. c \in Seq(B) /\ Len(c) = Len(b) /\ \A i \in 1..Len(b) : c[i] = w[p + i]
  <2>1. c \in Seq(B) /\ Len(c) = n - p /\ \A i \in 1..n - p : c[i] = w[p + i]
    BY ONLY <1>2, <1>3, PartProperties, ZenonT(60)
  <2> QED BY <1>2, <2>1
<1>5. \A i \in 1..Len(b) : b[i] = c[i]
  BY <1>4 DEF Holds
<1>6. b = c
  BY <1>4, <1>5, SameSequence
<1> QED BY <1>1, <1>3, <1>6

LEMMA HoldsInside ==
  ASSUME NEW B, NEW w \in Seq(B), NEW b \in Seq(B), NEW d \in Seq(B), NEW p \in Nat, NEW o \in Nat,
         Holds(w, b, p), Holds(b, d, o)
  PROVE  Holds(w, d, p + o)
<1>1. Len(w) \in Nat /\ Len(b) \in Nat /\ Len(d) \in Nat
  BY LenProperties
<1>2. p + Len(b) <= Len(w) /\ o + Len(d) <= Len(b)
  BY DEF Holds
<1>3. (p + o) + Len(d) <= Len(w)
  BY <1>1, <1>2
<1>4. ASSUME NEW i \in 1..Len(d) PROVE w[(p + o) + i] = d[i]
  <2>1. o + i \in 1..Len(b) /\ p + (o + i) = (p + o) + i
    BY <1>1, <1>2
  <2>2. b[o + i] = d[i]
    BY DEF Holds
  <2>3. w[p + (o + i)] = b[o + i]
    BY <2>1 DEF Holds
  <2> QED BY <2>1, <2>2, <2>3
<1> QED BY <1>3, <1>4 DEF Holds

(* Both parts of a concatenation.                                          *)
LEMMA HoldsBoth ==
  ASSUME NEW B, NEW a \in Seq(B), NEW b \in Seq(B)
  PROVE  Holds(a \o b, a, 0) /\ Holds(a \o b, b, Len(a)) /\ Len(a \o b) = Len(a) + Len(b)
<1>1. Len(a) \in Nat /\ Len(b) \in Nat /\ Len(a \o b) = Len(a) + Len(b)
  BY LenProperties, ConcatProperties
<1>2. ASSUME NEW i \in 1..Len(a) PROVE (a \o b)[0 + i] = a[i]
  BY <1>1, ConcatProperties
<1>3. ASSUME NEW i \in 1..Len(b) PROVE (a \o b)[Len(a) + i] = b[i]
  <2>1. Len(a) + i \in 1..Len(a) + Len(b) /\ ~ (Len(a) + i <= Len(a)) /\ (Len(a) + i) - Len(a) = i
    BY <1>1
  <2> QED BY <2>1, ConcatProperties
<1> QED BY <1>1, <1>2, <1>3 DEF Holds

(* The texts the constants allow.                                          *)
LEMMA TextType ==
  ASSUME NEW r \in Texts
  PROVE  /\ r.bytes \in Seq(Bytes) /\ Len(r.bytes) \in Nat
         /\ r.items \in Seq(Texts) /\ r.whole \in BOOLEAN
BY ParserAssumption, LenProperties

-----------------------------------------------------------------------------
(* RedisParser: the bytes of texts one after the other *)

JoinedUpTo(s, n, u) ==
  u = [m \in 0..n |-> IF m = 0 THEN <<>> ELSE u[m - 1] \o s[m].bytes]

LEMMA JoinedExists ==
  ASSUME NEW s \in Seq(Texts), NEW n \in Nat
  PROVE  \E u : JoinedUpTo(s, n, u)
<1> DEFINE P == {m \in Nat : \E u : JoinedUpTo(s, m, u)}
<1>1. 0 \in P
  <2>1. PICK u : u = [m \in 0..0 |-> <<>>]
    OBVIOUS
  <2>2. u = [m \in 0..0 |-> IF m = 0 THEN <<>> ELSE u[m - 1] \o s[m].bytes]
    BY <2>1
  <2> QED BY <2>2 DEF JoinedUpTo
<1>2. ASSUME NEW k \in Nat, k \in P PROVE k + 1 \in P
  <2>1. PICK u : u = [m \in 0..k |-> IF m = 0 THEN <<>> ELSE u[m - 1] \o s[m].bytes]
    BY <1>2 DEF JoinedUpTo
  <2>2. PICK v : v = [m \in 0..k + 1 |-> IF m = 0 THEN <<>> ELSE u[m - 1] \o s[m].bytes]
    OBVIOUS
  <2>3. \A m \in 0..k : v[m] = u[m]
    <3> TAKE m \in 0..k
    <3>1. v[m] = IF m = 0 THEN <<>> ELSE u[m - 1] \o s[m].bytes
      BY <2>2
    <3>2. u[m] = IF m = 0 THEN <<>> ELSE u[m - 1] \o s[m].bytes
      BY <2>1
    <3> QED BY <3>1, <3>2
  <2>4. ASSUME NEW m \in 0..k + 1
        PROVE  (IF m = 0 THEN <<>> ELSE u[m - 1] \o s[m].bytes) = (IF m = 0 THEN <<>> ELSE v[m - 1] \o s[m].bytes)
    <3>1. CASE m = 0
      BY <3>1
    <3>2. CASE m # 0
      <4>1. m - 1 \in 0..k
        BY <3>2
      <4>2. v[m - 1] = u[m - 1]
        BY <2>3, <4>1
      <4> QED BY <4>2
    <3> QED BY <3>1, <3>2
  <2>5. v = [m \in 0..k + 1 |-> IF m = 0 THEN <<>> ELSE v[m - 1] \o s[m].bytes]
    BY <2>2, <2>4
  <2> QED BY <2>5 DEF JoinedUpTo
<1>3. Nat \subseteq P
  <2> HIDE DEF P
  <2> QED BY <1>1, <1>2, Induction
<1> QED BY <1>3

LEMMA JoinedUnfolds ==
  ASSUME NEW s \in Seq(Texts)
  PROVE  /\ Joined(s)[0] = <<>>
         /\ \A n \in 1..Len(s) : Joined(s)[n] = Joined(s)[n - 1] \o s[n].bytes
<1>1. PICK k \in Nat : k = Len(s)
  BY LenProperties
<1> DEFINE f == CHOOSE u : JoinedUpTo(s, k, u)
<1>2. JoinedUpTo(s, k, f)
  <2>1. \E u : JoinedUpTo(s, k, u)
    BY JoinedExists
  <2> QED BY <2>1
<1>4. Joined(s) = f
  BY <1>1 DEF Joined, JoinedUpTo
<1> HIDE DEF f
<1>3. f = [m \in 0..k |-> IF m = 0 THEN <<>> ELSE f[m - 1] \o s[m].bytes]
  BY <1>2 DEF JoinedUpTo
<1>5. f[0] = <<>>
  BY <1>3, SMTT(60)
<1>6. ASSUME NEW n \in 1..k PROVE f[n] = f[n - 1] \o s[n].bytes
  <2>1. n \in 0..k /\ n # 0
    OBVIOUS
  <2> QED BY <1>3, <2>1
<1> QED BY <1>1, <1>4, <1>5, <1>6

LEMMA JoinedType ==
  ASSUME NEW s \in Seq(Texts), NEW n \in 0..Len(s)
  PROVE  Joined(s)[n] \in Seq(Bytes) /\ Len(Joined(s)[n]) \in Nat
<1>1. PICK k \in Nat : k = Len(s)
  BY LenProperties
<1> DEFINE J == Joined(s)
           P == {m \in Nat : m <= k => J[m] \in Seq(Bytes)}
<1>2. J[0] = <<>> /\ \A m \in 1..k : J[m] = J[m - 1] \o s[m].bytes
  BY <1>1, JoinedUnfolds
<1>3. \A m \in 1..k : s[m].bytes \in Seq(Bytes)
  BY <1>1, TextType
<1> HIDE DEF J
<1>4. 0 \in P
  <2>1. <<>> \in Seq(Bytes)
    OBVIOUS
  <2>2. J[0] \in Seq(Bytes)
    BY <1>2, <2>1
  <2> QED BY <2>2
<1>5. ASSUME NEW m \in Nat, m \in P PROVE m + 1 \in P
  <2> SUFFICES ASSUME m + 1 <= k PROVE J[m + 1] \in Seq(Bytes)
    OBVIOUS
  <2>1. m + 1 \in 1..k /\ (m + 1) - 1 = m /\ J[m] \in Seq(Bytes)
    BY <1>5
  <2>2. J[m + 1] = J[m] \o s[m + 1].bytes
    BY <1>2, <2>1
  <2> QED BY <1>3, <2>1, <2>2, ConcatProperties
<1>6. Nat \subseteq P
  <2> HIDE DEF P
  <2> QED BY <1>4, <1>5, Induction
<1>7. J[n] \in Seq(Bytes)
  BY <1>1, <1>6
<1> QED BY <1>7, LenProperties DEF J

(* The first texts of a sequence come first.                               *)
LEMMA JoinedGrows ==
  ASSUME NEW s \in Seq(Texts), NEW n \in 0..Len(s), NEW m \in n..Len(s)
  PROVE  Holds(Joined(s)[m], Joined(s)[n], 0) /\ Len(Joined(s)[n]) <= Len(Joined(s)[m])
<1>1. PICK k \in Nat : k = Len(s)
  BY LenProperties
<1> DEFINE J == Joined(s)
           P == {i \in Nat : n + i <= k => Holds(J[n + i], J[n], 0)}
<1>2. \A i \in 1..k : J[i] = J[i - 1] \o s[i].bytes
  BY <1>1, JoinedUnfolds
<1>3. \A i \in 1..k : s[i].bytes \in Seq(Bytes)
  BY <1>1, TextType
<1>4. \A i \in 0..k : J[i] \in Seq(Bytes) /\ Len(J[i]) \in Nat
  BY <1>1, JoinedType
<1> HIDE DEF J
<1>5. 0 \in P
  <2>1. n + 0 = n /\ n \in 0..k
    BY <1>1
  <2>2. Holds(J[n], J[n], 0)
    BY <1>4, <2>1 DEF Holds
  <2> QED BY <2>1, <2>2
<1>6. ASSUME NEW i \in Nat, i \in P PROVE i + 1 \in P
  <2> SUFFICES ASSUME n + (i + 1) <= k PROVE Holds(J[n + (i + 1)], J[n], 0)
    OBVIOUS
  <2>1. n + (i + 1) \in 1..k /\ (n + (i + 1)) - 1 = n + i /\ n + i \in 0..k /\ n \in 0..k /\ n + (i + 1) \in 0..k
    BY <1>1
  <2>2. PICK a, b, c : a = J[n + i] /\ b = s[n + (i + 1)].bytes /\ c = J[n + (i + 1)]
    OBVIOUS
  <2>3. c = a \o b /\ a \in Seq(Bytes) /\ b \in Seq(Bytes) /\ c \in Seq(Bytes) /\ J[n] \in Seq(Bytes)
    BY <1>2, <1>3, <1>4, <2>1, <2>2
  <2>4. Holds(c, a, 0)
    BY <2>3, HoldsBoth
  <2>5. Holds(a, J[n], 0)
    BY <1>6, <2>1, <2>2
  <2>6. Holds(c, J[n], 0 + 0)
    BY <2>3, <2>4, <2>5, HoldsInside
  <2> QED BY <2>2, <2>6
<1>7. Nat \subseteq P
  <2> HIDE DEF P
  <2> QED BY <1>5, <1>6, Induction
<1>8. Holds(J[m], J[n], 0)
  <2>1. m - n \in Nat /\ n + (m - n) = m /\ m <= k
    BY <1>1
  <2>2. m - n \in P
    BY <1>7, <2>1
  <2> QED BY <2>1, <2>2
<1>9. Len(J[n]) \in Nat /\ Len(J[m]) \in Nat
  BY <1>1, <1>4
<1>10. Len(J[n]) <= Len(J[m])
  BY <1>8, <1>9 DEF Holds
<1> QED BY <1>8, <1>10 DEF J

(* Each text is where those before it end.                                 *)
LEMMA JoinedHolds ==
  ASSUME NEW s \in Seq(Texts), NEW n \in 1..Len(s)
  PROVE  /\ Holds(AllOf(s), s[n].bytes, Len(Joined(s)[n - 1]))
         /\ Len(Joined(s)[n]) = Len(Joined(s)[n - 1]) + Len(s[n].bytes)
<1>1. PICK k \in Nat : k = Len(s)
  BY LenProperties
<1>2. PICK a, b, c, d : a = Joined(s)[n - 1] /\ b = s[n].bytes /\ c = Joined(s)[n] /\ d = Joined(s)[k]
  OBVIOUS
<1>3. n \in 0..k /\ n - 1 \in 0..k /\ k \in n..k /\ k \in 0..k
  BY <1>1
<1>4. a \in Seq(Bytes) /\ b \in Seq(Bytes) /\ c \in Seq(Bytes) /\ d \in Seq(Bytes) /\ Len(a) \in Nat
  <2>1. \A i \in 0..k : Joined(s)[i] \in Seq(Bytes) /\ Len(Joined(s)[i]) \in Nat
    BY <1>1, JoinedType
  <2>2. s[n] \in Texts
    OBVIOUS
  <2>3. b \in Seq(Bytes)
    BY <1>2, <2>2, TextType
  <2> QED BY <1>2, <1>3, <2>1, <2>3
<1>5. c = a \o b
  BY <1>2, JoinedUnfolds
<1>6. Holds(c, b, Len(a)) /\ Len(c) = Len(a) + Len(b)
  BY <1>4, <1>5, HoldsBoth
<1>7. Holds(d, c, 0)
  BY <1>1, <1>2, <1>3, JoinedGrows
<1>8. Holds(d, b, 0 + Len(a))
  BY <1>4, <1>6, <1>7, HoldsInside
<1>9. AllOf(s) = d /\ 0 + Len(a) = Len(a)
  BY <1>1, <1>2, <1>4 DEF AllOf
<1> QED BY <1>2, <1>6, <1>8, <1>9

-----------------------------------------------------------------------------
(* RedisParser: numbers *)

LEMMA DigitType == \A c \in Numeral : DigitOf[c] \in Int
BY DEF DigitOf, Numeral, Digits

LongUpTo(d, n, u) == u = [i \in 0..n |-> IF i = 0 THEN 0 ELSE 10 * u[i - 1] + DigitOf[d[i]]]

LEMMA LongExists ==
  ASSUME NEW d \in Seq(Numeral), NEW n \in Nat
  PROVE  \E u : LongUpTo(d, n, u)
<1> DEFINE P == {m \in Nat : \E u : LongUpTo(d, m, u)}
<1>1. 0 \in P
  <2>1. PICK u : u = [i \in 0..0 |-> 0]
    OBVIOUS
  <2>2. u = [i \in 0..0 |-> IF i = 0 THEN 0 ELSE 10 * u[i - 1] + DigitOf[d[i]]]
    BY <2>1
  <2> QED BY <2>2 DEF LongUpTo
<1>2. ASSUME NEW k \in Nat, k \in P PROVE k + 1 \in P
  <2>1. PICK u : u = [i \in 0..k |-> IF i = 0 THEN 0 ELSE 10 * u[i - 1] + DigitOf[d[i]]]
    BY <1>2 DEF LongUpTo
  <2>2. PICK v : v = [i \in 0..k + 1 |-> IF i = 0 THEN 0 ELSE 10 * u[i - 1] + DigitOf[d[i]]]
    OBVIOUS
  <2>3. \A i \in 0..k : v[i] = u[i]
    <3> TAKE i \in 0..k
    <3>1. v[i] = IF i = 0 THEN 0 ELSE 10 * u[i - 1] + DigitOf[d[i]]
      BY <2>2
    <3>2. u[i] = IF i = 0 THEN 0 ELSE 10 * u[i - 1] + DigitOf[d[i]]
      BY <2>1
    <3> QED BY <3>1, <3>2
  <2>4. ASSUME NEW i \in 0..k + 1
        PROVE  (IF i = 0 THEN 0 ELSE 10 * u[i - 1] + DigitOf[d[i]]) = (IF i = 0 THEN 0 ELSE 10 * v[i - 1] + DigitOf[d[i]])
    <3>1. CASE i = 0
      BY <3>1
    <3>2. CASE i # 0
      <4>1. i - 1 \in 0..k
        BY <3>2
      <4>2. v[i - 1] = u[i - 1]
        BY <2>3, <4>1
      <4> QED BY <4>2
    <3> QED BY <3>1, <3>2
  <2>5. v = [i \in 0..k + 1 |-> IF i = 0 THEN 0 ELSE 10 * v[i - 1] + DigitOf[d[i]]]
    BY <2>2, <2>4
  <2> QED BY <2>5 DEF LongUpTo
<1>3. Nat \subseteq P
  <2> HIDE DEF P
  <2> QED BY <1>1, <1>2, Induction
<1> QED BY <1>3

LEMMA LongType ==
  ASSUME NEW d \in Seq(Numeral), NEW n \in Nat, n = Len(d), NEW u, LongUpTo(d, n, u)
  PROVE  u[n] \in Int
<1>1. u = [i \in 0..n |-> IF i = 0 THEN 0 ELSE 10 * u[i - 1] + DigitOf[d[i]]]
  BY DEF LongUpTo
<1> DEFINE P == {m \in Nat : m <= n => u[m] \in Int}
<1>2. 0 \in P
  BY <1>1
<1>3. ASSUME NEW m \in Nat, m \in P PROVE m + 1 \in P
  <2> SUFFICES ASSUME m + 1 <= n PROVE u[m + 1] \in Int
    OBVIOUS
  <2>1. m + 1 \in 0..n /\ m + 1 # 0 /\ (m + 1) - 1 = m /\ m + 1 \in 1..Len(d) /\ u[m] \in Int
    BY <1>3
  <2>2. u[m + 1] = 10 * u[m] + DigitOf[d[m + 1]]
    BY <1>1, <2>1
  <2>3. DigitOf[d[m + 1]] \in Int
    BY <2>1, DigitType
  <2> QED BY <2>1, <2>2, <2>3
<1>4. Nat \subseteq P
  <2> HIDE DEF P
  <2> QED BY <1>2, <1>3, Induction
<1> QED BY <1>4

LEMMA LongValue ==
  ASSUME NEW d \in Seq(Numeral)
  PROVE  Long(d) \in Int
<1>1. PICK n \in Nat : n = Len(d)
  BY LenProperties
<1> DEFINE long == CHOOSE u : LongUpTo(d, n, u)
<1>2. LongUpTo(d, n, long)
  <2>1. \E u : LongUpTo(d, n, u)
    BY LongExists
  <2> QED BY <2>1
<1>3. Long(d) = long[n]
  BY <1>1 DEF Long, LongUpTo
<1> HIDE DEF long
<1>4. long[n] \in Int
  BY <1>1, <1>2, LongType
<1> QED BY <1>3, <1>4

LEMMA BufToLongType ==
  ASSUME NEW s \in Seq(Numeral)
  PROVE  BufToLong(s) \in Int
<1>1. CASE s # <<>> /\ s[1] = "-"
  <2>1. Tail(s) \in Seq(Numeral)
    BY <1>1
  <2>2. Long(Tail(s)) \in Int
    BY <2>1, LongValue
  <2> QED BY <1>1, <2>2 DEF BufToLong
<1>2. CASE ~ (s # <<>> /\ s[1] = "-")
  BY <1>2, LongValue DEF BufToLong
<1> QED BY <1>1, <1>2

-----------------------------------------------------------------------------
(* RedisParser: the protocol, read off places *)

LEMMA PartOfPart ==
  ASSUME NEW B, NEW w \in Seq(B), NEW p \in Nat, NEW e \in Nat, p <= e, e <= Len(w),
         NEW o \in Nat, NEW n \in Nat, o <= n, n <= e - p
  PROVE  Part(Part(w, p, e), o, n) = Part(w, p + o, p + n)
<1>1. PICK b : b = Part(w, p, e)
  OBVIOUS
<1>2. Len(w) \in Nat
  BY LenProperties
<1>3. b \in Seq(B) /\ Len(b) = e - p /\ \A i \in 1..e - p : b[i] = w[p + i]
  BY ONLY <1>1, w \in Seq(B), p \in Nat, e \in Nat, p <= e, e <= Len(w), PartProperties, ZenonT(60)
<1>4. PICK c : c = Part(b, o, n)
  OBVIOUS
<1>5. b \in Seq(B) /\ n <= Len(b)
  BY <1>3
<1>6. c \in Seq(B) /\ Len(c) = n - o /\ \A i \in 1..n - o : c[i] = b[o + i]
  BY ONLY <1>4, <1>5, o \in Nat, n \in Nat, o <= n, PartProperties, ZenonT(60)
<1>7. PICK d : d = Part(w, p + o, p + n)
  OBVIOUS
<1>8. p + o \in Nat /\ p + n \in Nat /\ p + o <= p + n /\ p + n <= Len(w) /\ (p + n) - (p + o) = n - o
  BY <1>2
<1>9. d \in Seq(B) /\ Len(d) = (p + n) - (p + o) /\ \A i \in 1..(p + n) - (p + o) : d[i] = w[(p + o) + i]
  BY ONLY <1>7, <1>8, w \in Seq(B), PartProperties, ZenonT(60)
<1>10. \A i \in 1..n - o : c[i] = d[i]
  <2> TAKE i \in 1..n - o
  <2>1. c[i] = b[o + i] /\ d[i] = w[(p + o) + i]
    BY <1>6, <1>8, <1>9
  <2>2. o + i \in 1..e - p /\ p + (o + i) = (p + o) + i
    OBVIOUS
  <2> QED BY <1>3, <2>1, <2>2
<1>11. Len(c) = Len(d) /\ \A i \in 1..Len(c) : c[i] = d[i]
  BY <1>6, <1>8, <1>9, <1>10
<1>12. c = d
  BY <1>6, <1>9, <1>11, SameSequence
<1> QED BY <1>1, <1>4, <1>7, <1>12

LEMMA PartOver ==
  ASSUME NEW B, NEW w \in Seq(B), NEW p \in Nat, NEW n \in Nat, p <= n, n <= Len(w), NEW S
  PROVE  Part(w, p, n) \in Seq(S) <=> \A i \in p + 1..n : w[i] \in S
<1>1. PICK b : b = Part(w, p, n)
  OBVIOUS
<1>2. b \in Seq(B) /\ Len(b) = n - p /\ \A i \in 1..n - p : b[i] = w[p + i]
  BY ONLY <1>1, w \in Seq(B), p \in Nat, n \in Nat, p <= n, n <= Len(w), PartProperties, ZenonT(60)
<1>3. ASSUME b \in Seq(S), NEW i \in p + 1..n PROVE w[i] \in S
  <2>1. i - p \in 1..Len(b) /\ p + (i - p) = i
    BY <1>2
  <2>2. b[i - p] \in S
    BY <1>3, <2>1
  <2> QED BY <1>2, <2>1, <2>2
<1>4. ASSUME \A i \in p + 1..n : w[i] \in S PROVE b \in Seq(S)
  <2>1. \A i \in p + 1..n : w[i] \in S
    BY <1>4
  <2>2. \A i \in 1..Len(b) : b[i] \in S
    <3> TAKE i \in 1..Len(b)
    <3>1. i \in 1..n - p /\ p + i \in p + 1..n
      BY <1>2
    <3>2. b[i] = w[p + i]
      BY <1>2, <3>1
    <3> QED BY <2>1, <3>1, <3>2
  <2>3. b = [i \in 1..Len(b) |-> b[i]] /\ Len(b) \in Nat
    BY <1>2, LenProperties
  <2> QED BY <2>2, <2>3
<1> QED BY <1>1, <1>3, <1>4

Allowed(m) == IF m \in {"+", "-"} THEN Plain ELSE Numeral
(* A line of w after the first p bytes, which ends with the byte at c.     *)
LineAt(w, p, c, marks) ==
  /\ p + 3 <= c /\ c <= Len(w)
  /\ w[p + 1] \in marks /\ w[c - 1] = "CR" /\ w[c] = "LF"
NumberedAt(w, p, c, marks) ==
  LineAt(w, p, c, marks) /\ p + 4 <= c /\ \A i \in p + 2..c - 2 : w[i] \in Numeral
NumberAt(w, p, c) == BufToLong(Part(w, p + 1, c - 2))
BulkAt(w, p, c, e) ==
  /\ NumberedAt(w, p, c, {"$"}) /\ NumberAt(w, p, c) >= 0
  /\ e = c + NumberAt(w, p, c) + 2 /\ e <= Len(w) /\ w[e - 1] = "CR" /\ w[e] = "LF"
ScalarAt(w, p, e) ==
  \/ LineAt(w, p, e, {"+", "-"}) /\ \A i \in p + 2..e - 2 : w[i] \in Plain
  \/ NumberedAt(w, p, e, {":"})
  \/ NumberedAt(w, p, e, {"$", "*"}) /\ NumberAt(w, p, e) = -1
  \/ NumberedAt(w, p, e, {"*"}) /\ NumberAt(w, p, e) = 0
  \/ \E c \in p + 1..e : BulkAt(w, p, c, e)
HeaderAt(w, p, c) == NumberedAt(w, p, c, {"*"}) /\ NumberAt(w, p, c) >= 1

LEMMA LineOfPart ==
  ASSUME NEW w \in Seq(Bytes), NEW p \in Nat, NEW e \in Nat, p <= e, e <= Len(w), NEW marks
  PROVE  /\ IsLine(Part(w, p, e), marks) <=> LineAt(w, p, e, marks)
         /\ IsLine(Part(w, p, e), marks) =>
              /\ Inside(Part(w, p, e)) = Part(w, p + 1, e - 2)
              /\ p + 1 \in Nat /\ e - 2 \in Nat /\ p + 1 <= e - 2 /\ e - 2 <= Len(w)
<1>1. PICK b : b = Part(w, p, e)
  OBVIOUS
<1>2. b \in Seq(Bytes) /\ Len(b) = e - p /\ \A i \in 1..e - p : b[i] = w[p + i]
  BY ONLY <1>1, w \in Seq(Bytes), p \in Nat, e \in Nat, p <= e, e <= Len(w), PartProperties, ZenonT(60)
<1>3. Len(w) \in Nat
  BY LenProperties
<1>4. ASSUME e - p >= 3
      PROVE  b[1] = w[p + 1] /\ b[Len(b) - 1] = w[e - 1] /\ b[Len(b)] = w[e]
  <2>1. 1 \in 1..e - p /\ Len(b) - 1 \in 1..e - p /\ Len(b) \in 1..e - p
    BY <1>2, <1>4
  <2>2. p + (Len(b) - 1) = e - 1 /\ p + Len(b) = e
    BY <1>2
  <2> QED BY <1>2, <2>1, <2>2
<1>5. IsLine(b, marks) <=> LineAt(w, p, e, marks)
  BY <1>2, <1>3, <1>4 DEF IsLine, LineAt, EndsLine
<1>6. ASSUME IsLine(b, marks)
      PROVE  /\ Inside(b) = Part(w, p + 1, e - 2)
             /\ p + 1 \in Nat /\ e - 2 \in Nat /\ p + 1 <= e - 2 /\ e - 2 <= Len(w)
  <2>1. e - p >= 3
    BY <1>2, <1>6 DEF IsLine
  <2>2. Inside(b) = Part(b, 1, Len(b) - 2)
    BY DEF Inside, Part
  <2>3. Len(b) - 2 \in Nat /\ 1 <= Len(b) - 2 /\ Len(b) - 2 <= e - p /\ p + (Len(b) - 2) = e - 2
    BY <1>2, <2>1
  <2>4. Part(b, 1, Len(b) - 2) = Part(w, p + 1, p + (Len(b) - 2))
    BY ONLY <1>1, <2>3, w \in Seq(Bytes), p \in Nat, e \in Nat, p <= e, e <= Len(w), PartOfPart
  <2>5. p + 1 \in Nat /\ e - 2 \in Nat /\ p + 1 <= e - 2 /\ e - 2 <= Len(w)
    BY <1>3, <2>1
  <2> QED BY <2>2, <2>3, <2>4, <2>5
<1> QED BY <1>1, <1>5, <1>6

LEMMA NumberedOfPart ==
  ASSUME NEW w \in Seq(Bytes), NEW p \in Nat, NEW e \in Nat, p <= e, e <= Len(w), NEW marks
  PROVE  /\ IsNumbered(Part(w, p, e), marks) <=> NumberedAt(w, p, e, marks)
         /\ NumberedAt(w, p, e, marks) =>
              NumberOf(Part(w, p, e)) = NumberAt(w, p, e) /\ NumberAt(w, p, e) \in Int
<1>1. PICK b : b = Part(w, p, e)
  OBVIOUS
<1>2. IsLine(b, marks) <=> LineAt(w, p, e, marks)
  BY <1>1, LineOfPart
<1>3. ASSUME IsLine(b, marks)
      PROVE  /\ Inside(b) = Part(w, p + 1, e - 2)
             /\ Inside(b) \in Seq(Numeral) <=> \A i \in p + 2..e - 2 : w[i] \in Numeral
             /\ Inside(b) # <<>> <=> p + 4 <= e
  <2>1. /\ Inside(b) = Part(w, p + 1, e - 2)
        /\ p + 1 \in Nat /\ e - 2 \in Nat /\ p + 1 <= e - 2 /\ e - 2 <= Len(w)
    BY <1>1, <1>3, LineOfPart
  <2>2. PICK q \in Nat, n \in Nat : q = p + 1 /\ n = e - 2
    BY <2>1
  <2>3. q <= n /\ n <= Len(w) /\ Inside(b) = Part(w, q, n)
    BY <2>1, <2>2
  <2>4. Part(w, q, n) \in Seq(Numeral) <=> \A i \in q + 1..n : w[i] \in Numeral
    BY <2>3, PartOver
  <2>5. Part(w, q, n) \in Seq(Bytes) /\ Len(Part(w, q, n)) = n - q
    BY <2>3, PartProperties
  <2>6. Part(w, q, n) = <<>> <=> n - q = 0
    BY <2>5, EmptySeq
  <2>7. q + 1 = p + 2 /\ (n - q = 0 <=> ~ (p + 4 <= e))
    BY <2>2, <2>3
  <2> QED BY <2>2, <2>3, <2>4, <2>6, <2>7
<1>4. IsNumbered(b, marks) <=> NumberedAt(w, p, e, marks)
  BY <1>2, <1>3 DEF IsNumbered, NumberedAt
<1>5. ASSUME NumberedAt(w, p, e, marks) PROVE NumberOf(b) = NumberAt(w, p, e) /\ NumberAt(w, p, e) \in Int
  <2>1. IsNumbered(b, marks)
    BY <1>4, <1>5
  <2>2. IsLine(b, marks) /\ Inside(b) \in Seq(Numeral)
    BY <2>1 DEF IsNumbered
  <2>3. BufToLong(Inside(b)) \in Int
    BY <2>2, BufToLongType
  <2>4. Inside(b) = Part(w, p + 1, e - 2)
    BY <1>3, <2>2
  <2> QED BY <2>3, <2>4 DEF NumberOf, NumberAt
<1> QED BY <1>1, <1>4, <1>5

LEMMA BulkOfPart ==
  ASSUME NEW w \in Seq(Bytes), NEW p \in Nat, NEW e \in Nat, p <= e, e <= Len(w),
         NEW c \in 1..e - p
  PROVE  /\ IsBulk(Part(w, p, e), c) <=> BulkAt(w, p, p + c, e)
         /\ BulkAt(w, p, p + c, e) =>
              SubSeq(Part(w, p, e), c + 1, Len(Part(w, p, e)) - 2) = Part(w, p + c, e - 2)
<1>1. PICK b : b = Part(w, p, e)
  OBVIOUS
<1>2. b \in Seq(Bytes) /\ Len(b) = e - p /\ \A i \in 1..e - p : b[i] = w[p + i]
  BY ONLY <1>1, w \in Seq(Bytes), p \in Nat, e \in Nat, p <= e, e <= Len(w), PartProperties, ZenonT(60)
<1>3. Len(w) \in Nat
  BY LenProperties
<1>4. PICK k \in Nat : k = p + c
  OBVIOUS
<1>5. p <= k /\ k <= Len(w) /\ k <= e /\ p + 0 = p
  BY <1>3, <1>4
<1>6. SubSeq(b, 1, c) = Part(w, p, k)
  <2>1. SubSeq(b, 1, c) = Part(b, 0, c)
    BY DEF Part
  <2>2. c \in Nat /\ 0 \in Nat /\ 0 <= c /\ c <= e - p
    OBVIOUS
  <2>3. Part(b, 0, c) = Part(w, p + 0, p + c)
    BY ONLY <1>1, <2>2, w \in Seq(Bytes), p \in Nat, e \in Nat, p <= e, e <= Len(w), PartOfPart
  <2> QED BY <1>4, <1>5, <2>1, <2>3
<1>7. PICK l : l = Part(w, p, k)
  OBVIOUS
<1>8. /\ IsNumbered(l, {"$"}) <=> NumberedAt(w, p, k, {"$"})
      /\ NumberedAt(w, p, k, {"$"}) => NumberOf(l) = NumberAt(w, p, k) /\ NumberAt(w, p, k) \in Int
  BY <1>5, <1>7, NumberedOfPart
<1>9. ASSUME NEW n \in Int, n >= 0
      PROVE  /\ Len(b) = c + n + 2 <=> e = k + n + 2
             /\ e = k + n + 2 => (EndsLine(b) <=> w[e - 1] = "CR" /\ w[e] = "LF")
  <2>1. Len(b) = c + n + 2 <=> e = k + n + 2
    <3>1. Len(b) = e - p /\ k = p + c /\ c \in Nat /\ n \in Int
      BY <1>2, <1>4, <1>9
    <3> QED BY ONLY <3>1, p \in Nat, e \in Nat
  <2>2. ASSUME e = k + n + 2 PROVE b[Len(b) - 1] = w[e - 1] /\ b[Len(b)] = w[e]
    <3>1. Len(b) - 1 \in 1..e - p /\ Len(b) \in 1..e - p /\ p + (Len(b) - 1) = e - 1 /\ p + Len(b) = e
      BY <1>2, <1>4, <1>9, <2>2
    <3> QED BY <1>2, <3>1
  <2> QED BY <2>1, <2>2 DEF EndsLine
<1>10. IsBulk(b, c) <=> BulkAt(w, p, k, e)
  <2>1. IsBulk(b, c) <=> /\ IsNumbered(l, {"$"}) /\ NumberOf(l) >= 0
                         /\ Len(b) = c + NumberOf(l) + 2 /\ EndsLine(b)
    BY <1>6, <1>7 DEF IsBulk
  <2>2. PICK n : n = NumberAt(w, p, k)
    OBVIOUS
  <2>3. BulkAt(w, p, k, e) <=> /\ NumberedAt(w, p, k, {"$"}) /\ n >= 0
                               /\ e = k + n + 2 /\ w[e - 1] = "CR" /\ w[e] = "LF"
    BY <2>2 DEF BulkAt
  <2> QED BY <1>8, <1>9, <2>1, <2>2, <2>3
<1>11. ASSUME BulkAt(w, p, k, e) PROVE SubSeq(b, c + 1, Len(b) - 2) = Part(w, k, e - 2)
  <2>1. PICK n : n = NumberAt(w, p, k)
    OBVIOUS
  <2>2. NumberedAt(w, p, k, {"$"}) /\ n >= 0 /\ e = k + n + 2
    BY <1>11, <2>1 DEF BulkAt
  <2>3. n \in Int
    BY <1>8, <2>1, <2>2
  <2>4. SubSeq(b, c + 1, Len(b) - 2) = Part(b, c, Len(b) - 2)
    BY DEF Part
  <2>5. c \in Nat /\ Len(b) - 2 \in Nat /\ c <= Len(b) - 2 /\ Len(b) - 2 <= e - p /\ p + (Len(b) - 2) = e - 2
    BY <1>2, <1>4, <2>2, <2>3
  <2>6. Part(b, c, Len(b) - 2) = Part(w, p + c, p + (Len(b) - 2))
    BY ONLY <1>1, <2>5, w \in Seq(Bytes), p \in Nat, e \in Nat, p <= e, e <= Len(w), PartOfPart
  <2> QED BY <1>4, <2>4, <2>5, <2>6
<1> QED BY <1>1, <1>4, <1>10, <1>11

LEMMA ScalarOfPart ==
  ASSUME NEW w \in Seq(Bytes), NEW p \in Nat, NEW e \in Nat, p <= e, e <= Len(w)
  PROVE  /\ IsScalar(Part(w, p, e)) <=> ScalarAt(w, p, e)
         /\ IsHeader(Part(w, p, e)) <=> HeaderAt(w, p, e)
         /\ HeaderAt(w, p, e) => NumberOf(Part(w, p, e)) = NumberAt(w, p, e)
<1>1. PICK b : b = Part(w, p, e)
  OBVIOUS
<1>2. b \in Seq(Bytes) /\ Len(b) = e - p
  BY ONLY <1>1, w \in Seq(Bytes), p \in Nat, e \in Nat, p <= e, e <= Len(w), PartProperties, ZenonT(60)
<1>3. \A marks : /\ IsNumbered(b, marks) <=> NumberedAt(w, p, e, marks)
                 /\ NumberedAt(w, p, e, marks) => NumberOf(b) = NumberAt(w, p, e)
  BY <1>1, NumberedOfPart
<1>4. IsLine(b, {"+", "-"}) /\ Inside(b) \in Seq(Plain)
        <=> LineAt(w, p, e, {"+", "-"}) /\ \A i \in p + 2..e - 2 : w[i] \in Plain
  <2>1. IsLine(b, {"+", "-"}) <=> LineAt(w, p, e, {"+", "-"})
    BY <1>1, LineOfPart
  <2>2. ASSUME IsLine(b, {"+", "-"})
        PROVE  Inside(b) \in Seq(Plain) <=> \A i \in p + 2..e - 2 : w[i] \in Plain
    <3>1. /\ Inside(b) = Part(w, p + 1, e - 2)
          /\ p + 1 \in Nat /\ e - 2 \in Nat /\ p + 1 <= e - 2 /\ e - 2 <= Len(w)
      BY <1>1, <2>2, LineOfPart
    <3>2. Part(w, p + 1, e - 2) \in Seq(Plain) <=> \A i \in (p + 1) + 1..e - 2 : w[i] \in Plain
      BY <3>1, PartOver
    <3>3. (p + 1) + 1 = p + 2
      OBVIOUS
    <3> QED BY <3>1, <3>2, <3>3
  <2> QED BY <2>1, <2>2
<1>5. (\E c \in 1..Len(b) : IsBulk(b, c)) <=> \E c \in p + 1..e : BulkAt(w, p, c, e)
  <2>1. \A c \in 1..e - p : IsBulk(b, c) <=> BulkAt(w, p, p + c, e)
    BY <1>1, BulkOfPart
  <2>2. ASSUME NEW c \in 1..Len(b), IsBulk(b, c) PROVE \E k \in p + 1..e : BulkAt(w, p, k, e)
    <3>1. c \in 1..e - p /\ p + c \in p + 1..e
      BY <1>2
    <3> QED BY <2>1, <2>2, <3>1
  <2>3. ASSUME NEW k \in p + 1..e, BulkAt(w, p, k, e) PROVE \E c \in 1..Len(b) : IsBulk(b, c)
    <3>1. k - p \in 1..e - p /\ k - p \in 1..Len(b) /\ p + (k - p) = k
      BY <1>2
    <3> QED BY <2>1, <2>3, <3>1
  <2> QED BY <2>2, <2>3
<1>6. IsScalar(b) <=> ScalarAt(w, p, e)
  <2>1. /\ IsNumbered(b, {":"}) <=> NumberedAt(w, p, e, {":"})
        /\ IsNumbered(b, {"$", "*"}) /\ NumberOf(b) = -1
             <=> NumberedAt(w, p, e, {"$", "*"}) /\ NumberAt(w, p, e) = -1
        /\ IsNumbered(b, {"*"}) /\ NumberOf(b) = 0 <=> NumberedAt(w, p, e, {"*"}) /\ NumberAt(w, p, e) = 0
    BY <1>3
  <2> QED BY <1>4, <1>5, <2>1 DEF IsScalar, ScalarAt
<1>7. /\ IsHeader(b) <=> HeaderAt(w, p, e)
      /\ HeaderAt(w, p, e) => NumberOf(b) = NumberAt(w, p, e)
  BY <1>3 DEF IsHeader, HeaderAt
<1> QED BY <1>1, <1>6, <1>7

SaysAt(w, p, e, v) ==
  \/ w[p + 1] = "+" /\ v = String(Part(w, p + 1, e - 2))
  \/ w[p + 1] = "-" /\ v = ErrorString(Part(w, p + 1, e - 2))
  \/ w[p + 1] = ":" /\ v = Integer(NumberAt(w, p, e))
  \/ NumberedAt(w, p, e, {"$", "*"}) /\ NumberAt(w, p, e) = -1 /\ v = Nil
  \/ NumberedAt(w, p, e, {"*"}) /\ NumberAt(w, p, e) = 0 /\ v = Array(<<>>)
  \/ \E c \in p + 1..e : BulkAt(w, p, c, e) /\ v = String(Part(w, c, e - 2))

LEMMA ScalarIsLong ==
  ASSUME NEW w \in Seq(Bytes), NEW p \in Nat, NEW e \in Nat, p <= e, e <= Len(w), ScalarAt(w, p, e)
  PROVE  LineAt(w, p, e, Marks)
<1>1. ASSUME NEW marks, marks \subseteq Marks, NumberedAt(w, p, e, marks) PROVE LineAt(w, p, e, Marks)
  BY <1>1 DEF NumberedAt, LineAt
<1>2. CASE LineAt(w, p, e, {"+", "-"})
  BY <1>2 DEF LineAt, Marks
<1>3. CASE NumberedAt(w, p, e, {":"}) \/ NumberedAt(w, p, e, {"$", "*"}) \/ NumberedAt(w, p, e, {"*"})
  <2>1. {":"} \subseteq Marks /\ {"$", "*"} \subseteq Marks /\ {"*"} \subseteq Marks
    BY DEF Marks
  <2> QED BY <1>1, <1>3, <2>1
<1>4. ASSUME NEW c \in p + 1..e, BulkAt(w, p, c, e) PROVE LineAt(w, p, e, Marks)
  <2>1. PICK n : n = NumberAt(w, p, c)
    OBVIOUS
  <2>2. NumberedAt(w, p, c, {"$"}) /\ n >= 0 /\ e = c + n + 2 /\ w[e - 1] = "CR" /\ w[e] = "LF"
    BY <1>4, <2>1 DEF BulkAt
  <2>3. c \in Nat /\ p <= c /\ c <= Len(w)
    BY LenProperties
  <2>4. n \in Int
    BY <2>1, <2>2, <2>3, NumberedOfPart
  <2>5. p + 3 <= c /\ w[p + 1] \in {"$"}
    BY <2>2 DEF NumberedAt, LineAt
  <2>6. p + 3 <= e
    BY <2>2, <2>3, <2>4, <2>5
  <2> QED BY <2>2, <2>5, <2>6 DEF LineAt, Marks
<1> QED BY <1>2, <1>3, <1>4 DEF ScalarAt

LEMMA SaysOfPart ==
  ASSUME NEW w \in Seq(Bytes), NEW p \in Nat, NEW e \in Nat, p <= e, e <= Len(w),
         ScalarAt(w, p, e), NEW v
  PROVE  Says(Part(w, p, e), v) <=> SaysAt(w, p, e, v)
<1>1. PICK b : b = Part(w, p, e)
  OBVIOUS
<1>2. b \in Seq(Bytes) /\ Len(b) = e - p /\ \A i \in 1..e - p : b[i] = w[p + i]
  BY ONLY <1>1, w \in Seq(Bytes), p \in Nat, e \in Nat, p <= e, e <= Len(w), PartProperties, ZenonT(60)
<1>3. IsLine(b, Marks)
  BY <1>1, ScalarIsLong, LineOfPart
<1>4. b[1] = w[p + 1]
  <2>1. Len(b) >= 3
    BY <1>3 DEF IsLine
  <2>2. 1 \in 1..e - p
    BY <1>2, <2>1
  <2> QED BY <1>2, <2>2
<1>5. Inside(b) = Part(w, p + 1, e - 2)
  BY <1>1, <1>3, LineOfPart
<1>6. NumberOf(b) = NumberAt(w, p, e)
  BY <1>5 DEF NumberOf, NumberAt
<1>7. \A marks : IsNumbered(b, marks) <=> NumberedAt(w, p, e, marks)
  BY <1>1, NumberedOfPart
<1>8. (\E c \in 1..Len(b) : IsBulk(b, c) /\ v = String(SubSeq(b, c + 1, Len(b) - 2)))
        <=> \E c \in p + 1..e : BulkAt(w, p, c, e) /\ v = String(Part(w, c, e - 2))
  <2>1. \A c \in 1..e - p : /\ IsBulk(b, c) <=> BulkAt(w, p, p + c, e)
                            /\ BulkAt(w, p, p + c, e) => SubSeq(b, c + 1, Len(b) - 2) = Part(w, p + c, e - 2)
    BY <1>1, BulkOfPart
  <2>2. ASSUME NEW c \in 1..Len(b), IsBulk(b, c), v = String(SubSeq(b, c + 1, Len(b) - 2))
        PROVE \E k \in p + 1..e : BulkAt(w, p, k, e) /\ v = String(Part(w, k, e - 2))
    <3>1. c \in 1..e - p /\ p + c \in p + 1..e
      BY <1>2
    <3> QED BY <2>1, <2>2, <3>1
  <2>3. ASSUME NEW k \in p + 1..e, BulkAt(w, p, k, e), v = String(Part(w, k, e - 2))
        PROVE \E c \in 1..Len(b) : IsBulk(b, c) /\ v = String(SubSeq(b, c + 1, Len(b) - 2))
    <3>1. k - p \in 1..e - p /\ k - p \in 1..Len(b) /\ p + (k - p) = k
      BY <1>2
    <3> QED BY <2>1, <2>3, <3>1
  <2> QED BY <2>2, <2>3
<1>9. Says(b, v) <=> SaysAt(w, p, e, v)
  BY <1>4, <1>5, <1>6, <1>7, <1>8, Zenon DEF Says, SaysAt
<1> QED BY <1>1, <1>9

-----------------------------------------------------------------------------
(* RedisParser: what stands at a place is one thing *)

(* The first line at p: everything but a bulk string is not longer.        *)
First(w, p, c) ==
  /\ LineAt(w, p, c, Marks)
  /\ \A i \in p + 2..c - 2 : w[i] \in Allowed(w[p + 1])
  /\ w[p + 1] \in {":", "$", "*"} => p + 4 <= c

LEMMA CharactersApart ==
  /\ "CR" \notin Plain /\ "LF" \notin Plain /\ "CR" \notin Numeral /\ "LF" \notin Numeral
  /\ Wides \cap Plain = {} /\ Numeral \subseteq Plain /\ "CR" \notin Wides
  /\ Plain \subseteq Bytes /\ Numeral \subseteq Bytes /\ Marks \subseteq Plain
BY ParserAssumption DEF Plain, Numeral, Digits, Marks, Bytes

LEMMA FirstUnique ==
  ASSUME NEW w, NEW p \in Nat, NEW c \in Nat, NEW d \in Nat, First(w, p, c), First(w, p, d)
  PROVE  c = d
<1>1. "CR" \notin Allowed(w[p + 1])
  BY CharactersApart DEF Allowed
<1>2. ASSUME NEW m \in Nat, NEW n \in Nat, First(w, p, m), First(w, p, n), m < n PROVE FALSE
  <2>1. p + 3 <= m /\ w[m - 1] = "CR"
    BY <1>2 DEF First, LineAt
  <2>2. m - 1 \in p + 2..n - 2
    BY <1>2, <2>1
  <2>3. w[m - 1] \in Allowed(w[p + 1])
    BY <1>2, <2>2 DEF First
  <2> QED BY <1>1, <2>1, <2>3
<1> QED BY <1>2

LEMMA FirstOfNumbered ==
  ASSUME NEW w, NEW p \in Nat, NEW c \in Nat, NEW marks, marks \subseteq {":", "$", "*"},
         NumberedAt(w, p, c, marks)
  PROVE  First(w, p, c) /\ w[p + 1] \in marks
<1>1. w[p + 1] \in marks /\ w[p + 1] \in Marks /\ w[p + 1] \notin {"+", "-"}
  BY DEF NumberedAt, LineAt, Marks
<1> QED BY <1>1 DEF First, NumberedAt, LineAt, Allowed

(* The kinds of replies without items, by their first line.                *)
ScalarKind(w, p, c, e) ==
  \/ w[p + 1] \in {"+", "-", ":"} /\ c = e
  \/ w[p + 1] \in {"$", "*"} /\ NumberAt(w, p, c) = -1 /\ c = e
  \/ w[p + 1] = "*" /\ NumberAt(w, p, c) = 0 /\ c = e
  \/ /\ w[p + 1] = "$" /\ NumberAt(w, p, c) \in Nat /\ e = c + NumberAt(w, p, c) + 2
     /\ w[e - 1] = "CR" /\ w[e] = "LF" /\ BulkAt(w, p, c, e)

LEMMA FirstOfScalar ==
  ASSUME NEW w \in Seq(Bytes), NEW p \in Nat, NEW e \in Nat, p <= e, e <= Len(w), ScalarAt(w, p, e)
  PROVE  \E c \in Nat : c <= e /\ First(w, p, c) /\ ScalarKind(w, p, c, e)
<1>1. CASE LineAt(w, p, e, {"+", "-"}) /\ \A i \in p + 2..e - 2 : w[i] \in Plain
  <2>1. First(w, p, e) /\ w[p + 1] \in {"+", "-"}
    BY <1>1 DEF First, LineAt, Marks, Allowed
  <2> QED BY <2>1 DEF ScalarKind
<1>2. CASE NumberedAt(w, p, e, {":"})
  <2>1. First(w, p, e) /\ w[p + 1] \in {":"}
    BY <1>2, FirstOfNumbered
  <2> QED BY <2>1 DEF ScalarKind
<1>3. CASE NumberedAt(w, p, e, {"$", "*"}) /\ NumberAt(w, p, e) = -1
  <2>1. First(w, p, e) /\ w[p + 1] \in {"$", "*"}
    BY <1>3, FirstOfNumbered
  <2> QED BY <1>3, <2>1 DEF ScalarKind
<1>4. CASE NumberedAt(w, p, e, {"*"}) /\ NumberAt(w, p, e) = 0
  <2>1. First(w, p, e) /\ w[p + 1] \in {"*"}
    BY <1>4, FirstOfNumbered
  <2> QED BY <1>4, <2>1 DEF ScalarKind
<1>5. ASSUME NEW c \in p + 1..e, BulkAt(w, p, c, e)
      PROVE  \E k \in Nat : k <= e /\ First(w, p, k) /\ ScalarKind(w, p, k, e)
  <2>1. NumberedAt(w, p, c, {"$"}) /\ NumberAt(w, p, c) >= 0 /\ e = c + NumberAt(w, p, c) + 2
        /\ w[e - 1] = "CR" /\ w[e] = "LF"
    BY <1>5 DEF BulkAt
  <2>2. c \in Nat /\ p <= c /\ c <= Len(w) /\ c <= e
    BY LenProperties
  <2>3. First(w, p, c) /\ w[p + 1] \in {"$"}
    BY <2>1, <2>2, FirstOfNumbered
  <2>4. NumberAt(w, p, c) \in Int
    BY <2>1, <2>2, NumberedOfPart
  <2>5. ScalarKind(w, p, c, e)
    BY <1>5, <2>1, <2>3, <2>4 DEF ScalarKind
  <2> QED BY <2>2, <2>3, <2>5
<1> QED BY <1>1, <1>2, <1>3, <1>4, <1>5 DEF ScalarAt

LEMMA FirstOfHeader ==
  ASSUME NEW w \in Seq(Bytes), NEW p \in Nat, NEW c \in Nat, p <= c, c <= Len(w), HeaderAt(w, p, c)
  PROVE  First(w, p, c) /\ w[p + 1] = "*" /\ NumberAt(w, p, c) \in Int /\ NumberAt(w, p, c) >= 1
<1>1. NumberedAt(w, p, c, {"*"}) /\ NumberAt(w, p, c) >= 1
  BY DEF HeaderAt
<1>2. First(w, p, c) /\ w[p + 1] \in {"*"}
  BY <1>1, FirstOfNumbered
<1> QED BY <1>1, <1>2, NumberedOfPart

LEMMA ScalarUnique ==
  ASSUME NEW w \in Seq(Bytes), NEW p \in Nat, NEW e \in Nat, p <= e, e <= Len(w), ScalarAt(w, p, e),
         NEW d \in Nat, p <= d, d <= Len(w)
  PROVE  ~HeaderAt(w, p, d) /\ (ScalarAt(w, p, d) => d = e)
<1>1. PICK c \in Nat : c <= e /\ First(w, p, c) /\ ScalarKind(w, p, c, e)
  BY FirstOfScalar
<1>2. ASSUME HeaderAt(w, p, d) PROVE FALSE
  <2>1. First(w, p, d) /\ w[p + 1] = "*" /\ NumberAt(w, p, d) \in Int /\ NumberAt(w, p, d) >= 1
    BY <1>2, FirstOfHeader
  <2>2. c = d
    BY <1>1, <2>1, FirstUnique
  <2> QED BY <1>1, <2>1, <2>2 DEF ScalarKind
<1>3. ASSUME ScalarAt(w, p, d) PROVE d = e
  <2>1. PICK k \in Nat : k <= d /\ First(w, p, k) /\ ScalarKind(w, p, k, d)
    BY <1>3, FirstOfScalar
  <2>2. c = k
    BY <1>1, <2>1, FirstUnique
  <2>3. PICK n : n = NumberAt(w, p, c)
    OBVIOUS
  <2> QED BY <1>1, <2>1, <2>2, <2>3, SMTT(60) DEF ScalarKind
<1> QED BY <1>2, <1>3

LEMMA SaysUnique ==
  ASSUME NEW w \in Seq(Bytes), NEW p \in Nat, NEW e \in Nat, p <= e, e <= Len(w), ScalarAt(w, p, e),
         NEW u, NEW v, SaysAt(w, p, e, u), SaysAt(w, p, e, v)
  PROVE  u = v
<1>1. PICK c \in Nat : c <= e /\ First(w, p, c) /\ ScalarKind(w, p, c, e)
  BY FirstOfScalar
<1>2. ASSUME NEW marks, marks \subseteq {":", "$", "*"}, NumberedAt(w, p, e, marks)
      PROVE  c = e /\ w[p + 1] \in marks
  <2>1. First(w, p, e) /\ w[p + 1] \in marks
    BY <1>2, FirstOfNumbered
  <2> QED BY <1>1, <2>1, FirstUnique
<1>3. ASSUME NEW k \in p + 1..e, BulkAt(w, p, k, e)
      PROVE  k = c /\ w[p + 1] = "$" /\ c # e
  <2>1. NumberedAt(w, p, k, {"$"}) /\ NumberAt(w, p, k) >= 0 /\ e = k + NumberAt(w, p, k) + 2
    BY <1>3 DEF BulkAt
  <2>2. k \in Nat /\ p <= k /\ k <= Len(w) /\ k <= e
    BY LenProperties
  <2>3. First(w, p, k) /\ w[p + 1] \in {"$"}
    BY <2>1, <2>2, FirstOfNumbered
  <2>4. NumberAt(w, p, k) \in Int
    BY <2>1, <2>2, NumberedOfPart
  <2>5. k = c
    BY <1>1, <2>2, <2>3, FirstUnique
  <2>6. k # e
    BY <2>1, <2>2, <2>4
  <2> QED BY <2>3, <2>5, <2>6
<1>4. \A x : SaysAt(w, p, e, x) =>
        \/ w[p + 1] = "+" /\ x = String(Part(w, p + 1, e - 2))
        \/ w[p + 1] = "-" /\ x = ErrorString(Part(w, p + 1, e - 2))
        \/ w[p + 1] = ":" /\ x = Integer(NumberAt(w, p, e))
        \/ w[p + 1] \in {"$", "*"} /\ c = e /\ NumberAt(w, p, e) = -1 /\ x = Nil
        \/ w[p + 1] = "*" /\ c = e /\ NumberAt(w, p, e) = 0 /\ x = Array(<<>>)
        \/ w[p + 1] = "$" /\ c # e /\ x = String(Part(w, c, e - 2))
  <2> TAKE x
  <2>1. NumberedAt(w, p, e, {"$", "*"}) => c = e /\ w[p + 1] \in {"$", "*"}
    BY <1>2
  <2>2. NumberedAt(w, p, e, {"*"}) => c = e /\ w[p + 1] \in {"*"}
    BY <1>2
  <2> QED BY <1>3, <2>1, <2>2, Zenon DEF SaysAt
<1> QED BY <1>4

-----------------------------------------------------------------------------
(* RedisParser: what has been taken of a reply *)

LEMMA PartEmpty ==
  ASSUME NEW B, NEW w \in Seq(B), NEW p \in Nat, p <= Len(w)
  PROVE  Part(w, p, p) = <<>>
<1>1. Part(w, p, p) \in Seq(B) /\ Len(Part(w, p, p)) = p - p
  BY PartProperties
<1> QED BY <1>1, EmptySeq

LEMMA PartJoins ==
  ASSUME NEW B, NEW w \in Seq(B), NEW p \in Nat, NEW m \in Nat, NEW n \in Nat,
         p <= m, m <= n, n <= Len(w)
  PROVE  Part(w, p, m) \o Part(w, m, n) = Part(w, p, n)
<1>1. PICK a, b, c : a = Part(w, p, m) /\ b = Part(w, m, n) /\ c = Part(w, p, n)
  OBVIOUS
<1>2. p <= n /\ m <= Len(w)
  BY LenProperties
<1>3. a \in Seq(B) /\ Len(a) = m - p /\ \A i \in 1..m - p : a[i] = w[p + i]
  BY ONLY <1>1, <1>2, w \in Seq(B), p \in Nat, m \in Nat, p <= m, PartProperties, ZenonT(60)
<1>4. b \in Seq(B) /\ Len(b) = n - m /\ \A i \in 1..n - m : b[i] = w[m + i]
  BY ONLY <1>1, w \in Seq(B), m \in Nat, n \in Nat, m <= n, n <= Len(w), PartProperties, ZenonT(60)
<1>5. c \in Seq(B) /\ Len(c) = n - p /\ \A i \in 1..n - p : c[i] = w[p + i]
  BY ONLY <1>1, <1>2, w \in Seq(B), p \in Nat, n \in Nat, n <= Len(w), PartProperties, ZenonT(60)
<1>6. a \o b \in Seq(B) /\ Len(a \o b) = n - p
  <2>1. a \o b \in Seq(B) /\ Len(a \o b) = Len(a) + Len(b)
    BY ONLY <1>3, <1>4, ConcatProperties
  <2>2. (m - p) + (n - m) = n - p
    OBVIOUS
  <2> QED BY <1>3, <1>4, <2>1, <2>2
<1>7. \A i \in 1..n - p : (a \o b)[i] = c[i]
  <2> TAKE i \in 1..n - p
  <2>1. i \in 1..Len(a) + Len(b)
    BY <1>3, <1>4
  <2>2. CASE i <= Len(a)
    <3>1. (a \o b)[i] = a[i] /\ i \in 1..m - p
      BY <1>3, <1>4, <2>1, <2>2, ConcatProperties
    <3> QED BY <1>3, <1>5, <3>1
  <2>3. CASE ~ (i <= Len(a))
    <3>1. (a \o b)[i] = b[i - Len(a)]
      BY <1>3, <1>4, <2>1, <2>3, ConcatProperties
    <3>2. i - Len(a) \in 1..n - m /\ m + (i - Len(a)) = p + i
      BY <1>3, <2>3
    <3> QED BY <1>4, <1>5, <3>1, <3>2
  <2> QED BY <2>2, <2>3
<1>8. \A i \in 1..Len(a \o b) : (a \o b)[i] = c[i]
  BY <1>6, <1>7
<1>9. a \o b = c
  BY <1>5, <1>6, <1>8, SameSequence
<1> QED BY <1>1, <1>9

LEMMA PartAppends ==
  ASSUME NEW B, NEW w \in Seq(B), NEW p \in Nat, NEW n \in Nat, p <= n, n + 1 <= Len(w)
  PROVE  Part(w, p, n + 1) = Append(Part(w, p, n), w[n + 1])
<1>1. PICK a, c : a = Part(w, p, n) /\ c = Part(w, p, n + 1)
  OBVIOUS
<1>2. n <= Len(w) /\ n + 1 \in Nat /\ p <= n + 1 /\ w[n + 1] \in B
  BY LenProperties
<1>3. a \in Seq(B) /\ Len(a) = n - p /\ \A i \in 1..n - p : a[i] = w[p + i]
  BY ONLY <1>1, <1>2, w \in Seq(B), p \in Nat, n \in Nat, p <= n, PartProperties, ZenonT(60)
<1>4. c \in Seq(B) /\ Len(c) = (n + 1) - p /\ \A i \in 1..(n + 1) - p : c[i] = w[p + i]
  BY ONLY <1>1, <1>2, w \in Seq(B), p \in Nat, n + 1 <= Len(w), PartProperties, ZenonT(60)
<1>5. PICK d : d = Append(a, w[n + 1])
  OBVIOUS
<1>6. d \in Seq(B) /\ Len(d) = (n - p) + 1 /\ d[(n - p) + 1] = w[n + 1] /\ \A i \in 1..n - p : d[i] = a[i]
  BY <1>2, <1>3, <1>5, AppendProperties
<1>7. \A i \in 1..(n + 1) - p : d[i] = c[i]
  <2> TAKE i \in 1..(n + 1) - p
  <2>1. CASE i \in 1..n - p
    BY <1>3, <1>4, <1>6, <2>1
  <2>2. CASE i = (n - p) + 1
    <3>1. p + i = n + 1
      BY <2>2
    <3> QED BY <1>4, <1>6, <2>2, <3>1
  <2> QED BY <2>1, <2>2
<1>8. Len(d) = Len(c) /\ \A i \in 1..Len(d) : d[i] = c[i]
  BY <1>4, <1>6, <1>7
<1>9. d = c
  BY <1>4, <1>6, <1>8, SameSequence
<1> QED BY <1>1, <1>5, <1>9

NumberMarks == {":", "$", "*"}
LineState(s, m) ==
  <<s, m>> \in {<<"String", "+">>, <<"ErrorString", "-">>, <<"Integer", ":">>, <<"BulkSize", "$">>, <<"ArraySize", "*">>}
EndState(s, m) ==
  <<s, m>> \in {<<"StringLF", "+">>, <<"ErrorLF", "-">>, <<"IntegerLF", ":">>, <<"BulkSizeLF", "$">>, <<"ArraySizeLF", "*">>}

(* Within a line that begins at p; b is what has been read of it.          *)
InLine(w, p, x, m, b) ==
  /\ p + 1 <= x /\ x <= Len(w) /\ w[p + 1] = m /\ b = Part(w, p + 1, x)
  /\ \A i \in p + 2..x : w[i] \in Allowed(m)
AfterCR(w, p, x, m, b) ==
  /\ p + 2 <= x /\ x <= Len(w) /\ w[x] = "CR" /\ InLine(w, p, x - 1, m, b)
  /\ m \in NumberMarks => p + 3 <= x
(* Within a bulk string whose size ends at c; n bytes are still to come.   *)
InBulk(s, b, n, w, p, c, x) ==
  /\ c <= Len(w) /\ x <= Len(w) /\ NumberedAt(w, p, c, {"$"})
  /\ \/ s = "Bulk" /\ n \in Nat /\ n >= 1 /\ c <= x /\ NumberAt(w, p, c) = (x - c) + n /\ b = Part(w, c, x)
     \/ s = "BulkCR" /\ c <= x /\ NumberAt(w, p, c) = x - c /\ b = Part(w, c, x)
     \/ s = "BulkLF" /\ c + 1 <= x /\ NumberAt(w, p, c) = (x - 1) - c /\ w[x] = "CR" /\ b = Part(w, c, x - 1)
(* The parser in state s, with b and n in buf and bulkSize, has taken the  *)
(* bytes p + 1 to x of what stands at p.                                   *)
Token(s, b, n, w, p, x) ==
  \/ s \in {"Start", "StartArray"} /\ x = p /\ x <= Len(w)
  \/ \E m \in Marks : LineState(s, m) /\ InLine(w, p, x, m, b)
  \/ \E m \in Marks : EndState(s, m) /\ AfterCR(w, p, x, m, b)
  \/ \E c \in Nat : InBulk(s, b, n, w, p, c, x)

(* What stands at p, if it is anything, is not at an end at x.             *)
LEMMA InLineAhead ==
  ASSUME NEW w \in Seq(Bytes), NEW p \in Nat, NEW x \in Nat, NEW m, NEW b, InLine(w, p, x, m, b),
         NEW c \in Nat, First(w, p, c)
  PROVE  /\ x + 2 <= c
         /\ w[x + 1] \in Allowed(m) \/ (w[x + 1] = "CR" /\ x + 2 = c /\ (m \in NumberMarks => b # <<>>))
<1>1. "CR" \notin Allowed(m)
  BY CharactersApart DEF Allowed
<1>2. /\ p + 3 <= c /\ c <= Len(w) /\ w[c - 1] = "CR" /\ \A i \in p + 2..c - 2 : w[i] \in Allowed(m)
      /\ m \in NumberMarks => p + 4 <= c
  BY DEF First, LineAt, InLine, NumberMarks
<1>3. p + 1 <= x /\ x <= Len(w) /\ b = Part(w, p + 1, x) /\ \A i \in p + 2..x : w[i] \in Allowed(m)
  BY DEF InLine
<1>4. x + 2 <= c
  <2> SUFFICES ASSUME ~ (x + 2 <= c) PROVE FALSE
    OBVIOUS
  <2>1. c - 1 \in p + 2..x
    BY <1>2
  <2> QED BY <1>1, <1>2, <1>3, <2>1
<1>5. CASE x + 2 = c
  <2>1. x + 1 = c - 1
    BY <1>5
  <2>2. ASSUME m \in NumberMarks PROVE b # <<>>
    <3>1. p + 1 \in Nat /\ x - (p + 1) >= 1
      BY <1>2, <1>3, <1>5, <2>2
    <3>2. Len(b) = x - (p + 1)
      BY ONLY <1>3, <3>1, w \in Seq(Bytes), x \in Nat, PartProperties, ZenonT(60)
    <3> QED BY <3>1, <3>2
  <2> QED BY <1>2, <1>5, <2>1, <2>2
<1>6. CASE x + 2 # c
  <2>1. x + 1 \in p + 2..c - 2
    BY <1>2, <1>3, <1>4, <1>6
  <2> QED BY <1>2, <1>4, <2>1
<1> QED BY <1>5, <1>6

LEMMA AfterCRAhead ==
  ASSUME NEW w \in Seq(Bytes), NEW p \in Nat, NEW x \in Nat, NEW m, NEW b, AfterCR(w, p, x, m, b),
         NEW c \in Nat, First(w, p, c)
  PROVE  x + 1 = c /\ w[x + 1] = "LF" /\ BufToLong(b) = NumberAt(w, p, c)
<1>1. "CR" \notin Allowed(m)
  BY CharactersApart DEF Allowed
<1>2. p + 2 <= x /\ w[x] = "CR" /\ InLine(w, p, x - 1, m, b) /\ x - 1 \in Nat /\ (x - 1) + 1 = x
  BY DEF AfterCR
<1>3. (x - 1) + 2 <= c /\ (w[x] \in Allowed(m) \/ (x - 1) + 2 = c)
  BY <1>2, InLineAhead
<1>4. x + 1 = c
  BY <1>1, <1>2, <1>3
<1>5. w[c] = "LF"
  BY DEF First, LineAt
<1>6. b = Part(w, p + 1, x - 1) /\ x - 1 = c - 2
  BY <1>2, <1>4 DEF InLine
<1> QED BY <1>4, <1>5, <1>6 DEF NumberAt

(* The byte at x + 1 is one the parser goes on with.                       *)
Legal(s, b, y) ==
  /\ s \in {"Start", "StartArray"} => y \in Marks
  /\ \A m \in Marks : LineState(s, m) => y \in Allowed(m) \/ (y = "CR" /\ (m \in NumberMarks => b # <<>>))
  /\ \A m \in Marks : EndState(s, m) => y = "LF" /\ (m \in {"$", "*"} => BufToLong(b) >= -1)
  /\ s = "BulkCR" => y = "CR"
  /\ s = "BulkLF" => y = "LF"

LEMMA StatesApart ==
  /\ \A s, m : LineState(s, m) => /\ s \notin {"Start", "StartArray", "Bulk", "BulkCR", "BulkLF"}
                                  /\ \A n : ~EndState(s, n) /\ (LineState(s, n) => n = m)
  /\ \A s, m : EndState(s, m) => /\ s \notin {"Start", "StartArray", "Bulk", "BulkCR", "BulkLF"}
                                 /\ \A n : ~LineState(s, n) /\ (EndState(s, n) => n = m)
BY DEF LineState, EndState

LEMMA TokenAhead ==
  ASSUME NEW w \in Seq(Bytes), NEW p \in Nat, NEW x \in Nat, NEW s, NEW b, NEW n, Token(s, b, n, w, p, x),
         NEW e \in Nat, p <= e, e <= Len(w), ScalarAt(w, p, e) \/ HeaderAt(w, p, e)
  PROVE  x < e /\ Legal(s, b, w[x + 1])
<1>1. PICK c \in Nat : /\ c <= e /\ First(w, p, c)
                       /\ ScalarKind(w, p, c, e) \/ (c = e /\ w[p + 1] = "*" /\ NumberAt(w, p, c) \in Int /\ NumberAt(w, p, c) >= 1)
  <2>1. CASE ScalarAt(w, p, e)
    BY <2>1, FirstOfScalar
  <2>2. CASE HeaderAt(w, p, e)
    BY <2>2, FirstOfHeader
  <2> QED BY <2>1, <2>2
<1>2. p + 3 <= c /\ w[p + 1] \in Marks
  BY <1>1 DEF First, LineAt
<1>3. CASE s \in {"Start", "StartArray"} /\ x = p /\ x <= Len(w)
  <2>1. \A m \in Marks : ~LineState(s, m) /\ ~EndState(s, m)
    BY <1>3, StatesApart
  <2>2. x < e /\ w[x + 1] \in Marks
    BY <1>1, <1>2, <1>3
  <2> QED BY <1>3, <2>1, <2>2 DEF Legal
<1>4. ASSUME NEW m \in Marks, LineState(s, m), InLine(w, p, x, m, b) PROVE x < e /\ Legal(s, b, w[x + 1])
  <2>1. /\ x + 2 <= c
        /\ w[x + 1] \in Allowed(m) \/ (w[x + 1] = "CR" /\ x + 2 = c /\ (m \in NumberMarks => b # <<>>))
    BY <1>1, <1>4, InLineAhead
  <2>2. x < e
    BY <1>1, <2>1
  <2>3. s \notin {"Start", "StartArray", "Bulk", "BulkCR", "BulkLF"} /\ \A k : ~EndState(s, k) /\ (LineState(s, k) => k = m)
    BY <1>4, StatesApart
  <2> QED BY <2>1, <2>2, <2>3 DEF Legal
<1>5. ASSUME NEW m \in Marks, EndState(s, m), AfterCR(w, p, x, m, b) PROVE x < e /\ Legal(s, b, w[x + 1])
  <2>1. x + 1 = c /\ w[x + 1] = "LF" /\ BufToLong(b) = NumberAt(w, p, c)
    BY <1>1, <1>5, AfterCRAhead
  <2>2. x < e
    BY <1>1, <2>1
  <2>3. s \notin {"Start", "StartArray", "Bulk", "BulkCR", "BulkLF"} /\ \A k : ~LineState(s, k) /\ (EndState(s, k) => k = m)
    BY <1>5, StatesApart
  <2>4. m \in {"$", "*"} => BufToLong(b) >= -1
    <3>1. w[p + 1] = m
      BY <1>5 DEF AfterCR, InLine
    <3>2. PICK k : k = NumberAt(w, p, c)
      OBVIOUS
    <3>3. ASSUME m \in {"$", "*"} PROVE k \in Int /\ k >= -1
      BY <1>1, <3>1, <3>2, <3>3 DEF ScalarKind
    <3> QED BY <2>1, <3>2, <3>3
  <2> QED BY <2>1, <2>2, <2>3, <2>4 DEF Legal
<1>6. ASSUME NEW d \in Nat, InBulk(s, b, n, w, p, d, x) PROVE x < e /\ Legal(s, b, w[x + 1])
  <2>1. d <= Len(w) /\ NumberedAt(w, p, d, {"$"})
    BY <1>6 DEF InBulk
  <2>2. First(w, p, d) /\ w[p + 1] \in {"$"}
    BY <2>1, FirstOfNumbered
  <2>3. d = c
    BY <1>1, <2>2, FirstUnique
  <2>4. PICK k : k = NumberAt(w, p, c)
    OBVIOUS
  <2>5. \/ s = "Bulk" /\ n \in Nat /\ n >= 1 /\ c <= x /\ k = (x - c) + n
        \/ s = "BulkCR" /\ c <= x /\ k = x - c
        \/ s = "BulkLF" /\ c + 1 <= x /\ k = (x - 1) - c
    BY <1>6, <2>3, <2>4 DEF InBulk
  <2>6. k # -1
    BY <2>5
  <2>7. k \in Nat /\ e = c + k + 2 /\ w[e - 1] = "CR" /\ w[e] = "LF"
    BY <1>1, <2>2, <2>4, <2>6 DEF ScalarKind
  <2>8. \A m \in Marks : ~LineState(s, m) /\ ~EndState(s, m)
    BY <2>5, StatesApart
  <2>9. /\ x < e
        /\ s = "BulkCR" => x + 1 = e - 1
        /\ s = "BulkLF" => x + 1 = e
    BY <2>5, <2>7
  <2> QED BY <2>5, <2>7, <2>8, <2>9 DEF Legal
<1> QED BY <1>3, <1>4, <1>5, <1>6 DEF Token

(* A byte is taken.                                                        *)
LEMMA LineBegins ==
  ASSUME NEW w \in Seq(Bytes), NEW p \in Nat, p + 1 <= Len(w), NEW m, w[p + 1] = m
  PROVE  InLine(w, p, p + 1, m, <<>>)
<1>1. p + 1 \in Nat
  OBVIOUS
<1>2. Part(w, p + 1, p + 1) = <<>>
  BY <1>1, PartEmpty
<1> QED BY <1>2 DEF InLine

LEMMA LineGoesOn ==
  ASSUME NEW w \in Seq(Bytes), NEW p \in Nat, NEW x \in Nat, x + 1 <= Len(w), NEW m, NEW b,
         InLine(w, p, x, m, b), w[x + 1] \in Allowed(m)
  PROVE  InLine(w, p, x + 1, m, Append(b, w[x + 1]))
<1>1. p + 1 <= x /\ w[p + 1] = m /\ b = Part(w, p + 1, x) /\ \A i \in p + 2..x : w[i] \in Allowed(m)
  BY DEF InLine
<1>2. p + 1 \in Nat
  OBVIOUS
<1>3. Part(w, p + 1, x + 1) = Append(b, w[x + 1])
  BY <1>1, <1>2, PartAppends
<1>4. \A i \in p + 2..x + 1 : w[i] \in Allowed(m)
  BY <1>1
<1> QED BY <1>1, <1>3, <1>4 DEF InLine

LEMMA LineAtCR ==
  ASSUME NEW w \in Seq(Bytes), NEW p \in Nat, NEW x \in Nat, x + 1 <= Len(w), NEW m, NEW b,
         InLine(w, p, x, m, b), w[x + 1] = "CR", m \in NumberMarks => b # <<>>
  PROVE  AfterCR(w, p, x + 1, m, b)
<1>1. p + 1 <= x /\ x <= Len(w) /\ b = Part(w, p + 1, x)
  BY DEF InLine
<1>2. ASSUME m \in NumberMarks PROVE p + 3 <= x + 1
  <2>1. b # <<>>
    BY <1>2
  <2>2. p + 1 \in Nat
    OBVIOUS
  <2>3. x # p + 1
    BY <1>1, <2>1, <2>2, PartEmpty
  <2> QED BY <1>1, <2>3
<1>3. (x + 1) - 1 = x
  OBVIOUS
<1> QED BY <1>1, <1>2, <1>3 DEF AfterCR

(* LF ends a line.                                                         *)
LEMMA LineEnds ==
  ASSUME NEW w \in Seq(Bytes), NEW p \in Nat, NEW x \in Nat, x + 1 <= Len(w), NEW m, NEW b,
         AfterCR(w, p, x, m, b), w[x + 1] = "LF"
  PROVE  /\ LineAt(w, p, x + 1, {m})
         /\ \A i \in p + 2..(x + 1) - 2 : w[i] \in Allowed(m)
         /\ b = Part(w, p + 1, (x + 1) - 2)
         /\ m \in NumberMarks => /\ NumberedAt(w, p, x + 1, {m})
                             /\ NumberAt(w, p, x + 1) = BufToLong(b) /\ BufToLong(b) \in Int
<1>1. /\ p + 2 <= x /\ w[x] = "CR" /\ InLine(w, p, x - 1, m, b)
      /\ m \in NumberMarks => p + 3 <= x
  BY DEF AfterCR
<1>2. (x + 1) - 1 = x /\ (x + 1) - 2 = x - 1
  OBVIOUS
<1>3. w[p + 1] = m /\ b = Part(w, p + 1, (x + 1) - 2) /\ \A i \in p + 2..(x + 1) - 2 : w[i] \in Allowed(m)
  BY <1>1, <1>2 DEF InLine
<1>4. LineAt(w, p, x + 1, {m})
  BY <1>1, <1>2, <1>3 DEF LineAt
<1>5. ASSUME m \in NumberMarks
      PROVE  /\ NumberedAt(w, p, x + 1, {m})
             /\ NumberAt(w, p, x + 1) = BufToLong(b) /\ BufToLong(b) \in Int
  <2>1. Allowed(m) = Numeral
    BY <1>5 DEF Allowed, NumberMarks
  <2>2. NumberedAt(w, p, x + 1, {m})
    BY <1>1, <1>3, <1>4, <1>5, <2>1 DEF NumberedAt
  <2>3. NumberAt(w, p, x + 1) = BufToLong(b)
    BY <1>3 DEF NumberAt
  <2>4. NumberAt(w, p, x + 1) \in Int
    <3>1. x + 1 \in Nat /\ p <= x + 1
      BY <1>1
    <3> QED BY <2>2, <3>1, NumberedOfPart
  <2> QED BY <2>2, <2>3, <2>4
<1> QED BY <1>3, <1>4, <1>5

(* A value at the end of a line, and the header of an array.               *)
LEMMA TextSays ==
  ASSUME NEW w \in Seq(Bytes), NEW p \in Nat, NEW x \in Nat, x + 1 <= Len(w), NEW m \in {"+", "-"}, NEW b,
         AfterCR(w, p, x, m, b), w[x + 1] = "LF"
  PROVE  ScalarAt(w, p, x + 1) /\ SaysAt(w, p, x + 1, IF m = "+" THEN String(b) ELSE ErrorString(b))
<1>1. /\ LineAt(w, p, x + 1, {m})
      /\ \A i \in p + 2..(x + 1) - 2 : w[i] \in Allowed(m)
      /\ b = Part(w, p + 1, (x + 1) - 2)
  BY LineEnds
<1>2. Allowed(m) = Plain
  BY DEF Allowed
<1>3. LineAt(w, p, x + 1, {"+", "-"}) /\ w[p + 1] = m
  BY <1>1 DEF LineAt
<1>4. ScalarAt(w, p, x + 1)
  BY <1>1, <1>2, <1>3 DEF ScalarAt
<1>5. SaysAt(w, p, x + 1, IF m = "+" THEN String(b) ELSE ErrorString(b))
  BY <1>1, <1>3 DEF SaysAt
<1> QED BY <1>4, <1>5

LEMMA NumberSays ==
  ASSUME NEW w \in Seq(Bytes), NEW p \in Nat, NEW x \in Nat, x + 1 <= Len(w), NEW m \in NumberMarks, NEW b,
         AfterCR(w, p, x, m, b), w[x + 1] = "LF", NEW n, n = BufToLong(b)
  PROVE  /\ m = ":" => ScalarAt(w, p, x + 1) /\ SaysAt(w, p, x + 1, Integer(n))
         /\ m \in {"$", "*"} /\ n = -1 => ScalarAt(w, p, x + 1) /\ SaysAt(w, p, x + 1, Nil)
         /\ m = "*" /\ n = 0 => ScalarAt(w, p, x + 1) /\ SaysAt(w, p, x + 1, Array(<<>>))
         /\ m = "*" /\ n > 0 => HeaderAt(w, p, x + 1) /\ NumberAt(w, p, x + 1) = n
         /\ n \in Int
<1>1. NumberedAt(w, p, x + 1, {m}) /\ NumberAt(w, p, x + 1) = n /\ n \in Int
  BY LineEnds
<1>2. w[p + 1] = m
  BY <1>1 DEF NumberedAt, LineAt
<1>3. ASSUME m = ":" PROVE ScalarAt(w, p, x + 1) /\ SaysAt(w, p, x + 1, Integer(n))
  BY <1>1, <1>2, <1>3 DEF ScalarAt, SaysAt
<1>4. ASSUME m \in {"$", "*"} PROVE NumberedAt(w, p, x + 1, {"$", "*"})
  BY <1>1, <1>4 DEF NumberedAt, LineAt
<1>5. ASSUME m \in {"$", "*"}, n = -1 PROVE ScalarAt(w, p, x + 1) /\ SaysAt(w, p, x + 1, Nil)
  BY <1>1, <1>4, <1>5 DEF ScalarAt, SaysAt
<1>6. ASSUME m = "*", n = 0 PROVE ScalarAt(w, p, x + 1) /\ SaysAt(w, p, x + 1, Array(<<>>))
  BY <1>1, <1>6 DEF ScalarAt, SaysAt
<1>7. ASSUME m = "*", n > 0 PROVE HeaderAt(w, p, x + 1)
  BY <1>1, <1>7 DEF HeaderAt
<1> QED BY <1>1, <1>3, <1>5, <1>6, <1>7

(* The size of a bulk string: k of its n bytes are there.                  *)
LEMMA BulkBegins ==
  ASSUME NEW w \in Seq(Bytes), NEW p \in Nat, NEW x \in Nat, x + 1 <= Len(w), NEW b,
         AfterCR(w, p, x, "$", b), w[x + 1] = "LF", NEW n \in Nat, n = BufToLong(b),
         NEW k \in Nat, k <= n, (x + 1) + k <= Len(w), NEW s, s = (IF k < n THEN "Bulk" ELSE "BulkCR")
  PROVE  InBulk(s, Part(w, x + 1, (x + 1) + k), n - k, w, p, x + 1, (x + 1) + k)
<1>1. "$" \in NumberMarks
  BY DEF NumberMarks
<1>2. NumberedAt(w, p, x + 1, {"$"}) /\ NumberAt(w, p, x + 1) = n
  BY ONLY w \in Seq(Bytes), p \in Nat, x \in Nat, x + 1 <= Len(w), AfterCR(w, p, x, "$", b),
          w[x + 1] = "LF", n = BufToLong(b), <1>1, LineEnds, ZenonT(60)
<1>3. x + 1 <= (x + 1) + k /\ n = (((x + 1) + k) - (x + 1)) + (n - k)
  OBVIOUS
<1>4. CASE k < n
  <2>1. n - k \in Nat /\ n - k >= 1
    BY <1>4
  <2> QED BY <1>2, <1>3, <1>4, <2>1 DEF InBulk
<1>5. CASE ~ (k < n)
  <2>1. n = ((x + 1) + k) - (x + 1)
    BY <1>5
  <2> QED BY <1>2, <1>3, <1>5, <2>1 DEF InBulk
<1> QED BY <1>4, <1>5

LEMMA BulkGoesOn ==
  ASSUME NEW w \in Seq(Bytes), NEW p \in Nat, NEW x \in Nat, NEW c \in Nat, NEW b, NEW n,
         InBulk("Bulk", b, n, w, p, c, x), NEW k \in Nat, k <= n, x + k <= Len(w),
         NEW s, s = (IF k = n THEN "BulkCR" ELSE "Bulk")
  PROVE  InBulk(s, b \o Part(w, x, x + k), n - k, w, p, c, x + k)
<1>1. /\ c <= Len(w) /\ NumberedAt(w, p, c, {"$"}) /\ n \in Nat /\ c <= x
      /\ NumberAt(w, p, c) = (x - c) + n /\ b = Part(w, c, x)
  BY DEF InBulk
<1>2. c <= x + k /\ x <= x + k /\ x + k \in Nat
  BY <1>1
<1>3. b \o Part(w, x, x + k) = Part(w, c, x + k)
  BY <1>1, <1>2, PartJoins, ZenonT(60)
<1>4. CASE k = n
  <2>1. (x - c) + n = (x + k) - c
    BY <1>1, <1>4
  <2> QED BY <1>1, <1>2, <1>3, <1>4, <2>1 DEF InBulk
<1>5. CASE k # n
  <2>1. n - k \in Nat /\ n - k >= 1 /\ (x - c) + n = ((x + k) - c) + (n - k)
    BY <1>1, <1>5
  <2> QED BY <1>1, <1>2, <1>3, <1>5, <2>1 DEF InBulk
<1> QED BY <1>4, <1>5

LEMMA BulkAtCR ==
  ASSUME NEW w \in Seq(Bytes), NEW p \in Nat, NEW x \in Nat, NEW c \in Nat, NEW b, NEW n,
         InBulk("BulkCR", b, n, w, p, c, x), x + 1 <= Len(w), w[x + 1] = "CR"
  PROVE  InBulk("BulkLF", b, n, w, p, c, x + 1)
<1>1. (x + 1) - 1 = x
  OBVIOUS
<1> QED BY <1>1 DEF InBulk

LEMMA BulkSays ==
  ASSUME NEW w \in Seq(Bytes), NEW p \in Nat, NEW x \in Nat, NEW c \in Nat, NEW b, NEW n,
         InBulk("BulkLF", b, n, w, p, c, x), x + 1 <= Len(w), w[x + 1] = "LF"
  PROVE  ScalarAt(w, p, x + 1) /\ SaysAt(w, p, x + 1, String(b))
<1>1. PICK k : k = NumberAt(w, p, c)
  OBVIOUS
<1>2. /\ NumberedAt(w, p, c, {"$"}) /\ c + 1 <= x /\ k = (x - 1) - c
      /\ w[x] = "CR" /\ b = Part(w, c, x - 1)
  BY <1>1 DEF InBulk
<1>3. k \in Int /\ k >= 0 /\ x + 1 = c + k + 2 /\ (x + 1) - 1 = x /\ (x + 1) - 2 = x - 1
  BY <1>2
<1>4. BulkAt(w, p, c, x + 1)
  BY <1>1, <1>2, <1>3 DEF BulkAt
<1>5. p + 3 <= c
  BY <1>2 DEF NumberedAt, LineAt
<1>6. c \in p + 1..x + 1
  BY <1>2, <1>5
<1> QED BY <1>2, <1>3, <1>4, <1>6 DEF ScalarAt, SaysAt

-----------------------------------------------------------------------------
(* RedisParser: texts at their places *)

(* w has r behind its first p bytes, and nothing behind r if it is broken. *)
Placed(w, r, p) == Holds(w, r.bytes, p) /\ (~r.whole => p + Len(r.bytes) = Len(w))

LEMMA PlacedKind ==
  ASSUME NEW w \in Seq(Bytes), NEW r \in Texts, NEW p \in Nat, Placed(w, r, p),
         NEW e \in Nat, e = p + Len(r.bytes)
  PROVE  /\ p <= e /\ e <= Len(w)
         /\ \/ r.whole /\ ScalarAt(w, p, e) /\ SaysAt(w, p, e, r.value)
            \/ ~r.whole /\ e = Len(w) /\ \A d \in p + 1..Len(w) : ~ScalarAt(w, p, d) /\ ~HeaderAt(w, p, d)
            \/ \E c \in 1..Len(r.bytes) :
                 /\ IsArray(r, c) /\ HeaderAt(w, p, p + c)
                 /\ NumberOf(SubSeq(r.bytes, 1, c)) = NumberAt(w, p, p + c)
<1>1. PICK b : b = r.bytes
  OBVIOUS
<1>2. b \in Seq(Bytes) /\ Len(b) \in Nat /\ Len(w) \in Nat
  BY <1>1, TextType, LenProperties
<1>3. p <= e /\ e <= Len(w) /\ Len(b) = e - p
  BY <1>1, <1>2 DEF Placed, Holds
<1>4. b = Part(w, p, e)
  <2>1. Holds(w, b, p)
    BY <1>1 DEF Placed
  <2>2. b = Part(w, p, p + Len(b))
    BY <1>2, <2>1, HoldsIsPart
  <2> QED BY <1>1, <2>2
<1>5. ASSUME NEW n \in 1..Len(b)
      PROVE  /\ IsScalar(SubSeq(b, 1, n)) <=> ScalarAt(w, p, p + n)
             /\ IsHeader(SubSeq(b, 1, n)) <=> HeaderAt(w, p, p + n)
             /\ HeaderAt(w, p, p + n) => NumberOf(SubSeq(b, 1, n)) = NumberAt(w, p, p + n)
  <2>1. n \in Nat /\ 0 <= n /\ n <= e - p /\ 0 \in Nat /\ p + 0 = p
    BY <1>3
  <2>2. Part(b, 0, n) = Part(w, p + 0, p + n)
    BY <1>3, <1>4, <2>1, PartOfPart
  <2>3. SubSeq(b, 1, n) = Part(w, p, p + n)
    BY <2>1, <2>2 DEF Part
  <2>4. p + n \in Nat /\ p <= p + n /\ p + n <= Len(w)
    BY <1>2, <1>3, <2>1
  <2> QED BY <2>3, <2>4, ScalarOfPart
<1>6. CASE r.whole /\ IsScalar(b) /\ Says(b, r.value)
  <2>1. ScalarAt(w, p, e)
    BY <1>3, <1>4, <1>6, ScalarOfPart
  <2>2. SaysAt(w, p, e, r.value)
    BY <1>3, <1>4, <1>6, <2>1, SaysOfPart
  <2> QED BY <1>3, <1>6, <2>1, <2>2
<1>7. CASE ~r.whole /\ IsBroken(b)
  <2>1. e = Len(w)
    BY <1>7 DEF Placed
  <2>2. ASSUME NEW d \in p + 1..Len(w) PROVE ~ScalarAt(w, p, d) /\ ~HeaderAt(w, p, d)
    <3>1. d - p \in 1..Len(b) /\ p + (d - p) = d
      BY <1>2, <1>3, <2>1
    <3>2. ~IsScalar(SubSeq(b, 1, d - p)) /\ ~IsHeader(SubSeq(b, 1, d - p))
      BY <1>7, <3>1 DEF IsBroken
    <3> QED BY <1>5, <3>1, <3>2
  <2> QED BY <1>3, <1>7, <2>1, <2>2
<1>8. ASSUME NEW c \in 1..Len(b), IsArray(r, c)
      PROVE  HeaderAt(w, p, p + c) /\ NumberOf(SubSeq(b, 1, c)) = NumberAt(w, p, p + c)
  <2>1. IsHeader(SubSeq(b, 1, c))
    BY <1>1, <1>8 DEF IsArray
  <2> QED BY <1>5, <2>1
<1>9. \/ r.whole /\ IsScalar(b) /\ Says(b, r.value)
      \/ ~r.whole /\ IsBroken(b)
      \/ \E c \in 1..Len(b) : IsArray(r, c)
  BY <1>1, ParserAssumption
<1> QED BY <1>1, <1>3, <1>6, <1>7, <1>8, <1>9

(* The items of an array are where the array is.                           *)
ItemAt(w, r, p, c, i) ==
  /\ r.items[i] \in Texts
  /\ Len(Joined(r.items)[i - 1]) \in Nat
  /\ Placed(w, r.items[i], (p + c) + Len(Joined(r.items)[i - 1]))
  /\ (p + c) + Len(Joined(r.items)[i]) <= p + Len(r.bytes)
  /\ i = Len(r.items) => (p + c) + Len(Joined(r.items)[i]) = p + Len(r.bytes)
  /\ Len(Joined(r.items)[i]) = Len(Joined(r.items)[i - 1]) + Len(r.items[i].bytes)

LEMMA ItemsPlaced ==
  ASSUME NEW w \in Seq(Bytes), NEW r \in Texts, NEW p \in Nat, Placed(w, r, p),
         NEW c \in 1..Len(r.bytes), IsArray(r, c), NEW i \in 1..Len(r.items)
  PROVE  ItemAt(w, r, p, c, i)
<1>1. PICK b, s, h : b = r.bytes /\ s = r.items /\ h = SubSeq(b, 1, c)
  OBVIOUS
<1>2. b \in Seq(Bytes) /\ Len(b) \in Nat /\ s \in Seq(Texts) /\ Len(w) \in Nat /\ Len(s) \in Nat
  BY <1>1, TextType, LenProperties
<1>3. h \in Seq(Bytes) /\ Len(h) = c
  <2>1. h = Part(b, 0, c) /\ c \in Nat /\ 0 <= c /\ c <= Len(b) /\ 0 \in Nat /\ c - 0 = c
    BY <1>1 DEF Part
  <2> QED BY <1>2, <2>1, PartProperties
<1>4. PICK n \in Nat : n = Len(s)
  BY <1>2
<1>5. PICK t : t = AllOf(s)
  OBVIOUS
<1>6. t = Joined(s)[n] /\ t \in Seq(Bytes) /\ Len(t) \in Nat
  <2>1. n \in 0..Len(s) /\ t = Joined(s)[n]
    BY <1>2, <1>4, <1>5 DEF AllOf
  <2> QED BY <1>2, <2>1, JoinedType
<1>7. b = h \o t
  BY <1>1, <1>5 DEF IsArray
<1>8. Holds(b, t, c) /\ Len(b) = c + Len(t)
  BY <1>3, <1>6, <1>7, HoldsBoth
<1>9. PICK q : q = s[i]
  OBVIOUS
<1>10. q \in Texts /\ q.bytes \in Seq(Bytes) /\ Len(q.bytes) \in Nat
  BY <1>1, <1>2, <1>9, TextType
<1>11. PICK l \in Nat, m \in Nat : l = Len(Joined(s)[i - 1]) /\ m = Len(Joined(s)[i])
  <2>1. i \in 0..Len(s) /\ i - 1 \in 0..Len(s)
    BY <1>1, <1>2
  <2> QED BY <1>2, <2>1, JoinedType
<1>12. Holds(t, q.bytes, l) /\ m = l + Len(q.bytes)
  BY <1>1, <1>2, <1>5, <1>9, <1>11, JoinedHolds
<1>13. Holds(w, q.bytes, (p + c) + l)
  <2>1. Holds(b, q.bytes, c + l)
    BY <1>2, <1>6, <1>8, <1>10, <1>12, HoldsInside, SMTT(60)
  <2>2. Holds(w, b, p)
    BY <1>1 DEF Placed
  <2>3. c + l \in Nat /\ p + (c + l) = (p + c) + l
    OBVIOUS
  <2>4. Holds(w, q.bytes, p + (c + l))
    BY <1>2, <1>10, <2>1, <2>2, <2>3, HoldsInside
  <2> QED BY <2>3, <2>4
<1>14. m <= Len(t) /\ (i = n => m = Len(t))
  <2>1. i \in 0..Len(s) /\ Len(s) \in i..Len(s) /\ n = Len(s)
    BY <1>1, <1>2, <1>4
  <2>2. Len(Joined(s)[i]) <= Len(Joined(s)[Len(s)])
    BY <1>2, <2>1, JoinedGrows
  <2> QED BY <1>6, <1>11, <2>1, <2>2
<1>15. (p + c) + m <= p + Len(b) /\ (i = n => (p + c) + m = p + Len(b))
  <2>1. Len(b) = c + Len(t) /\ Len(t) \in Nat /\ c \in Nat /\ m <= Len(t) /\ (i = n => m = Len(t))
    BY <1>6, <1>8, <1>14
  <2> QED BY ONLY <2>1, p \in Nat, m \in Nat
<1>16. ASSUME ~q.whole PROVE ((p + c) + l) + Len(q.bytes) = Len(w)
  <2>1. \A j \in 1..n - 1 : s[j].whole
    BY <1>1, <1>4 DEF IsArray
  <2>2. i = n
    <3>1. i \in 1..n
      BY <1>1, <1>4
    <3>2. i \notin 1..n - 1
      BY <1>9, <1>16, <2>1
    <3> QED BY <3>1, <3>2
  <2>3. ~r.whole
    BY <1>1, <1>4, <1>9, <1>16, <2>2 DEF IsArray
  <2>4. p + Len(b) = Len(w)
    BY <1>1, <2>3 DEF Placed
  <2>5. (p + c) + m = Len(w)
    BY <1>15, <2>2, <2>4
  <2>6. PICK k \in Nat : k = Len(q.bytes)
    BY <1>10
  <2>7. m = l + k /\ c \in Nat
    BY <1>12, <2>6
  <2>8. ((p + c) + l) + k = (p + c) + m
    BY ONLY <2>7, p \in Nat, l \in Nat, k \in Nat
  <2> QED BY <2>5, <2>6, <2>8
<1>17. Placed(w, q, (p + c) + l)
  BY <1>13, <1>16 DEF Placed
<1> QED BY <1>1, <1>4, <1>9, <1>10, <1>11, <1>12, <1>15, <1>17 DEF ItemAt

-----------------------------------------------------------------------------
(* RedisParser: the open arrays *)

Values == {r.value : r \in Texts}
Open == [left : Int, items : Seq(Values)]

(* a is what is kept of the array r at p, whose next item is q at o.       *)
ItemOf(r, a, p, q, o) ==
  LET n == Len(a.items)
  IN \E c \in 1..Len(r.bytes) :
       /\ IsArray(r, c)
       /\ NumberOf(SubSeq(r.bytes, 1, c)) \in Nat
       /\ a.left = NumberOf(SubSeq(r.bytes, 1, c)) - n
       /\ n < Len(r.items)
       /\ a.items = [j \in 1..n |-> r.items[j].value]
       /\ q = r.items[n + 1]
       /\ o = (p + c) + Len(Joined(r.items)[n])
(* From r at p, through the open arrays a, to the innermost item.          *)
Path(w, a, r, p, el, st) ==
  /\ el \in [0..Len(a) -> Texts] /\ st \in [0..Len(a) -> Nat]
  /\ el[Len(a)] = r /\ st[Len(a)] = p
  /\ \A i \in 0..Len(a) : Placed(w, el[i], st[i])
  /\ \A i \in 1..Len(a) : ItemOf(el[i], a[i], st[i], el[i - 1], st[i - 1])

LEMMA OpenType ==
  ASSUME NEW a \in Seq(Open), NEW i \in 1..Len(a)
  PROVE  /\ a[i].left \in Int /\ a[i].items \in Seq(Values) /\ Len(a[i].items) \in Nat
         /\ a[i] = [left |-> a[i].left, items |-> a[i].items]
<1>1. a[i] \in Open
  OBVIOUS
<1> QED BY <1>1, LenProperties DEF Open

(* An item in the middle of an array.                                      *)
LEMMA ItemPlaces ==
  ASSUME NEW w \in Seq(Bytes), NEW r \in Texts, NEW p \in Nat, Placed(w, r, p),
         NEW a \in Open, NEW q, NEW o, ItemOf(r, a, p, q, o)
  PROVE  /\ q \in Texts /\ o \in Nat /\ p <= o
         /\ o + Len(q.bytes) <= p + Len(r.bytes)
         /\ ~q.whole => ~r.whole
<1>1. PICK n \in Nat : n = Len(a.items)
  BY LenProperties DEF Open
<1>2. PICK c \in 1..Len(r.bytes) :
        /\ IsArray(r, c) /\ n < Len(r.items) /\ q = r.items[n + 1]
        /\ o = (p + c) + Len(Joined(r.items)[n])
  BY <1>1 DEF ItemOf
<1>3. PICK k \in Nat : k = Len(r.items)
  BY TextType, LenProperties
<1>4. n + 1 \in 1..Len(r.items) /\ (n + 1) - 1 = n
  BY <1>2, <1>3
<1>5. PICK l, m, e : l = Len(Joined(r.items)[n]) /\ m = Len(Joined(r.items)[n + 1]) /\ e = Len(q.bytes)
  OBVIOUS
<1>6. q \in Texts /\ l \in Nat /\ (p + c) + m <= p + Len(r.bytes) /\ m = l + e
  <2>1. PICK j \in 1..Len(r.items) : j = n + 1
    BY <1>4
  <2>2. j \in 1..Len(r.items) /\ j - 1 = n
    BY <1>4, <2>1
  <2>5. ItemAt(w, r, p, c, j)
    BY <1>2, <2>1, ItemsPlaced
  <2>4. q = r.items[j] /\ l = Len(Joined(r.items)[j - 1]) /\ m = Len(Joined(r.items)[j])
    BY <1>2, <1>5, <2>1, <2>2
  <2> QED BY <1>5, <2>4, <2>5 DEF ItemAt
<1>7. e \in Nat /\ Len(r.bytes) \in Nat /\ c \in Nat
  BY <1>5, <1>6, TextType
<1>8. o = (p + c) + l
  BY <1>2, <1>5
<1>9. o \in Nat /\ p <= o /\ o + e <= p + Len(r.bytes)
  BY <1>6, <1>7, <1>8
<1>10. ASSUME ~q.whole PROVE ~r.whole
  <2>1. /\ \A i \in 1..k - 1 : r.items[i].whole
        /\ r.whole = r.items[k].whole
    BY <1>2, <1>3 DEF IsArray
  <2>2. n + 1 = k
    <3>1. n + 1 \notin 1..k - 1
      BY <1>2, <1>10, <2>1
    <3> QED BY <1>3, <1>4, <3>1
  <2> QED BY <1>2, <1>10, <2>1, <2>2
<1> QED BY <1>5, <1>6, <1>9, <1>10

(* The innermost item is within r, and r breaks off where it does.         *)
LEMMA PathInnermost ==
  ASSUME NEW w \in Seq(Bytes), NEW a \in Seq(Open), NEW r \in Texts, NEW p \in Nat, NEW el, NEW st,
         Path(w, a, r, p, el, st)
  PROVE  /\ el[0] \in Texts /\ st[0] \in Nat /\ Placed(w, el[0], st[0])
         /\ p <= st[0] /\ st[0] + Len(el[0].bytes) <= p + Len(r.bytes)
         /\ ~el[0].whole => ~r.whole
<1>1. PICK k \in Nat : k = Len(a)
  BY LenProperties
<1>2. /\ el \in [0..k -> Texts] /\ st \in [0..k -> Nat] /\ el[k] = r /\ st[k] = p
      /\ \A i \in 0..k : Placed(w, el[i], st[i])
      /\ \A i \in 1..k : ItemOf(el[i], a[i], st[i], el[i - 1], st[i - 1])
  BY <1>1 DEF Path
<1> DEFINE In(i) == /\ st[i] <= st[0] /\ st[0] + Len(el[0].bytes) <= st[i] + Len(el[i].bytes)
                    /\ ~el[0].whole => ~el[i].whole
           P == {i \in Nat : i <= k => In(i)}
<1>3. \A i \in 0..k : el[i] \in Texts /\ st[i] \in Nat /\ Len(el[i].bytes) \in Nat
  BY <1>2, TextType
<1>4. 0 \in P
  <2>1. 0 \in 0..k
    OBVIOUS
  <2> QED BY <1>3, <2>1
<1>5. ASSUME NEW i \in Nat, i \in P PROVE i + 1 \in P
  <2> SUFFICES ASSUME i + 1 <= k PROVE In(i + 1)
    OBVIOUS
  <2>1. i + 1 \in 1..k /\ i + 1 \in 0..k /\ i \in 0..k /\ 0 \in 0..k /\ (i + 1) - 1 = i
    OBVIOUS
  <2>2. In(i)
    BY <1>5
  <2>3. PICK e, f : e = el[i + 1] /\ f = el[i]
    OBVIOUS
  <2>4. PICK s, t, u : s = st[i + 1] /\ t = st[i] /\ u = st[0]
    OBVIOUS
  <2>5. e \in Texts /\ s \in Nat /\ t \in Nat /\ u \in Nat /\ Placed(w, e, s)
    BY <1>2, <1>3, <2>1, <2>3, <2>4
  <2>6. a[i + 1] \in Open
    BY <1>1, <2>1
  <2>7. ItemOf(e, a[i + 1], s, f, t)
    BY <1>2, <2>1, <2>3, <2>4
  <2>8. s <= t /\ t + Len(f.bytes) <= s + Len(e.bytes) /\ (~f.whole => ~e.whole)
    BY <2>5, <2>6, <2>7, ItemPlaces
  <2>9. PICK x, y, z : x = Len(el[0].bytes) /\ y = Len(f.bytes) /\ z = Len(e.bytes)
    OBVIOUS
  <2>10. x \in Nat /\ y \in Nat /\ z \in Nat
    BY <1>3, <2>1, <2>3, <2>9
  <2>11. t <= u /\ u + x <= t + y /\ (~el[0].whole => ~f.whole)
    BY ONLY <2>2, <2>3, <2>4, <2>9, Zenon
  <2>12. s <= u /\ u + x <= s + z
    <3>1. s <= t /\ t <= u /\ t + y <= s + z /\ u + x <= t + y
      BY ONLY <2>8, <2>9, <2>11, Zenon
    <3>2. s \in Nat /\ t \in Nat /\ u \in Nat
      BY ONLY <2>5
    <3> QED BY ONLY <3>1, <3>2, <2>10
  <2> QED BY <2>3, <2>4, <2>8, <2>9, <2>11, <2>12
<1>6. Nat \subseteq P
  <2> HIDE DEF P
  <2> QED BY <1>4, <1>5, Induction
<1>7. In(k)
  BY <1>6
<1>8. 0 \in 0..k
  OBVIOUS
<1> QED BY <1>2, <1>3, <1>7, <1>8

(* Without an open array.                                                  *)
LEMMA PathBegins ==
  ASSUME NEW w \in Seq(Bytes), NEW r \in Texts, NEW p \in Nat, Placed(w, r, p)
  PROVE  Path(w, <<>>, r, p, [i \in 0..0 |-> r], [i \in 0..0 |-> p])
<1>1. Len(<<>>) = 0
  OBVIOUS
<1>2. PICK el, st : el = [i \in 0..0 |-> r] /\ st = [i \in 0..0 |-> p]
  OBVIOUS
<1>3. el \in [0..0 -> Texts] /\ st \in [0..0 -> Nat] /\ el[0] = r /\ st[0] = p
  BY <1>2
<1>4. Path(w, <<>>, r, p, el, st)
  BY <1>1, <1>3 DEF Path
<1> QED BY <1>2, <1>4

(* An item of the innermost array o[1], and the arrays of a from the one   *)
(* behind i on.                                                            *)
Behind(o, a, i) == Len(o) = (Len(a) - i) + 1 /\ \A l \in 2..Len(o) : o[l] = a[(i - 1) + l]

(* Some path through o ends at q.                                          *)
Leads(w, o, r, p, q, z) == \E f, t : Path(w, o, r, p, f, t) /\ f[0] = q /\ t[0] = z

LEMMA PathNext ==
  ASSUME NEW w \in Seq(Bytes), NEW a \in Seq(Open), NEW r \in Texts, NEW p \in Nat, NEW el, NEW st,
         Path(w, a, r, p, el, st),
         NEW i \in 0..Len(a), NEW o \in Seq(Open), NEW q \in Texts, NEW z \in Nat,
         Behind(o, a, i), ItemOf(el[i], o[1], st[i], q, z), Placed(w, q, z)
  PROVE  Leads(w, o, r, p, q, z)
<1>1. PICK k \in Nat : k = Len(a)
  BY LenProperties
<1>2. PICK m \in Nat : m = Len(o) /\ m = (k - i) + 1
  BY <1>1, LenProperties DEF Behind
<1>3. /\ el \in [0..k -> Texts] /\ st \in [0..k -> Nat] /\ el[k] = r /\ st[k] = p
      /\ \A j \in 0..k : Placed(w, el[j], st[j])
      /\ \A j \in 1..k : ItemOf(el[j], a[j], st[j], el[j - 1], st[j - 1])
  BY <1>1 DEF Path
<1>4. PICK f, t : /\ f = [l \in 0..m |-> IF l = 0 THEN q ELSE el[(i - 1) + l]]
                  /\ t = [l \in 0..m |-> IF l = 0 THEN z ELSE st[(i - 1) + l]]
  OBVIOUS
<1>5. f[0] = q /\ t[0] = z /\ 0 \in 0..m
  BY <1>4
<1>6. \A l \in 1..m : f[l] = el[(i - 1) + l] /\ t[l] = st[(i - 1) + l] /\ (i - 1) + l \in 0..k
  BY <1>1, <1>2, <1>4
<1>7. f \in [0..m -> Texts] /\ t \in [0..m -> Nat]
  <2>1. ASSUME NEW l \in 0..m PROVE f[l] \in Texts /\ t[l] \in Nat
    <3>1. CASE l = 0
      BY <1>5, <3>1
    <3>2. CASE l # 0
      <4>1. l \in 1..m
        BY <3>2
      <4> QED BY <1>3, <1>6, <4>1
    <3> QED BY <3>1, <3>2
  <2> QED BY <1>4, <2>1
<1>8. f[m] = r /\ t[m] = p
  <2>1. m \in 1..m /\ (i - 1) + m = k
    BY <1>1, <1>2
  <2> QED BY <1>3, <1>6, <2>1
<1>9. ASSUME NEW l \in 0..m PROVE Placed(w, f[l], t[l])
  <2>1. CASE l = 0
    BY <1>5, <2>1
  <2>2. CASE l # 0
    <3>1. l \in 1..m
      BY <2>2
    <3> QED BY <1>3, <1>6, <3>1
  <2> QED BY <2>1, <2>2
<1>10. ASSUME NEW l \in 1..m PROVE ItemOf(f[l], o[l], t[l], f[l - 1], t[l - 1])
  <2>1. CASE l = 1
    <3>1. f[l] = el[i] /\ t[l] = st[i] /\ f[l - 1] = q /\ t[l - 1] = z
      BY <1>5, <1>6, <2>1
    <3> QED BY <2>1, <3>1
  <2>2. CASE l # 1
    <3>1. l \in 2..m /\ l - 1 \in 1..m /\ (i - 1) + (l - 1) = ((i - 1) + l) - 1 /\ (i - 1) + l \in 1..k
      BY <1>1, <1>2, <2>2
    <3>2. o[l] = a[(i - 1) + l]
      BY <1>2, <3>1 DEF Behind
    <3>3. f[l - 1] = el[((i - 1) + l) - 1] /\ t[l - 1] = st[((i - 1) + l) - 1]
      BY <1>6, <3>1
    <3>4. f[l] = el[(i - 1) + l] /\ t[l] = st[(i - 1) + l]
      BY <1>6
    <3> QED BY <1>3, <3>1, <3>2, <3>3, <3>4
  <2> QED BY <2>1, <2>2
<1>11. Path(w, o, r, p, f, t)
  BY <1>2, <1>7, <1>8, <1>9, <1>10 DEF Path
<1> QED BY <1>5, <1>11 DEF Leads

(* An array opens: its first item is the innermost.                        *)
Opens(q, c, n) == c \in 1..Len(q.bytes) /\ IsArray(q, c) /\ n = NumberOf(SubSeq(q.bytes, 1, c))

LEMMA PathOpens ==
  ASSUME NEW w \in Seq(Bytes), NEW a \in Seq(Open), NEW r \in Texts, NEW p \in Nat, NEW el, NEW st,
         Path(w, a, r, p, el, st),
         NEW c \in Nat, NEW n \in Nat, Opens(el[0], c, n),
         NEW o, o = <<[left |-> n, items |-> <<>>]>> \o a
  PROVE  o \in Seq(Open) /\ \E q : Leads(w, o, r, p, q, st[0] + c)
<1>0. c \in 1..Len(el[0].bytes) /\ IsArray(el[0], c) /\ n = NumberOf(SubSeq(el[0].bytes, 1, c))
  BY DEF Opens
<1>1. PICK k \in Nat : k = Len(a)
  BY LenProperties
<1>2. PICK b, x : b = el[0] /\ x = st[0]
  OBVIOUS
<1>3. b \in Texts /\ x \in Nat /\ Placed(w, b, x)
  BY <1>2, PathInnermost
<1>4. PICK h : h = [left |-> n, items |-> <<>>]
  OBVIOUS
<1>5. h \in Open /\ h.left = n /\ h.items = <<>> /\ Len(h.items) = 0
  <2>1. <<>> \in Seq(Values) /\ Len(<<>>) = 0
    OBVIOUS
  <2> QED BY <1>4, <2>1 DEF Open
<1>6. <<h>> \in Seq(Open) /\ Len(<<h>>) = 1 /\ <<h>>[1] = h
  BY <1>5
<1>7. o \in Seq(Open) /\ Len(o) = 1 + k
  BY <1>1, <1>4, <1>6, ConcatProperties
<1>8. o[1] = h
  <2>1. 1 \in 1..Len(<<h>>) + Len(a) /\ 1 <= Len(<<h>>)
    BY <1>1, <1>6
  <2>2. (<<h>> \o a)[1] = <<h>>[1]
    BY <1>6, <2>1, ConcatProperties
  <2> QED BY <1>4, <1>6, <2>2
<1>9. \A l \in 2..Len(o) : o[l] = a[(0 - 1) + l]
  <2> TAKE l \in 2..Len(o)
  <2>1. l \in 1..Len(<<h>>) + Len(a) /\ ~ (l <= Len(<<h>>)) /\ l - Len(<<h>>) = (0 - 1) + l
    BY <1>1, <1>6, <1>7
  <2>2. (<<h>> \o a)[l] = a[l - Len(<<h>>)]
    BY <1>6, <2>1, ConcatProperties
  <2> QED BY <1>4, <2>1, <2>2
<1>10. b.items \in Seq(Texts) /\ Len(b.items) >= 1 /\ Len(b.items) \in Nat
  <2>1. Len(b.items) \in 1..NumberOf(SubSeq(b.bytes, 1, c))
    BY <1>0, <1>2 DEF IsArray
  <2> QED BY <1>3, <2>1, TextType, LenProperties
<1>11. 1 \in 1..Len(b.items) /\ 1 - 1 = 0
  BY <1>10
<1>12. Len(Joined(b.items)[0]) = 0
  <2>1. Joined(b.items)[0] = <<>>
    BY <1>10, JoinedUnfolds
  <2> QED BY <2>1
<1>13. PICK q, z : q = b.items[1] /\ z = (x + c) + Len(Joined(b.items)[0])
  OBVIOUS
<1>14. q \in Texts /\ Placed(w, q, z)
  <2>1. c \in 1..Len(b.bytes) /\ IsArray(b, c)
    BY <1>0, <1>2
  <2>2. PICK i : i = 1
    OBVIOUS
  <2>3. i \in 1..Len(b.items) /\ q = b.items[i] /\ z = (x + c) + Len(Joined(b.items)[i - 1])
    BY <1>11, <1>13, <2>2
  <2>4. ItemAt(w, b, x, c, i)
    BY <1>3, <2>1, <2>3, ItemsPlaced
  <2> QED BY <2>3, <2>4 DEF ItemAt
<1>15. z = x + c /\ z \in Nat
  BY <1>3, <1>12, <1>13
<1>16. ItemOf(b, h, x, q, z)
  <2>1. <<>> = [j \in 1..0 |-> b.items[j].value]
    OBVIOUS
  <2>2. /\ IsArray(b, c) /\ n = NumberOf(SubSeq(b.bytes, 1, c)) /\ c \in 1..Len(b.bytes)
        /\ h.left = n - 0 /\ 0 < Len(b.items) /\ q = b.items[0 + 1]
    BY <1>0, <1>2, <1>5, <1>10, <1>13
  <2> QED BY <1>5, <1>13, <2>1, <2>2 DEF ItemOf
<1>17. Leads(w, o, r, p, q, z)
  <2>1. PICK i \in 0..Len(a) : i = 0
    BY <1>1
  <2>2. Behind(o, a, i)
    BY <1>1, <1>7, <1>9, <2>1 DEF Behind
  <2>3. ItemOf(el[i], o[1], st[i], q, z)
    BY <1>2, <1>8, <1>16, <2>1
  <2>5. o \in Seq(Open)
    BY <1>7
  <2>6. PICK y \in Nat : y = z
    BY <1>15
  <2>7. ItemOf(el[i], o[1], st[i], q, y) /\ Placed(w, q, y) /\ q \in Texts
    BY <1>14, <2>3, <2>6
  <2>8. Leads(w, o, r, p, q, y)
    BY <2>1, <2>2, <2>5, <2>6, <2>7, PathNext
  <2> QED BY <2>6, <2>8
<1> QED BY <1>2, <1>7, <1>15, <1>17

-----------------------------------------------------------------------------
(* RedisParser: a value ends arrays *)

(* After the item q, which ends at z, the array e at p is complete or goes *)
(* on; s are its items' values so far.                                     *)
Ended(w, e, h, p, z, s) ==
  /\ z \in Nat /\ s \in Seq(Values) /\ h.left \in Int
  /\ h.left = 1 => e.whole /\ e.value = Array(s) /\ p + Len(e.bytes) = z
  /\ h.left # 1 => \E q \in Texts : ItemOf(e, [left |-> h.left - 1, items |-> s], p, q, z) /\ Placed(w, q, z)

LEMMA ItemEnds ==
  ASSUME NEW w \in Seq(Bytes), NEW e \in Texts, NEW p \in Nat, Placed(w, e, p),
         NEW h \in Open, NEW q, NEW o, ItemOf(e, h, p, q, o), q.whole,
         NEW z, z = o + Len(q.bytes), NEW s, s = Append(h.items, q.value)
  PROVE  Ended(w, e, h, p, z, s)
<1>1. PICK n \in Nat : n = Len(h.items) /\ h.items \in Seq(Values) /\ h.left \in Int
  BY LenProperties DEF Open
<1>2. PICK c \in 1..Len(e.bytes) :
        /\ IsArray(e, c)
        /\ NumberOf(SubSeq(e.bytes, 1, c)) \in Nat
        /\ h.left = NumberOf(SubSeq(e.bytes, 1, c)) - n
        /\ n < Len(e.items) /\ q = e.items[n + 1]
        /\ h.items = [i \in 1..n |-> e.items[i].value]
        /\ o = (p + c) + Len(Joined(e.items)[n])
  BY <1>1 DEF ItemOf
<1>3. PICK k \in Nat : k = Len(e.items)
  BY TextType, LenProperties
<1>4. PICK m : m = NumberOf(SubSeq(e.bytes, 1, c))
  OBVIOUS
<1>5. PICK j \in 1..k : j = n + 1 /\ j - 1 = n
  BY <1>2, <1>3
<1>6. ItemAt(w, e, p, c, j)
  <2>1. j \in 1..Len(e.items)
    BY <1>3, <1>5
  <2> QED BY <1>2, <2>1, ItemsPlaced
<1>7. q \in Texts
  BY <1>2, <1>5, <1>6 DEF ItemAt
<1>8. PICK l \in Nat, d \in Nat, f \in Nat : l = Len(Joined(e.items)[j - 1]) /\ d = Len(q.bytes) /\ f = Len(Joined(e.items)[j])
  <2>1. Len(Joined(e.items)[j - 1]) \in Nat /\ Len(q.bytes) \in Nat
    BY <1>6, <1>7, TextType DEF ItemAt
  <2>2. Len(Joined(e.items)[j]) = Len(Joined(e.items)[j - 1]) + Len(q.bytes)
    BY <1>2, <1>5, <1>6 DEF ItemAt
  <2>3. PICK l \in Nat, d \in Nat : l = Len(Joined(e.items)[j - 1]) /\ d = Len(q.bytes)
    BY <2>1
  <2>4. PICK f \in Nat : f = l + d
    OBVIOUS
  <2>5. f = Len(Joined(e.items)[j])
    BY <2>2, <2>3, <2>4
  <2> QED BY <2>3, <2>4, <2>5
<1>9. z = (p + c) + f /\ z \in Nat
  <2>1. f = l + d
    BY <1>2, <1>5, <1>6, <1>8 DEF ItemAt
  <2>2. o = (p + c) + l
    BY <1>2, <1>5, <1>8
  <2>3. c \in Nat
    OBVIOUS
  <2>4. z = o + d
    BY <1>8
  <2> QED BY ONLY <2>1, <2>2, <2>3, <2>4, p \in Nat, l \in Nat, d \in Nat, f \in Nat
<1>10. s \in Seq(Values) /\ Len(s) = j /\ s = [i \in 1..j |-> e.items[i].value]
  <2>1. q.value \in Values
    BY <1>7 DEF Values
  <2>2. s \in Seq(Values) /\ Len(s) = j
    BY <1>1, <1>5, <2>1
  <2>3. \A i \in 1..j : s[i] = e.items[i].value
    <3> TAKE i \in 1..j
    <3>1. CASE i = j
      <4>1. s[i] = q.value
        BY <1>1, <1>5, <2>1, <3>1
      <4> QED BY <1>2, <1>5, <3>1, <4>1
    <3>2. CASE i # j
      <4>1. i \in 1..n
        BY <1>5, <3>2
      <4>2. s[i] = h.items[i]
        BY <1>1, <2>1, <4>1
      <4> QED BY <1>2, <4>1, <4>2
    <3> QED BY <3>1, <3>2
  <2>4. s = [i \in 1..j |-> s[i]]
    BY <2>2, SMTT(60)
  <2> QED BY <2>2, <2>3, <2>4
<1>11. /\ m \in Nat /\ h.left = m - n /\ k \in 1..m
       /\ \A i \in 1..k - 1 : e.items[i].whole
       /\ e.whole = e.items[k].whole
       /\ e.whole => k = m /\ e.value = Array([i \in 1..k |-> e.items[i].value])
  BY <1>2, <1>3, <1>4 DEF IsArray
<1>12. ASSUME h.left = 1 PROVE e.whole /\ e.value = Array(s) /\ p + Len(e.bytes) = z
  <2>1. j = k
    BY <1>5, <1>11, <1>12
  <2>2. e.whole
    BY <1>2, <1>5, <1>11, <2>1
  <2>3. e.value = Array(s)
    BY <1>10, <1>11, <2>1, <2>2
  <2>4. (p + c) + f = p + Len(e.bytes)
    BY <1>3, <1>6, <1>8, <2>1 DEF ItemAt
  <2> QED BY <1>9, <2>2, <2>3, <2>4
<1>13. ASSUME h.left # 1
       PROVE  \E y \in Texts : ItemOf(e, [left |-> h.left - 1, items |-> s], p, y, z) /\ Placed(w, y, z)
  <2>1. j # k
    <3> SUFFICES ASSUME j = k PROVE FALSE
      OBVIOUS
    <3>1. e.whole
      BY <1>2, <1>5, <1>11
    <3> QED BY <1>5, <1>11, <1>13, <3>1
  <2>2. PICK i \in 1..Len(e.items) : i = j + 1 /\ i - 1 = j
    BY <1>3, <1>5, <2>1
  <2>3. ItemAt(w, e, p, c, i)
    BY <1>2, ItemsPlaced
  <2>4. PICK y : y = e.items[i]
    OBVIOUS
  <2>5. y \in Texts /\ Placed(w, y, z)
    BY <1>8, <1>9, <2>2, <2>3, <2>4 DEF ItemAt
  <2>6. PICK g : g = [left |-> h.left - 1, items |-> s]
    OBVIOUS
  <2>7. g.left = h.left - 1 /\ g.items = s /\ Len(g.items) = j
    BY <1>10, <2>6
  <2>8. g.left = m - j
    BY <1>1, <1>5, <1>11, <2>7
  <2>9. j < Len(e.items) /\ y = e.items[j + 1]
    BY <2>2, <2>4
  <2>10. z = (p + c) + Len(Joined(e.items)[j])
    BY <1>8, <1>9
  <2>11. ItemOf(e, g, p, y, z)
    BY <1>2, <1>4, <1>10, <1>11, <2>7, <2>8, <2>9, <2>10 DEF ItemOf
  <2> QED BY <2>5, <2>6, <2>11
<1> QED BY <1>1, <1>9, <1>10, <1>12, <1>13 DEF Ended

(* Closing, step by step.                                                  *)
ClosingUpTo(a, v, n, u) ==
  u = [i \in 0..n |-> IF i = 0 THEN [open |-> a, value |-> v, settled |-> FALSE] ELSE Close(u[i - 1])]

LEMMA ClosingExists ==
  ASSUME NEW a, NEW v, NEW n \in Nat
  PROVE  \E u : ClosingUpTo(a, v, n, u)
<1> DEFINE P == {m \in Nat : \E u : ClosingUpTo(a, v, m, u)}
           b == [open |-> a, value |-> v, settled |-> FALSE]
<1>0. \A m, u : ClosingUpTo(a, v, m, u) <=> u = [i \in 0..m |-> IF i = 0 THEN b ELSE Close(u[i - 1])]
  BY DEF ClosingUpTo
<1> HIDE DEF b
<1>1. 0 \in P
  <2>1. PICK u : u = [i \in 0..0 |-> b]
    OBVIOUS
  <2>2. u = [i \in 0..0 |-> IF i = 0 THEN b ELSE Close(u[i - 1])]
    BY <2>1
  <2> QED BY <1>0, <2>2
<1>2. ASSUME NEW k \in Nat, k \in P PROVE k + 1 \in P
  <2>1. PICK u : u = [i \in 0..k |-> IF i = 0 THEN b ELSE Close(u[i - 1])]
    BY <1>0, <1>2
  <2>2. PICK x : x = [i \in 0..k + 1 |-> IF i = 0 THEN b ELSE Close(u[i - 1])]
    OBVIOUS
  <2>3. \A i \in 0..k : x[i] = u[i]
    <3> TAKE i \in 0..k
    <3>1. x[i] = IF i = 0 THEN b ELSE Close(u[i - 1])
      BY <2>2
    <3>2. u[i] = IF i = 0 THEN b ELSE Close(u[i - 1])
      BY <2>1
    <3> QED BY <3>1, <3>2
  <2>4. ASSUME NEW i \in 0..k + 1
        PROVE  (IF i = 0 THEN b ELSE Close(u[i - 1])) = (IF i = 0 THEN b ELSE Close(x[i - 1]))
    <3>1. CASE i = 0
      BY <3>1
    <3>2. CASE i # 0
      <4>1. i - 1 \in 0..k
        BY <3>2
      <4>2. x[i - 1] = u[i - 1]
        BY <2>3, <4>1
      <4> QED BY <4>2
    <3> QED BY <3>1, <3>2
  <2>5. x = [i \in 0..k + 1 |-> IF i = 0 THEN b ELSE Close(x[i - 1])]
    BY <2>2, <2>4
  <2>6. ClosingUpTo(a, v, k + 1, x)
    BY <2>5 DEF ClosingUpTo, b
  <2> QED BY <2>6
<1>3. Nat \subseteq P
  <2> HIDE DEF P
  <2> QED BY <1>1, <1>2, Induction
<1> QED BY <1>3

(* What is left of the arrays a behind a value that ends at z, after i of  *)
(* them have been looked at.                                               *)
Left(w, a, r, p, el, st, z, i, g) ==
  \/ /\ g.settled = FALSE /\ g.open = SubSeq(a, i + 1, Len(a))
     /\ g.value = el[i].value /\ el[i].whole /\ st[i] + Len(el[i].bytes) = z
  \/ g.settled = TRUE /\ g.open \in Seq(Open) /\ g.open # <<>> /\ \E q : Leads(w, g.open, r, p, q, z)
(* ... and of all of them.                                                 *)
Closed(w, r, p, z, g) ==
  \/ g.open = <<>> /\ r.whole /\ g.value = r.value /\ p + Len(r.bytes) = z
  \/ g.open \in Seq(Open) /\ g.open # <<>> /\ \E q : Leads(w, g.open, r, p, q, z)

LEMMA CloseStep ==
  ASSUME NEW w \in Seq(Bytes), NEW a \in Seq(Open), NEW r \in Texts, NEW p \in Nat, NEW el, NEW st,
         Path(w, a, r, p, el, st), NEW z,
         NEW i \in Nat, i + 1 <= Len(a), NEW g, Left(w, a, r, p, el, st, z, i, g)
  PROVE  Left(w, a, r, p, el, st, z, i + 1, Close(g))
<1>1. CASE g.settled = TRUE
  <2>1. Close(g) = g
    BY <1>1 DEF Close
  <2> QED BY <1>1, <2>1 DEF Left
<1>2. CASE g.settled = FALSE
  <2>1. PICK k \in Nat : k = Len(a)
    BY LenProperties
  <2>2. /\ g.open = SubSeq(a, i + 1, k)
        /\ g.value = el[i].value /\ el[i].whole /\ st[i] + Len(el[i].bytes) = z
    BY <1>2, <2>1 DEF Left
  <2>3. PICK j \in 1..Len(a) : j = i + 1 /\ j - 1 = i
    BY <2>1
  <2>4. /\ g.open = Part(a, i, k) /\ g.open \in Seq(Open) /\ Len(g.open) = k - i
        /\ \A l \in 1..k - i : g.open[l] = a[i + l]
    BY <2>1, <2>2, PartProperties DEF Part
  <2>5. PICK h : h = a[j]
    OBVIOUS
  <2>6. Head(g.open) = h /\ h \in Open
    <3>1. Head(g.open) = g.open[1] /\ 1 \in 1..k - i
      BY <2>1, <2>4
    <3> QED BY <2>3, <2>4, <2>5, <3>1, SMTT(60)
  <2>7. PICK t : t = Tail(g.open)
    OBVIOUS
  <2>8. t \in Seq(Open) /\ Len(t) = k - j /\ \A l \in 1..k - j : t[l] = a[j + l]
    <3>1. t \in Seq(Open) /\ Len(t) = k - j
      <4>1. k - i >= 1 /\ k - j = (k - i) - 1 /\ g.open # <<>>
        BY <2>1, <2>3, <2>4, SMTT(60)
      <4> QED BY <2>4, <2>7, <4>1, HeadTailProperties
    <3>2. ASSUME NEW l \in 1..k - j PROVE t[l] = a[j + l]
      <4>1. l + 1 \in 1..k - i /\ i + (l + 1) = j + l
        BY <2>3
      <4>2. t[l] = g.open[l + 1]
        <5>1. g.open # <<>> /\ l \in 1..Len(Tail(g.open))
          BY <2>1, <2>3, <2>4, <2>7, <3>1
        <5> QED BY <2>4, <2>7, <5>1, HeadTailProperties
      <4> QED BY <2>4, <4>1, <4>2
    <3> QED BY <3>1, <3>2
  <2>9. PICK e, q, x, o : e = el[j] /\ q = el[i] /\ x = st[j] /\ o = st[i]
    OBVIOUS
  <2>10. e \in Texts /\ x \in Nat /\ Placed(w, e, x) /\ ItemOf(e, h, x, q, o)
    <3>1. j \in 0..Len(a) /\ i \in 0..Len(a)
      BY <2>1, <2>3
    <3> QED BY <2>3, <2>5, <2>9, <3>1 DEF Path
  <2>11. PICK s : s = Append(h.items, q.value)
    OBVIOUS
  <2>12. q.whole /\ z = o + Len(q.bytes) /\ g.value = q.value
    BY <2>2, <2>9
  <2>13. Ended(w, e, h, x, z, s)
    BY <2>6, <2>10, <2>11, <2>12, ItemEnds
  <2>14. CASE h.left = 1
    <3>1. Close(g) = [open |-> t, value |-> Array(s), settled |-> FALSE]
      BY <1>2, <2>6, <2>7, <2>11, <2>12, <2>14 DEF Close
    <3>2. t = SubSeq(a, (i + 1) + 1, Len(a))
      <4>1. PICK b : b = Part(a, j, k)
        OBVIOUS
      <4>2. b \in Seq(Open) /\ Len(b) = k - j /\ \A l \in 1..k - j : b[l] = a[j + l]
        <5>1. j \in Nat /\ j <= k /\ k <= Len(a) /\ k \in Nat
          BY <2>1
        <5> QED BY ONLY <4>1, <5>1, a \in Seq(Open), PartProperties, ZenonT(60)
      <4>3. t = b
        BY <2>8, <4>2, SameSequence
      <4> QED BY <2>1, <2>3, <4>1, <4>3 DEF Part
    <3>3. e.whole /\ e.value = Array(s) /\ x + Len(e.bytes) = z
      BY <2>13, <2>14 DEF Ended
    <3> QED BY <2>3, <2>9, <3>1, <3>2, <3>3 DEF Left
  <2>15. CASE h.left # 1
    <3>1. PICK f : f = [left |-> h.left - 1, items |-> s]
      OBVIOUS
    <3>2. PICK n : n = <<f>> \o t
      OBVIOUS
    <3>3. Close(g) = [open |-> n, value |-> q.value, settled |-> TRUE]
      BY <1>2, <2>6, <2>7, <2>11, <2>12, <2>15, <3>1, <3>2 DEF Close
    <3>4. f \in Open
      BY <2>13, <3>1, SMTT(60) DEF Open, Ended
    <3>5. <<f>> \in Seq(Open) /\ Len(<<f>>) = 1 /\ <<f>>[1] = f
      BY <3>4
    <3>6. n \in Seq(Open) /\ Len(n) = 1 + (k - j)
      <4>1. t \in Seq(Open) /\ Len(t) = k - j
        BY <2>8
      <4>2. <<f>> \o t \in Seq(Open) /\ Len(<<f>> \o t) = Len(<<f>>) + Len(t)
        BY ONLY <3>5, <4>1, ConcatProperties
      <4> QED BY <3>2, <3>5, <4>1, <4>2
    <3>7. n[1] = f
      <4>1. 1 \in 1..Len(<<f>>) + Len(t) /\ 1 <= Len(<<f>>)
        BY <2>3, <2>1, <2>8, <3>5
      <4> QED BY <2>8, <3>2, <3>5, <4>1, ConcatProperties
    <3>8. Behind(n, a, j)
      <4>1. ASSUME NEW l \in 2..Len(n) PROVE n[l] = a[(j - 1) + l]
        <5>1. l \in 1..Len(<<f>>) + Len(t) /\ ~ (l <= Len(<<f>>)) /\ l - Len(<<f>>) = l - 1
          BY <2>1, <2>8, <3>5, <3>6
        <5>2. n[l] = t[l - 1]
          <6>1. t \in Seq(Open)
            BY <2>8
          <6>2. (<<f>> \o t)[l] = t[l - Len(<<f>>)]
            BY ONLY <3>5, <5>1, <6>1, ConcatProperties
          <6> QED BY <3>2, <5>1, <6>2
        <5>3. l - 1 \in 1..k - j /\ j + (l - 1) = (j - 1) + l
          BY <2>1, <3>6
        <5> QED BY <2>8, <5>2, <5>3
      <4>2. Len(n) = (Len(a) - j) + 1
        BY <2>1, <3>6
      <4> QED BY <4>1, <4>2 DEF Behind
    <3>9. PICK y \in Texts : ItemOf(e, f, x, y, z) /\ Placed(w, y, z)
      BY <2>13, <2>15, <3>1 DEF Ended
    <3>10. j \in 0..Len(a) /\ z \in Nat /\ ItemOf(el[j], n[1], st[j], y, z)
      BY <2>9, <2>13, <3>7, <3>9 DEF Ended
    <3>11. Leads(w, n, r, p, y, z)
      BY <3>6, <3>8, <3>9, <3>10, PathNext
    <3>12. n # <<>>
      BY <2>1, <3>6
    <3> QED BY <3>3, <3>6, <3>11, <3>12 DEF Left
  <2> QED BY <2>14, <2>15
<1> QED BY <1>1, <1>2 DEF Left

LEMMA PathCloses ==
  ASSUME NEW w \in Seq(Bytes), NEW a \in Seq(Open), NEW r \in Texts, NEW p \in Nat, NEW el, NEW st,
         Path(w, a, r, p, el, st), el[0].whole,
         NEW v, v = el[0].value, NEW z, z = st[0] + Len(el[0].bytes)
  PROVE  Closed(w, r, p, z, Closing(a, v))
<1>1. PICK k \in Nat : k = Len(a)
  BY LenProperties
<1> DEFINE closing == CHOOSE u : ClosingUpTo(a, v, k, u)
<1>2. ClosingUpTo(a, v, k, closing)
  <2>1. \E u : ClosingUpTo(a, v, k, u)
    BY ClosingExists
  <2> QED BY <2>1
<1>3. Closing(a, v) = closing[k]
  BY <1>1 DEF Closing, ClosingUpTo
<1> HIDE DEF closing
<1>4. closing[0] = [open |-> a, value |-> v, settled |-> FALSE] /\ \A i \in 1..k : closing[i] = Close(closing[i - 1])
  <2>1. \A i \in 0..k : closing[i] = IF i = 0 THEN [open |-> a, value |-> v, settled |-> FALSE] ELSE Close(closing[i - 1])
    BY <1>2 DEF ClosingUpTo
  <2>2. 0 \in 0..k /\ \A i \in 1..k : i \in 0..k /\ i # 0
    OBVIOUS
  <2> QED BY <2>1, <2>2
<1> DEFINE P == {i \in Nat : i <= k => Left(w, a, r, p, el, st, z, i, closing[i])}
<1>5. 0 \in P
  <2>1. a = SubSeq(a, 1, Len(a))
    <3>1. PICK b : b = Part(a, 0, k)
      OBVIOUS
    <3>2. b \in Seq(Open) /\ Len(b) = k - 0 /\ \A i \in 1..k - 0 : b[i] = a[0 + i]
      <4>1. 0 \in Nat /\ k \in Nat /\ 0 <= k /\ k <= Len(a)
        BY <1>1
      <4> QED BY ONLY <3>1, <4>1, a \in Seq(Open), PartProperties, ZenonT(60)
    <3>3. a = b
      BY <1>1, <3>2, SameSequence
    <3> QED BY <1>1, <3>1, <3>3 DEF Part
  <2>2. Left(w, a, r, p, el, st, z, 0, closing[0])
    BY <1>4, <2>1 DEF Left
  <2> QED BY <2>2
<1>6. ASSUME NEW i \in Nat, i \in P PROVE i + 1 \in P
  <2> SUFFICES ASSUME i + 1 <= k PROVE Left(w, a, r, p, el, st, z, i + 1, closing[i + 1])
    OBVIOUS
  <2>1. i + 1 \in 1..k /\ (i + 1) - 1 = i /\ i + 1 <= Len(a)
    BY <1>1
  <2>2. PICK g : g = closing[i]
    OBVIOUS
  <2>3. Left(w, a, r, p, el, st, z, i, g) /\ closing[i + 1] = Close(g)
    BY <1>4, <1>6, <2>1, <2>2
  <2> QED BY <2>1, <2>3, CloseStep
<1>7. Nat \subseteq P
  <2> HIDE DEF P
  <2> QED BY <1>5, <1>6, Induction
<1>8. PICK g : g = closing[k]
  OBVIOUS
<1>9. Left(w, a, r, p, el, st, z, k, g)
  BY <1>7, <1>8
<1>10. CASE g.settled = FALSE
  <2>1. g.open = SubSeq(a, k + 1, k) /\ g.value = el[k].value /\ el[k].whole /\ st[k] + Len(el[k].bytes) = z
    BY <1>1, <1>9, <1>10 DEF Left
  <2>2. g.open = <<>>
    <3>1. Part(a, k, k) = <<>>
      BY <1>1, PartEmpty
    <3> QED BY <2>1, <3>1 DEF Part
  <2>3. el[k] = r /\ st[k] = p
    BY <1>1 DEF Path
  <2> QED BY <1>3, <1>8, <2>1, <2>2, <2>3 DEF Closed
<1>11. CASE g.settled = TRUE
  BY <1>3, <1>8, <1>9, <1>11 DEF Left, Closed
<1> QED BY <1>9, <1>10, <1>11 DEF Left

-----------------------------------------------------------------------------
(* RedisParser: where the parser is in a stream *)

Ends(t, m) == Len(Joined(t)[m])
(* After the first m of t's texts, with the open arrays a, in state s with *)
(* b and k in buf and bulkSize, x bytes are taken.                         *)
On(t, m, a, s, b, k, x) ==
  \/ m = Len(t) /\ a = <<>> /\ s = "Start" /\ x = Len(AllOf(t))
  \/ /\ m < Len(t)
     /\ \E el, st : Path(AllOf(t), a, t[m + 1], Ends(t, m), el, st) /\ Token(s, b, k, AllOf(t), st[0], x)

LEMMA StreamType ==
  ASSUME NEW t \in Streams
  PROVE  /\ t \in Seq(Texts) /\ Len(t) \in Nat
         /\ AllOf(t) \in Seq(Bytes) /\ Len(AllOf(t)) \in Nat
         /\ \A i \in 1..Len(t) - 1 : t[i].whole
<1>1. t \in Seq(Texts) /\ \A i \in 1..Len(t) - 1 : t[i].whole
  BY ParserAssumption
<1>2. PICK n \in Nat : n = Len(t)
  BY <1>1, LenProperties
<1>3. n \in 0..Len(t)
  BY <1>2
<1>4. Joined(t)[n] \in Seq(Bytes) /\ Len(Joined(t)[n]) \in Nat
  BY <1>1, <1>3, JoinedType
<1> QED BY <1>1, <1>2, <1>4 DEF AllOf

LEMMA StreamEnds ==
  ASSUME NEW t \in Streams, NEW m \in Nat, m <= Len(t)
  PROVE  Ends(t, m) \in Nat /\ (m = Len(t) => Ends(t, m) = Len(AllOf(t))) /\ Ends(t, 0) = 0
<1>1. t \in Seq(Texts) /\ m \in 0..Len(t)
  BY StreamType
<1>2. Len(Joined(t)[m]) \in Nat
  BY <1>1, JoinedType
<1>3. Joined(t)[0] = <<>>
  BY <1>1, JoinedUnfolds
<1>4. Ends(t, 0) = 0
  BY <1>3 DEF Ends
<1> QED BY <1>2, <1>4 DEF Ends, AllOf

LEMMA StreamPlaced ==
  ASSUME NEW t \in Streams, NEW m \in Nat, m < Len(t)
  PROVE  /\ t[m + 1] \in Texts /\ Placed(AllOf(t), t[m + 1], Ends(t, m))
         /\ Ends(t, m + 1) = Ends(t, m) + Len(t[m + 1].bytes)
<1>1. t \in Seq(Texts) /\ Len(t) \in Nat /\ \A i \in 1..Len(t) - 1 : t[i].whole
  BY StreamType
<1>2. PICK j \in 1..Len(t) : j = m + 1 /\ j - 1 = m
  BY <1>1
<1>3. /\ Holds(AllOf(t), t[j].bytes, Len(Joined(t)[j - 1]))
      /\ Len(Joined(t)[j]) = Len(Joined(t)[j - 1]) + Len(t[j].bytes)
  BY <1>1, JoinedHolds
<1>4. Ends(t, m + 1) = Ends(t, m) + Len(t[m + 1].bytes) /\ Holds(AllOf(t), t[m + 1].bytes, Ends(t, m))
  BY <1>2, <1>3 DEF Ends
<1>5. ASSUME ~t[m + 1].whole PROVE Ends(t, m) + Len(t[m + 1].bytes) = Len(AllOf(t))
  <2>1. j \notin 1..Len(t) - 1
    BY <1>1, <1>2, <1>5
  <2>2. j = Len(t)
    BY <1>1, <2>1
  <2>3. Ends(t, m + 1) = Len(AllOf(t))
    BY <1>2, <2>2 DEF Ends, AllOf
  <2> QED BY <1>4, <2>3
<1>6. t[m + 1] \in Texts
  BY <1>1, <1>2
<1> QED BY <1>4, <1>5, <1>6 DEF Placed

LEMMA StreamBegins ==
  ASSUME NEW t \in Streams, NEW m \in Nat, m <= Len(t), NEW b, NEW k
  PROVE  On(t, m, <<>>, "Start", b, k, Ends(t, m))
<1>1. CASE m = Len(t)
  BY <1>1, StreamEnds DEF On
<1>2. CASE m < Len(t)
  <2>1. PICK w, r, p : w = AllOf(t) /\ r = t[m + 1] /\ p = Ends(t, m)
    OBVIOUS
  <2>2. w \in Seq(Bytes) /\ r \in Texts /\ p \in Nat /\ Placed(w, r, p)
    BY <1>2, <2>1, StreamType, StreamEnds, StreamPlaced
  <2>3. PICK el, st : el = [i \in 0..0 |-> r] /\ st = [i \in 0..0 |-> p]
    OBVIOUS
  <2>4. Path(w, <<>>, r, p, el, st)
    BY <2>2, <2>3, PathBegins
  <2>5. st[0] = p
    BY <2>3
  <2>6. p <= Len(w)
    BY <2>2, PlacedKind, TextType, LenProperties
  <2>7. Token("Start", b, k, w, st[0], p)
    BY <2>5, <2>6 DEF Token
  <2> QED BY <1>2, <2>1, <2>4, <2>7 DEF On
<1> QED BY <1>1, <1>2, StreamType

(* Which of the four a state is.                                           *)
LEMMA TokenStart ==
  ASSUME NEW s \in {"Start", "StartArray"}, NEW b, NEW n, NEW w, NEW p, NEW x, Token(s, b, n, w, p, x)
  PROVE  x = p /\ x <= Len(w)
BY StatesApart DEF Token, InBulk

LEMMA TokenLine ==
  ASSUME NEW s, NEW m, LineState(s, m), NEW b, NEW n, NEW w, NEW p, NEW x, Token(s, b, n, w, p, x)
  PROVE  InLine(w, p, x, m, b)
BY StatesApart DEF Token, InBulk

LEMMA TokenEnd ==
  ASSUME NEW s, NEW m, EndState(s, m), NEW b, NEW n, NEW w, NEW p, NEW x, Token(s, b, n, w, p, x)
  PROVE  AfterCR(w, p, x, m, b)
BY StatesApart DEF Token, InBulk

LEMMA TokenBulk ==
  ASSUME NEW s \in {"Bulk", "BulkCR", "BulkLF"}, NEW b, NEW n, NEW w, NEW p, NEW x, Token(s, b, n, w, p, x)
  PROVE  \E c \in Nat : InBulk(s, b, n, w, p, c, x)
BY StatesApart DEF Token

(* What stands at p has begun, and ended at x at the latest.               *)
LEMMA TokenBegun ==
  ASSUME NEW s, NEW b, NEW n, NEW w \in Seq(Bytes), NEW p \in Nat, NEW x \in Nat, Token(s, b, n, w, p, x)
  PROVE  p <= x
<1>1. CASE s \in {"Start", "StartArray"}
  BY <1>1, TokenStart
<1>2. ASSUME NEW m, InLine(w, p, x, m, b) PROVE p <= x
  BY <1>2 DEF InLine
<1>3. ASSUME NEW m, AfterCR(w, p, x, m, b) PROVE p <= x
  BY <1>3 DEF AfterCR
<1>4. ASSUME NEW c \in Nat, InBulk(s, b, n, w, p, c, x) PROVE p <= x
  <2>1. p + 3 <= c
    BY <1>4 DEF InBulk, NumberedAt, LineAt
  <2>2. c <= x
    BY <1>4 DEF InBulk
  <2> QED BY <2>1, <2>2
<1> QED BY <1>1, <1>2, <1>3, <1>4 DEF Token

(* The bytes the parser takes lead from one state to another.              *)
Goes(w, s, b, k, x, u, c, l, y) ==
  \A p \in Nat : Token(s, b, k, w, p, x) => Token(u, c, l, w, p, y)
(* With the next byte a value is complete, or an array of n items opens.   *)
Gives(w, s, b, k, x, v) ==
  \A p \in Nat : Token(s, b, k, w, p, x) => ScalarAt(w, p, x + 1) /\ SaysAt(w, p, x + 1, v)
Heads(w, s, b, k, x, n) ==
  \A p \in Nat : Token(s, b, k, w, p, x) => HeaderAt(w, p, x + 1) /\ NumberAt(w, p, x + 1) = n

LEMMA OnGoes ==
  ASSUME NEW t \in Streams, NEW m \in Nat, NEW a \in Seq(Open), NEW s, NEW b, NEW k, NEW x \in Nat,
         x < Len(AllOf(t)), On(t, m, a, s, b, k, x), NEW u, NEW c, NEW l, NEW y,
         Goes(AllOf(t), s, b, k, x, u, c, l, y)
  PROVE  On(t, m, a, u, c, l, y)
<1>1. PICK w : w = AllOf(t) /\ w \in Seq(Bytes) /\ Len(w) \in Nat
  BY StreamType
<1>2. m < Len(t)
  BY <1>1 DEF On
<1>3. PICK el, st : Path(w, a, t[m + 1], Ends(t, m), el, st) /\ Token(s, b, k, w, st[0], x)
  BY <1>1 DEF On
<1>4. st[0] \in Nat
  BY <1>1, <1>2, <1>3, StreamPlaced, StreamEnds, PathInnermost, SMTT(60)
<1>5. Token(u, c, l, w, st[0], y)
  BY <1>1, <1>3, <1>4 DEF Goes
<1> QED BY <1>1, <1>2, <1>3, <1>5 DEF On

(* What stands where the innermost item is.                                *)
LEMMA OnInnermost ==
  ASSUME NEW t \in Streams, NEW m \in Nat, NEW a \in Seq(Open), NEW s, NEW b, NEW k, NEW x \in Nat,
         x < Len(AllOf(t)) \/ m < Len(t), On(t, m, a, s, b, k, x)
  PROVE  /\ m < Len(t)
         /\ \E el, st : /\ Path(AllOf(t), a, t[m + 1], Ends(t, m), el, st)
                        /\ Token(s, b, k, AllOf(t), st[0], x)
                        /\ el[0] \in Texts /\ st[0] \in Nat /\ Placed(AllOf(t), el[0], st[0])
                        /\ Ends(t, m) <= st[0] /\ st[0] <= x
                        /\ st[0] + Len(el[0].bytes) <= Ends(t, m + 1)
                        /\ ~el[0].whole => ~t[m + 1].whole
<1>1. PICK w : w = AllOf(t) /\ w \in Seq(Bytes) /\ Len(w) \in Nat
  BY StreamType
<1>2. m < Len(t)
  BY <1>1, StreamType DEF On
<1>3. PICK el, st : Path(w, a, t[m + 1], Ends(t, m), el, st) /\ Token(s, b, k, w, st[0], x)
  BY <1>1, <1>2, StreamType DEF On
<1>4. PICK r, p : r = t[m + 1] /\ p = Ends(t, m)
  OBVIOUS
<1>5. r \in Texts /\ p \in Nat /\ Path(w, a, r, p, el, st) /\ Ends(t, m + 1) = p + Len(r.bytes)
  BY <1>2, <1>3, <1>4, StreamPlaced, StreamEnds
<1>6. /\ el[0] \in Texts /\ st[0] \in Nat /\ Placed(w, el[0], st[0])
      /\ p <= st[0] /\ st[0] + Len(el[0].bytes) <= p + Len(r.bytes)
      /\ ~el[0].whole => ~r.whole
  BY <1>1, <1>5, PathInnermost
<1>7. st[0] <= x
  BY <1>1, <1>3, <1>6, TokenBegun
<1> QED BY <1>1, <1>2, <1>3, <1>4, <1>5, <1>6, <1>7

(* A reply, or an array that goes on: the parser is in the middle of it.   *)
LEMMA OnWhole ==
  ASSUME NEW t \in Streams, NEW m \in Nat, m < Len(t), NEW a \in Seq(Open), NEW s, NEW b, NEW k, NEW x \in Nat,
         On(t, m, a, s, b, k, x)
  PROVE  /\ Ends(t, m) <= x
         /\ t[m + 1].whole => x < Ends(t, m + 1) /\ Legal(s, b, AllOf(t)[x + 1])
<1>1. PICK w : w = AllOf(t) /\ w \in Seq(Bytes) /\ Len(w) \in Nat
  BY StreamType
<1>2. PICK el, st : /\ Token(s, b, k, w, st[0], x)
                    /\ el[0] \in Texts /\ st[0] \in Nat /\ Placed(w, el[0], st[0])
                    /\ Ends(t, m) <= st[0] /\ st[0] <= x
                    /\ st[0] + Len(el[0].bytes) <= Ends(t, m + 1)
                    /\ ~el[0].whole => ~t[m + 1].whole
  BY <1>1, OnInnermost
<1>3. PICK q, p : q = el[0] /\ p = st[0]
  OBVIOUS
<1>4. PICK e \in Nat : e = p + Len(q.bytes)
  BY <1>2, <1>3, TextType
<1>5. /\ p <= e /\ e <= Len(w)
      /\ \/ q.whole /\ ScalarAt(w, p, e) /\ SaysAt(w, p, e, q.value)
         \/ ~q.whole /\ e = Len(w) /\ \A d \in p + 1..Len(w) : ~ScalarAt(w, p, d) /\ ~HeaderAt(w, p, d)
         \/ \E c \in 1..Len(q.bytes) :
              /\ IsArray(q, c) /\ HeaderAt(w, p, p + c)
              /\ NumberOf(SubSeq(q.bytes, 1, c)) = NumberAt(w, p, p + c)
  <2>1. q \in Texts /\ p \in Nat /\ Placed(w, q, p)
    BY <1>2, <1>3
  <2> QED BY <1>1, <1>4, <2>1, PlacedKind, SMTT(60)
<1>6. Ends(t, m) \in Nat /\ Ends(t, m + 1) \in Nat
  BY StreamType, StreamEnds
<1>7. Ends(t, m) <= x
  BY <1>2, <1>6
<1>8. ASSUME t[m + 1].whole PROVE x < Ends(t, m + 1) /\ Legal(s, b, AllOf(t)[x + 1])
  <2>1. q.whole
    BY <1>2, <1>3, <1>8
  <2>2. PICK d \in Nat : p <= d /\ d <= e /\ (ScalarAt(w, p, d) \/ HeaderAt(w, p, d))
    <3>1. CASE ScalarAt(w, p, e)
      BY <1>5, <3>1
    <3>2. ASSUME NEW c \in 1..Len(q.bytes), HeaderAt(w, p, p + c)
          PROVE  p + c \in Nat /\ p <= p + c /\ p + c <= e
      <4>1. Len(q.bytes) \in Nat /\ p \in Nat
        BY <1>2, <1>3, TextType
      <4> QED BY <1>4, <4>1
    <3> QED BY <1>5, <2>1, <3>1, <3>2
  <2>3. d <= Len(w) /\ p \in Nat /\ Token(s, b, k, w, p, x)
    BY <1>1, <1>2, <1>3, <1>4, <1>5, <2>2
  <2>4. x < d /\ Legal(s, b, w[x + 1])
    BY <1>1, <2>2, <2>3, TokenAhead
  <2>5. e <= Ends(t, m + 1)
    BY <1>2, <1>3, <1>4
  <2> QED BY <1>1, <1>6, <2>2, <2>4, <2>5
<1> QED BY <1>7, <1>8

(* The innermost item is what has been read.                               *)
LEMMA InnermostIs ==
  ASSUME NEW w \in Seq(Bytes), NEW q \in Texts, NEW p \in Nat, Placed(w, q, p),
         NEW d \in Nat, p + 1 <= d, d <= Len(w)
  PROVE  /\ \A v : ScalarAt(w, p, d) /\ SaysAt(w, p, d, v) => q.whole /\ v = q.value /\ d = p + Len(q.bytes)
         /\ HeaderAt(w, p, d) =>
              \E c \in 1..Len(q.bytes) :
                IsArray(q, c) /\ d = p + c /\ NumberOf(SubSeq(q.bytes, 1, c)) = NumberAt(w, p, d)
<1>1. PICK e \in Nat : e = p + Len(q.bytes)
  BY TextType
<1>2. /\ p <= e /\ e <= Len(w)
      /\ \/ q.whole /\ ScalarAt(w, p, e) /\ SaysAt(w, p, e, q.value)
         \/ ~q.whole /\ e = Len(w) /\ \A i \in p + 1..Len(w) : ~ScalarAt(w, p, i) /\ ~HeaderAt(w, p, i)
         \/ \E c \in 1..Len(q.bytes) :
              /\ IsArray(q, c) /\ HeaderAt(w, p, p + c)
              /\ NumberOf(SubSeq(q.bytes, 1, c)) = NumberAt(w, p, p + c)
  BY <1>1, PlacedKind
<1>3. d \in p + 1..Len(w) /\ p <= d
  BY LenProperties
<1>4. ASSUME NEW v, ScalarAt(w, p, d), SaysAt(w, p, d, v) PROVE q.whole /\ v = q.value /\ d = p + Len(q.bytes)
  <2>1. CASE q.whole /\ ScalarAt(w, p, e) /\ SaysAt(w, p, e, q.value)
    <3>1. e = d
      BY <1>2, <1>3, <1>4, <2>1, ScalarUnique
    <3>2. v = q.value
      BY <1>3, <1>4, <2>1, <3>1, SaysUnique
    <3> QED BY <1>1, <2>1, <3>1, <3>2
  <2>2. ASSUME NEW c \in 1..Len(q.bytes), HeaderAt(w, p, p + c) PROVE FALSE
    <3>1. p + c \in Nat /\ p <= p + c /\ p + c <= Len(w)
      BY <1>1, <1>2, LenProperties, TextType
    <3> QED BY <1>3, <1>4, <2>2, <3>1, ScalarUnique
  <2> QED BY <1>2, <1>3, <1>4, <2>1, <2>2
<1>5. ASSUME HeaderAt(w, p, d)
      PROVE  \E c \in 1..Len(q.bytes) :
               IsArray(q, c) /\ d = p + c /\ NumberOf(SubSeq(q.bytes, 1, c)) = NumberAt(w, p, d)
  <2>1. ~ScalarAt(w, p, e)
    BY <1>2, <1>3, <1>5, ScalarUnique
  <2>2. PICK c \in 1..Len(q.bytes) : /\ IsArray(q, c) /\ HeaderAt(w, p, p + c)
                                     /\ NumberOf(SubSeq(q.bytes, 1, c)) = NumberAt(w, p, p + c)
    BY <1>2, <1>3, <1>5, <2>1
  <2>3. p + c \in Nat /\ p <= p + c /\ p + c <= Len(w)
    BY <1>1, <1>2, LenProperties, TextType
  <2>4. First(w, p, d) /\ First(w, p, p + c)
    BY <1>3, <1>5, <2>2, <2>3, FirstOfHeader
  <2>5. d = p + c
    BY <2>3, <2>4, FirstUnique
  <2> QED BY <2>2, <2>5
<1> QED BY <1>4, <1>5

LEMMA OnOpens ==
  ASSUME NEW t \in Streams, NEW m \in Nat, NEW a \in Seq(Open), NEW s, NEW b, NEW k, NEW x \in Nat,
         x < Len(AllOf(t)), On(t, m, a, s, b, k, x),
         NEW n \in Nat, Heads(AllOf(t), s, b, k, x, n), NEW c, NEW l,
         NEW o, o = <<[left |-> n, items |-> <<>>]>> \o a
  PROVE  o \in Seq(Open) /\ On(t, m, o, "StartArray", c, l, x + 1)
<1>1. PICK w : w = AllOf(t) /\ w \in Seq(Bytes) /\ Len(w) \in Nat
  BY StreamType
<1>2. PICK el, st : /\ Path(w, a, t[m + 1], Ends(t, m), el, st)
                    /\ Token(s, b, k, w, st[0], x)
                    /\ el[0] \in Texts /\ st[0] \in Nat /\ Placed(w, el[0], st[0])
                    /\ st[0] <= x
  BY <1>1, OnInnermost
<1>3. m < Len(t)
  BY <1>1, OnInnermost
<1>4. PICK q, p : q = el[0] /\ p = st[0]
  OBVIOUS
<1>5. HeaderAt(w, p, x + 1) /\ NumberAt(w, p, x + 1) = n
  BY <1>1, <1>2, <1>4 DEF Heads
<1>6. PICK d \in Nat : d = x + 1 /\ p + 1 <= d /\ d <= Len(w)
  BY <1>1, <1>2, <1>4
<1>7. PICK i \in 1..Len(q.bytes) : IsArray(q, i) /\ d = p + i /\ NumberOf(SubSeq(q.bytes, 1, i)) = NumberAt(w, p, d)
  <2>1. q \in Texts /\ p \in Nat /\ Placed(w, q, p) /\ HeaderAt(w, p, d)
    BY <1>2, <1>4, <1>5, <1>6
  <2> QED BY <1>1, <1>6, <2>1, InnermostIs
<1>8. PICK r, f : r = t[m + 1] /\ f = Ends(t, m)
  OBVIOUS
<1>9. r \in Texts /\ f \in Nat /\ Path(w, a, r, f, el, st)
  <2>1. r \in Texts
    BY <1>3, <1>8, StreamPlaced
  <2>2. f \in Nat
    BY <1>3, <1>8, StreamType, StreamEnds
  <2> QED BY <1>2, <1>8, <2>1, <2>2
<1>10. Opens(el[0], i, n) /\ i \in Nat
  BY <1>4, <1>5, <1>6, <1>7 DEF Opens
<1>11. o \in Seq(Open) /\ \E y : Leads(w, o, r, f, y, st[0] + i)
  BY <1>1, <1>9, <1>10, PathOpens
<1>12. PICK g, h : Path(w, o, r, f, g, h) /\ h[0] = x + 1
  BY <1>4, <1>6, <1>7, <1>11 DEF Leads
<1>13. Token("StartArray", c, l, w, h[0], x + 1)
  BY <1>6, <1>12 DEF Token
<1> QED BY <1>1, <1>3, <1>8, <1>11, <1>12, <1>13 DEF On

(* Behind a value the next text is next, or an array goes on.              *)
After(t, m, g, c, l, x) ==
  /\ m < Len(t) /\ g.open \in Seq(Open)
  /\ g.open = <<>> => /\ t[m + 1].whole /\ g.value = t[m + 1].value
                      /\ On(t, m + 1, g.open, "Start", c, l, x + 1)
  /\ g.open # <<>> => On(t, m, g.open, "Start", c, l, x + 1)

LEMMA OnValue ==
  ASSUME NEW t \in Streams, NEW m \in Nat, NEW a \in Seq(Open), NEW s, NEW b, NEW k, NEW x \in Nat,
         x < Len(AllOf(t)), On(t, m, a, s, b, k, x),
         NEW v, Gives(AllOf(t), s, b, k, x, v), NEW c, NEW l, NEW g, g = Closing(a, v)
  PROVE  After(t, m, g, c, l, x)
<1>1. PICK w : w = AllOf(t) /\ w \in Seq(Bytes) /\ Len(w) \in Nat
  BY StreamType
<1>2. PICK el, st : /\ Path(w, a, t[m + 1], Ends(t, m), el, st)
                    /\ Token(s, b, k, w, st[0], x)
                    /\ el[0] \in Texts /\ st[0] \in Nat /\ Placed(w, el[0], st[0])
                    /\ st[0] <= x
  BY <1>1, OnInnermost
<1>3. m < Len(t)
  BY <1>1, OnInnermost
<1>4. PICK q, p : q = el[0] /\ p = st[0]
  OBVIOUS
<1>5. ScalarAt(w, p, x + 1) /\ SaysAt(w, p, x + 1, v)
  BY <1>1, <1>2, <1>4 DEF Gives
<1>6. PICK d \in Nat : d = x + 1 /\ p + 1 <= d /\ d <= Len(w)
  BY <1>1, <1>2, <1>4
<1>7. q.whole /\ v = q.value /\ d = p + Len(q.bytes)
  <2>1. w \in Seq(Bytes) /\ q \in Texts /\ p \in Nat /\ Placed(w, q, p)
    BY <1>1, <1>2, <1>4
  <2>2. d \in Nat /\ p + 1 <= d /\ d <= Len(w) /\ ScalarAt(w, p, d) /\ SaysAt(w, p, d, v)
    BY <1>5, <1>6
  <2>3. \A u : ScalarAt(w, p, d) /\ SaysAt(w, p, d, u) => q.whole /\ u = q.value /\ d = p + Len(q.bytes)
    BY ONLY <2>1, <2>2, InnermostIs
  <2> QED BY ONLY <2>2, <2>3
<1>8. PICK r, f : r = t[m + 1] /\ f = Ends(t, m)
  OBVIOUS
<1>9. r \in Texts /\ f \in Nat /\ Path(w, a, r, f, el, st) /\ Ends(t, m + 1) = f + Len(r.bytes)
  BY <1>2, <1>3, <1>8, StreamPlaced, StreamEnds
<1>10. el[0].whole /\ v = el[0].value /\ d = st[0] + Len(el[0].bytes)
  BY <1>4, <1>7
<1>11. Closed(w, r, f, d, g)
  BY <1>1, <1>9, <1>10, PathCloses
<1>12. CASE g.open = <<>> /\ r.whole /\ g.value = r.value /\ f + Len(r.bytes) = d
  <2>1. m + 1 \in Nat /\ m + 1 <= Len(t) /\ Ends(t, m + 1) = x + 1
    BY <1>3, <1>6, <1>9, <1>12, StreamType
  <2>2. On(t, m + 1, <<>>, "Start", c, l, x + 1)
    BY <2>1, StreamBegins
  <2>3. g.open \in Seq(Open)
    BY <1>12
  <2> QED BY <1>3, <1>8, <1>12, <2>2, <2>3 DEF After
<1>13. CASE g.open \in Seq(Open) /\ g.open # <<>> /\ \E y : Leads(w, g.open, r, f, y, d)
  <2>1. PICK j, h : Path(w, g.open, r, f, j, h) /\ h[0] = d
    BY <1>13 DEF Leads
  <2>2. Token("Start", c, l, w, h[0], x + 1)
    BY <1>6, <2>1 DEF Token
  <2>3. On(t, m, g.open, "Start", c, l, x + 1)
    BY <1>1, <1>3, <1>8, <2>1, <2>2 DEF On
  <2> QED BY <1>3, <1>13, <2>3 DEF After
<1> QED BY <1>11, <1>12, <1>13 DEF Closed, After

-----------------------------------------------------------------------------
(* RedisParser: what the next byte, or more of a bulk string, leads to *)

LEMMA GoesBegin ==
  ASSUME NEW w \in Seq(Bytes), NEW x \in Nat, x < Len(w), NEW s \in {"Start", "StartArray"}, NEW b, NEW k,
         NEW u, LineState(u, w[x + 1]), w[x + 1] \in Marks, NEW l
  PROVE  Goes(w, s, b, k, x, u, <<>>, l, x + 1)
<1>1. ASSUME NEW p \in Nat, Token(s, b, k, w, p, x) PROVE Token(u, <<>>, l, w, p, x + 1)
  <2>1. x = p /\ p + 1 <= Len(w)
    BY <1>1, TokenStart, LenProperties
  <2>2. InLine(w, p, p + 1, w[p + 1], <<>>)
    BY <2>1, LineBegins
  <2> QED BY <2>1, <2>2 DEF Token
<1> QED BY <1>1 DEF Goes

LEMMA GoesOn ==
  ASSUME NEW w \in Seq(Bytes), NEW x \in Nat, x < Len(w), NEW s, NEW m \in Marks, LineState(s, m), NEW b, NEW k,
         w[x + 1] \in Allowed(m), NEW l
  PROVE  Goes(w, s, b, k, x, s, Append(b, w[x + 1]), l, x + 1)
<1>1. ASSUME NEW p \in Nat, Token(s, b, k, w, p, x) PROVE Token(s, Append(b, w[x + 1]), l, w, p, x + 1)
  <2>1. InLine(w, p, x, m, b) /\ x + 1 <= Len(w)
    BY <1>1, TokenLine, LenProperties
  <2>2. InLine(w, p, x + 1, m, Append(b, w[x + 1]))
    BY <2>1, LineGoesOn
  <2> QED BY <2>2 DEF Token
<1> QED BY <1>1 DEF Goes

LEMMA GoesCR ==
  ASSUME NEW w \in Seq(Bytes), NEW x \in Nat, x < Len(w), NEW s, NEW m \in Marks, LineState(s, m), NEW b, NEW k,
         w[x + 1] = "CR", m \in NumberMarks => b # <<>>, NEW u, EndState(u, m), NEW l
  PROVE  Goes(w, s, b, k, x, u, b, l, x + 1)
<1>1. ASSUME NEW p \in Nat, Token(s, b, k, w, p, x) PROVE Token(u, b, l, w, p, x + 1)
  <2>1. InLine(w, p, x, m, b) /\ x + 1 <= Len(w)
    BY <1>1, TokenLine, LenProperties
  <2>2. AfterCR(w, p, x + 1, m, b)
    BY <2>1, LineAtCR
  <2> QED BY <2>2 DEF Token
<1> QED BY <1>1 DEF Goes

LEMMA GoesSize ==
  ASSUME NEW w \in Seq(Bytes), NEW x \in Nat, x < Len(w), w[x + 1] = "LF", NEW b, NEW k,
         NEW n \in Nat, n = BufToLong(b), NEW j \in Nat, j <= n, (x + 1) + j <= Len(w),
         NEW u, u = (IF j < n THEN "Bulk" ELSE "BulkCR")
  PROVE  Goes(w, "BulkSizeLF", b, k, x, u, Part(w, x + 1, (x + 1) + j), n - j, (x + 1) + j)
<1>1. PICK y, c : y \in Nat /\ y = (x + 1) + j /\ c = Part(w, x + 1, (x + 1) + j)
  OBVIOUS
<1>2. ASSUME NEW p \in Nat, Token("BulkSizeLF", b, k, w, p, x) PROVE Token(u, c, n - j, w, p, y)
  <2>1. EndState("BulkSizeLF", "$")
    BY DEF EndState
  <2>2. AfterCR(w, p, x, "$", b) /\ x + 1 <= Len(w)
    BY <1>2, <2>1, TokenEnd, LenProperties
  <2>3. InBulk(u, c, n - j, w, p, x + 1, y)
    BY <1>1, <2>2, BulkBegins
  <2>4. x + 1 \in Nat
    OBVIOUS
  <2> QED BY <2>3, <2>4 DEF Token
<1> QED BY <1>1, <1>2 DEF Goes

LEMMA GoesBulk ==
  ASSUME NEW w \in Seq(Bytes), NEW x \in Nat, NEW b, NEW k, NEW j \in Nat, j <= k, x + j <= Len(w),
         NEW u, u = (IF j = k THEN "BulkCR" ELSE "Bulk")
  PROVE  Goes(w, "Bulk", b, k, x, u, b \o Part(w, x, x + j), k - j, x + j)
<1>1. PICK c : c = b \o Part(w, x, x + j)
  OBVIOUS
<1>2. ASSUME NEW p \in Nat, Token("Bulk", b, k, w, p, x) PROVE Token(u, c, k - j, w, p, x + j)
  <2>1. PICK d \in Nat : InBulk("Bulk", b, k, w, p, d, x)
    BY <1>2, TokenBulk
  <2>2. InBulk(u, c, k - j, w, p, d, x + j)
    BY <1>1, <2>1, BulkGoesOn
  <2> QED BY <2>1, <2>2 DEF Token
<1> QED BY <1>1, <1>2 DEF Goes

LEMMA GoesBulkCR ==
  ASSUME NEW w \in Seq(Bytes), NEW x \in Nat, x < Len(w), w[x + 1] = "CR", NEW b, NEW k
  PROVE  Goes(w, "BulkCR", b, k, x, "BulkLF", b, k, x + 1)
<1>1. ASSUME NEW p \in Nat, Token("BulkCR", b, k, w, p, x) PROVE Token("BulkLF", b, k, w, p, x + 1)
  <2>1. PICK d \in Nat : InBulk("BulkCR", b, k, w, p, d, x)
    BY <1>1, TokenBulk
  <2>2. x + 1 <= Len(w)
    BY LenProperties
  <2>3. InBulk("BulkLF", b, k, w, p, d, x + 1)
    BY <2>1, <2>2, BulkAtCR
  <2> QED BY <2>1, <2>3 DEF Token
<1> QED BY <1>1 DEF Goes

LEMMA GivesText ==
  ASSUME NEW w \in Seq(Bytes), NEW x \in Nat, x < Len(w), w[x + 1] = "LF", NEW b, NEW k
  PROVE  /\ Gives(w, "StringLF", b, k, x, String(b))
         /\ Gives(w, "ErrorLF", b, k, x, ErrorString(b))
         /\ Gives(w, "BulkLF", b, k, x, String(b))
<1>1. x + 1 <= Len(w) /\ EndState("StringLF", "+") /\ EndState("ErrorLF", "-")
  BY LenProperties DEF EndState
<1>2. ASSUME NEW p \in Nat, Token("StringLF", b, k, w, p, x)
      PROVE  ScalarAt(w, p, x + 1) /\ SaysAt(w, p, x + 1, String(b))
  <2>1. AfterCR(w, p, x, "+", b)
    BY <1>1, <1>2, TokenEnd
  <2> QED BY <1>1, <2>1, TextSays
<1>3. ASSUME NEW p \in Nat, Token("ErrorLF", b, k, w, p, x)
      PROVE  ScalarAt(w, p, x + 1) /\ SaysAt(w, p, x + 1, ErrorString(b))
  <2>1. AfterCR(w, p, x, "-", b)
    BY <1>1, <1>3, TokenEnd
  <2> QED BY <1>1, <2>1, TextSays
<1>4. ASSUME NEW p \in Nat, Token("BulkLF", b, k, w, p, x)
      PROVE  ScalarAt(w, p, x + 1) /\ SaysAt(w, p, x + 1, String(b))
  <2>1. PICK d \in Nat : InBulk("BulkLF", b, k, w, p, d, x)
    BY <1>4, TokenBulk
  <2> QED BY <1>1, <2>1, BulkSays
<1> QED BY <1>2, <1>3, <1>4 DEF Gives

LEMMA GivesNumber ==
  ASSUME NEW w \in Seq(Bytes), NEW x \in Nat, x < Len(w), w[x + 1] = "LF", NEW b, NEW k,
         NEW n, n = BufToLong(b)
  PROVE  /\ Gives(w, "IntegerLF", b, k, x, Integer(n))
         /\ n = -1 => Gives(w, "BulkSizeLF", b, k, x, Nil) /\ Gives(w, "ArraySizeLF", b, k, x, Nil)
         /\ n = 0 => Gives(w, "ArraySizeLF", b, k, x, Array(<<>>))
         /\ n > 0 => Heads(w, "ArraySizeLF", b, k, x, n)
<1>1. x + 1 <= Len(w) /\ NumberMarks = {":", "$", "*"}
  BY LenProperties DEF NumberMarks
<1>2. EndState("IntegerLF", ":") /\ EndState("BulkSizeLF", "$") /\ EndState("ArraySizeLF", "*")
  BY DEF EndState
<1>3. ASSUME NEW p \in Nat, Token("IntegerLF", b, k, w, p, x)
      PROVE  ScalarAt(w, p, x + 1) /\ SaysAt(w, p, x + 1, Integer(n))
  <2>1. AfterCR(w, p, x, ":", b)
    BY <1>2, <1>3, TokenEnd
  <2> QED BY <1>1, <2>1, NumberSays
<1>4. ASSUME NEW p \in Nat, Token("BulkSizeLF", b, k, w, p, x), n = -1
      PROVE  ScalarAt(w, p, x + 1) /\ SaysAt(w, p, x + 1, Nil)
  <2>1. AfterCR(w, p, x, "$", b)
    BY <1>2, <1>4, TokenEnd
  <2> QED BY <1>1, <1>4, <2>1, NumberSays
<1>5. ASSUME NEW p \in Nat, Token("ArraySizeLF", b, k, w, p, x)
      PROVE  /\ n = -1 => ScalarAt(w, p, x + 1) /\ SaysAt(w, p, x + 1, Nil)
             /\ n = 0 => ScalarAt(w, p, x + 1) /\ SaysAt(w, p, x + 1, Array(<<>>))
             /\ n > 0 => HeaderAt(w, p, x + 1) /\ NumberAt(w, p, x + 1) = n
  <2>1. AfterCR(w, p, x, "*", b)
    BY <1>2, <1>5, TokenEnd
  <2> QED BY <1>1, <2>1, NumberSays
<1> QED BY <1>3, <1>4, <1>5 DEF Gives, Heads

(* The numbers the parser compares are numbers.                            *)
LEMMA OnNumbers ==
  ASSUME NEW t \in Streams, NEW m \in Nat, NEW a \in Seq(Open), NEW s, NEW b, NEW k, NEW x \in Nat,
         x < Len(AllOf(t)), On(t, m, a, s, b, k, x)
  PROVE  /\ s = "Bulk" => k \in Nat
         /\ s \in {"BulkSizeLF", "ArraySizeLF"} /\ AllOf(t)[x + 1] = "LF" => BufToLong(b) \in Int
<1>1. PICK w : w = AllOf(t) /\ w \in Seq(Bytes) /\ Len(w) \in Nat
  BY StreamType
<1>2. PICK p \in Nat : Token(s, b, k, w, p, x)
  BY <1>1, OnInnermost
<1>3. ASSUME s = "Bulk" PROVE k \in Nat
  <2>1. PICK c \in Nat : InBulk(s, b, k, w, p, c, x)
    BY <1>2, <1>3, TokenBulk
  <2> QED BY <1>3, <2>1 DEF InBulk
<1>4. ASSUME s \in {"BulkSizeLF", "ArraySizeLF"}, w[x + 1] = "LF" PROVE BufToLong(b) \in Int
  <2>1. PICK d \in NumberMarks : EndState(s, d)
    BY <1>4 DEF EndState, NumberMarks
  <2>2. AfterCR(w, p, x, d, b) /\ x + 1 <= Len(w)
    BY <1>1, <1>2, <2>1, TokenEnd
  <2> QED BY <1>1, <1>2, <1>4, <2>1, <2>2, LineEnds
<1> QED BY <1>1, <1>3, <1>4

-----------------------------------------------------------------------------
(* RedisParser: the inductive invariant *)

(* The piece is what was received last, and what was kept of the parser    *)
(* between two pieces is all it needs.                                     *)
Pieces ==
  /\ sent \in Streams
  /\ offset \in Nat /\ offset <= Len(AllOf(sent))
  /\ chunk \in Seq(Bytes) /\ Len(chunk) <= offset
  /\ position \in Nat /\ position <= Len(chunk)
  /\ Holds(AllOf(sent), chunk, offset - Len(chunk))
Stored ==
  /\ arrays \in Seq(Open)
  /\ pc \in {"wait", "parse", "failed"}
  /\ pc = "parse" => states = <<>>
  /\ pc = "wait" => position = Len(chunk) /\ (states = <<parseState>> \/ (states = <<>> /\ parseState = "Start"))
(* The first m of the texts have been handed on, and the parser is within  *)
(* the next.                                                               *)
Delivered(m) == m <= Len(sent) /\ replies = [i \in 1..m |-> sent[i].value] /\ \A i \in 1..m : sent[i].whole
Standing(m) ==
  /\ pc = "failed" => m < Len(sent) /\ ~sent[m + 1].whole /\ Ends(sent, m) <= Taken
  /\ pc # "failed" => On(sent, m, arrays, parseState, buf, bulkSize, Taken)
ParserInv == Pieces /\ Stored /\ \E m \in Nat : Delivered(m) /\ Standing(m)

(* What the piece holds from position on.                                  *)
LEMMA PieceAt ==
  ASSUME Pieces
  PROVE  /\ sent \in Streams /\ AllOf(sent) \in Seq(Bytes) /\ Len(AllOf(sent)) \in Nat
         /\ Taken \in Nat /\ Taken <= Len(AllOf(sent))
         /\ position < Len(chunk) => Taken < Len(AllOf(sent)) /\ byte = AllOf(sent)[Taken + 1] /\ byte \in Bytes
         /\ \A n \in Nat : position + n <= Len(chunk) => Taken + n <= Len(AllOf(sent))
<1>1. PICK w : w = AllOf(sent)
  OBVIOUS
<1>2. w \in Seq(Bytes) /\ Len(w) \in Nat /\ sent \in Streams
  BY <1>1, StreamType DEF Pieces
<1>3. PICK l \in Nat : l = Len(chunk)
  BY LenProperties DEF Pieces
<1>4. /\ offset \in Nat /\ offset <= Len(w) /\ l <= offset /\ position \in Nat /\ position <= l
      /\ \A i \in 1..l : w[(offset - l) + i] = chunk[i]
      /\ Taken = offset - l + position /\ chunk \in Seq(Bytes)
  BY <1>1, <1>3 DEF Pieces, Holds, Taken
<1>5. Taken \in Nat /\ Taken <= Len(w) /\ \A n \in Nat : position + n <= l => Taken + n <= Len(w)
  BY <1>2, <1>4
<1>6. ASSUME position < l PROVE Taken < Len(w) /\ byte = w[Taken + 1] /\ byte \in Bytes
  <2>1. position + 1 \in 1..l /\ (offset - l) + (position + 1) = Taken + 1
    BY <1>4, <1>6
  <2>2. byte = w[Taken + 1]
    BY <1>4, <2>1 DEF byte
  <2>3. byte \in Bytes
    BY <1>3, <1>4, <2>1 DEF byte
  <2>4. Taken < Len(w)
    BY <1>2, <1>4, <1>6
  <2> QED BY <2>2, <2>3, <2>4
<1> QED BY <1>1, <1>2, <1>3, <1>5, <1>6

(* Some of it is a part of the stream.                                     *)
LEMMA PiecePart ==
  ASSUME Pieces, NEW i \in Nat, NEW n \in Nat, (position + i) + n <= Len(chunk)
  PROVE  SubSeq(chunk, (position + i) + 1, (position + i) + n) = Part(AllOf(sent), Taken + i, (Taken + i) + n)
<1>1. PICK w : w = AllOf(sent)
  OBVIOUS
<1>2. w \in Seq(Bytes) /\ Len(w) \in Nat
  BY <1>1, StreamType DEF Pieces
<1>3. PICK l \in Nat : l = Len(chunk)
  BY LenProperties DEF Pieces
<1>4. /\ offset \in Nat /\ offset <= Len(w) /\ l <= offset /\ position \in Nat /\ position <= l
      /\ \A j \in 1..l : w[(offset - l) + j] = chunk[j]
      /\ Taken = offset - l + position /\ chunk \in Seq(Bytes)
  BY <1>1, <1>3 DEF Pieces, Holds, Taken
<1>5. PICK p \in Nat, q \in Nat : p = position + i /\ q = Taken + i
  BY <1>4
<1>6. p + n <= l /\ q = (offset - l) + p /\ q + n <= Len(w) /\ p + n \in Nat /\ q + n \in Nat
  BY <1>2, <1>3, <1>4, <1>5
<1>7. PICK a, b : a = Part(chunk, p, p + n) /\ b = Part(w, q, q + n)
  OBVIOUS
<1>8. a \in Seq(Bytes) /\ Len(a) = (p + n) - p /\ \A j \in 1..(p + n) - p : a[j] = chunk[p + j]
  <2>1. p \in Nat /\ p + n \in Nat /\ p <= p + n /\ p + n <= Len(chunk) /\ chunk \in Seq(Bytes)
    BY <1>3, <1>4, <1>5, <1>6
  <2> QED BY ONLY <1>7, <2>1, PartProperties, ZenonT(60)
<1>9. b \in Seq(Bytes) /\ Len(b) = (q + n) - q /\ \A j \in 1..(q + n) - q : b[j] = w[q + j]
  <2>1. q \in Nat /\ q + n \in Nat /\ q <= q + n /\ q + n <= Len(w) /\ w \in Seq(Bytes)
    BY <1>2, <1>5, <1>6
  <2> QED BY ONLY <1>7, <2>1, PartProperties, ZenonT(60)
<1>10. a = b
  <2>1. (p + n) - p = n /\ (q + n) - q = n
    OBVIOUS
  <2>2. ASSUME NEW j \in 1..n PROVE a[j] = b[j]
    <3>1. p + j \in 1..l /\ (offset - l) + (p + j) = q + j
      BY <1>4, <1>6
    <3>2. w[q + j] = chunk[p + j]
      BY <1>4, <3>1
    <3> QED BY <1>8, <1>9, <2>1, <3>2
  <2> QED BY <1>8, <1>9, <2>1, <2>2, SameSequence
<1> QED BY <1>1, <1>5, <1>7, <1>10 DEF Part

(* parseChunk takes n bytes of the piece.                                  *)
LEMMA PiecesKeep ==
  ASSUME Pieces, NEW n \in Nat, position + n <= Len(chunk), position' = position + n,
         UNCHANGED <<sent, offset, chunk>>
  PROVE  Pieces' /\ Taken' = Taken + n
<1>1. Len(chunk) \in Nat /\ position \in Nat /\ offset \in Nat
  BY LenProperties DEF Pieces
<1>2. Taken' = Taken + n
  BY <1>1 DEF Taken
<1>3. position' \in Nat /\ position' <= Len(chunk')
  BY <1>1
<1> QED BY <1>2, <1>3 DEF Pieces

LEMMA DeliveredKeeps ==
  ASSUME NEW m, Delivered(m), UNCHANGED <<sent, replies>>
  PROVE  Delivered(m)'
BY DEF Delivered

(* The loop goes on.                                                       *)
LEMMA ContinueKeeps ==
  ASSUME ParserInv, pc = "parse", position < Len(chunk),
         NEW n \in Nat, position + n <= Len(chunk), NEW s, Continue(s, n), arrays' \in Seq(Open),
         \A m \in Nat : On(sent, m, arrays, parseState, buf, bulkSize, Taken) =>
                        On(sent, m, arrays', s, buf', bulkSize', Taken + n)
  PROVE  ParserInv'
<1>1. /\ parseState' = s /\ position' = position + n
      /\ UNCHANGED <<sent, offset, pc, chunk, states, replies>>
  BY DEF Continue
<1>2. Pieces' /\ Taken' = Taken + n
  BY <1>1, PiecesKeep DEF ParserInv
<1>3. Stored'
  BY <1>1 DEF ParserInv, Stored
<1>4. PICK m \in Nat : Delivered(m) /\ Standing(m)
  BY DEF ParserInv
<1>5. Delivered(m)'
  BY <1>1, <1>4, DeliveredKeeps
<1>6. On(sent, m, arrays, parseState, buf, bulkSize, Taken)
  BY <1>4 DEF Standing
<1>7. On(sent, m, arrays', s, buf', bulkSize', Taken + n)
  BY <1>6
<1>8. On(sent, m, arrays, parseState, buf, bulkSize, Taken)'
  BY <1>1, <1>2, <1>7
<1>9. Standing(m)'
  BY <1>1, <1>8 DEF Standing
<1> QED BY <1>2, <1>3, <1>4, <1>5, <1>9 DEF ParserInv

LEMMA GoesKeeps ==
  ASSUME ParserInv, pc = "parse", position < Len(chunk),
         NEW n \in Nat, position + n <= Len(chunk), NEW s, Continue(s, n), UNCHANGED arrays,
         Goes(AllOf(sent), parseState, buf, bulkSize, Taken, s, buf', bulkSize', Taken + n)
  PROVE  ParserInv'
<1>1. arrays \in Seq(Open) /\ sent \in Streams /\ Taken \in Nat /\ Taken < Len(AllOf(sent))
  BY PieceAt DEF ParserInv, Stored
<1>2. ASSUME NEW m \in Nat, On(sent, m, arrays, parseState, buf, bulkSize, Taken)
      PROVE  On(sent, m, arrays', s, buf', bulkSize', Taken + n)
  <2>1. On(sent, m, arrays, s, buf', bulkSize', Taken + n)
    BY <1>1, <1>2, OnGoes
  <2> QED BY <2>1
<1> QED BY <1>1, <1>2, ContinueKeeps

(* The parser gives up.                                                    *)
LEMMA FailKeeps ==
  ASSUME ParserInv, pc = "parse", position < Len(chunk), ~Legal(parseState, buf, byte), Fail
  PROVE  ParserInv'
<1>1. /\ sent \in Streams /\ Taken \in Nat /\ Taken < Len(AllOf(sent)) /\ byte = AllOf(sent)[Taken + 1]
      /\ arrays \in Seq(Open)
  BY PieceAt DEF ParserInv, Stored
<1>2. /\ pc' = "failed"
      /\ UNCHANGED <<sent, offset, chunk, position, parseState, buf, bulkSize, arrays, replies>>
  BY DEF Fail
<1>3. Pieces' /\ Stored' /\ Taken' = Taken
  BY <1>2 DEF ParserInv, Pieces, Stored, Taken
<1>4. PICK m \in Nat : Delivered(m) /\ Standing(m)
  BY DEF ParserInv
<1>5. Delivered(m)'
  BY <1>2, <1>4, DeliveredKeeps
<1>6. On(sent, m, arrays, parseState, buf, bulkSize, Taken)
  BY <1>4 DEF Standing
<1>7. m < Len(sent)
  BY <1>1, <1>6, OnInnermost
<1>8. Ends(sent, m) <= Taken /\ ~sent[m + 1].whole
  BY <1>1, <1>6, <1>7, OnWhole
<1>9. Standing(m)'
  BY <1>2, <1>3, <1>7, <1>8 DEF Standing
<1> QED BY <1>3, <1>4, <1>5, <1>9 DEF ParserInv

(* A value.                                                                *)
LEMMA ValueKeeps ==
  ASSUME ParserInv, pc = "parse", position < Len(chunk), NEW v, Value(v),
         Gives(AllOf(sent), parseState, buf, bulkSize, Taken, v)
  PROVE  ParserInv'
<1>1. sent \in Streams /\ Taken \in Nat /\ Taken < Len(AllOf(sent)) /\ arrays \in Seq(Open) /\ states = <<>>
  BY PieceAt DEF ParserInv, Stored
<1>2. PICK g : g = Closing(arrays, v)
  OBVIOUS
<1>3. /\ arrays' = g.open
      /\ replies' = IF g.open = <<>> THEN Append(replies, g.value) ELSE replies
      /\ pc' = IF g.open = <<>> /\ position + 1 = Len(chunk) THEN "wait" ELSE "parse"
      /\ parseState' = "Start" /\ position' = position + 1
      /\ UNCHANGED <<sent, offset, chunk, states>>
  BY <1>2 DEF Value
<1>4. Pieces' /\ Taken' = Taken + 1
  <2>1. position + 1 <= Len(chunk)
    BY LenProperties DEF ParserInv, Pieces
  <2> QED BY <1>3, <2>1, PiecesKeep DEF ParserInv
<1>5. PICK m \in Nat : Delivered(m) /\ Standing(m)
  BY DEF ParserInv
<1>6. On(sent, m, arrays, parseState, buf, bulkSize, Taken)
  BY <1>5 DEF Standing
<1>7. PICK c, l : c = buf' /\ l = bulkSize'
  OBVIOUS
<1>8. /\ m < Len(sent) /\ g.open \in Seq(Open)
      /\ g.open = <<>> => /\ sent[m + 1].whole /\ g.value = sent[m + 1].value
                          /\ On(sent, m + 1, g.open, "Start", c, l, Taken + 1)
      /\ g.open # <<>> => On(sent, m, g.open, "Start", c, l, Taken + 1)
  <2>1. After(sent, m, g, c, l, Taken)
    BY <1>1, <1>2, <1>5, <1>6, OnValue
  <2> QED BY <2>1 DEF After
<1>9. Stored'
  BY <1>1, <1>3, <1>8 DEF Stored
<1>10. pc' # "failed"
  BY <1>3
<1>11. CASE g.open = <<>>
  <2>1. Delivered(m + 1)'
    <3>1. m + 1 <= Len(sent) /\ Len(sent) \in Nat /\ sent \in Seq(Texts)
      BY <1>1, <1>8, StreamType
    <3>2. \A i \in 1..m + 1 : sent[i].value \in Values
      BY <3>1 DEF Values
    <3>3. replies = [i \in 1..m |-> sent[i].value]
      BY <1>5 DEF Delivered
    <3>4. replies \in Seq(Values) /\ Len(replies) = m
      BY <3>2, <3>3
    <3>5. Append(replies, g.value) = [i \in 1..m + 1 |-> sent[i].value]
      <4>1. g.value \in Values /\ g.value = sent[m + 1].value
        BY <1>8, <1>11, <3>2
      <4>2. PICK a, b : a = Append(replies, g.value) /\ b = [i \in 1..m + 1 |-> sent[i].value]
        OBVIOUS
      <4>3. a \in Seq(Values) /\ Len(a) = m + 1 /\ \A i \in 1..m + 1 : a[i] = IF i = m + 1 THEN g.value ELSE replies[i]
        BY <3>4, <4>1, <4>2
      <4>4. \A i \in 1..m + 1 : a[i] = b[i]
        BY <3>3, <4>1, <4>2, <4>3
      <4>5. b \in Seq(Values) /\ Len(b) = m + 1
        BY <3>2, <4>2
      <4>6. a = b
        BY <4>3, <4>4, <4>5, SameSequence
      <4> QED BY <4>2, <4>6
    <3>6. \A i \in 1..m + 1 : sent[i].whole
      BY <1>5, <1>8, <1>11 DEF Delivered
    <3> QED BY <1>3, <1>11, <3>1, <3>5, <3>6 DEF Delivered
  <2>2. Standing(m + 1)'
    BY <1>3, <1>4, <1>7, <1>8, <1>10, <1>11 DEF Standing
  <2> QED BY <1>4, <1>9, <2>1, <2>2 DEF ParserInv
<1>12. CASE g.open # <<>>
  <2>1. Delivered(m)'
    BY <1>3, <1>5, <1>12, DeliveredKeeps
  <2>2. Standing(m)'
    BY <1>3, <1>4, <1>7, <1>8, <1>10, <1>12 DEF Standing
  <2> QED BY <1>4, <1>5, <1>9, <2>1, <2>2 DEF ParserInv
<1> QED BY <1>11, <1>12

-----------------------------------------------------------------------------
(* RedisParser: one lemma per action *)

LEMMA ParserStarts == ParserInit => ParserInv
<1> SUFFICES ASSUME ParserInit PROVE ParserInv
  OBVIOUS
<1>1. /\ sent \in Streams /\ offset = 0 /\ pc = "wait" /\ chunk = <<>> /\ position = 0
      /\ parseState = "Start" /\ states = <<>> /\ arrays = <<>> /\ replies = <<>>
  BY DEF ParserInit
<1>2. sent \in Seq(Texts) /\ Len(sent) \in Nat /\ Len(AllOf(sent)) \in Nat
  BY <1>1, StreamType
<1>3. Len(<<>>) = 0 /\ <<>> \in Seq(Bytes) /\ <<>> \in Seq(Open)
  OBVIOUS
<1>4. Taken = 0
  <2>1. Len(chunk) = 0
    BY <1>1, <1>3
  <2>2. offset = 0 /\ position = 0
    BY <1>1
  <2>3. Taken = 0 - 0 + 0
    BY <2>1, <2>2 DEF Taken
  <2> QED BY <2>3
<1>5. Holds(AllOf(sent), <<>>, 0)
  BY <1>2, <1>3 DEF Holds
<1>6. Pieces
  BY <1>1, <1>2, <1>3, <1>5 DEF Pieces
<1>7. Stored
  BY <1>1, <1>3 DEF Stored
<1>8. Delivered(0)
  BY <1>1, <1>2 DEF Delivered
<1>9. On(sent, 0, <<>>, "Start", buf, bulkSize, Ends(sent, 0)) /\ Ends(sent, 0) = 0
  BY <1>1, <1>2, StreamBegins, StreamEnds
<1>10. Standing(0)
  BY <1>1, <1>4, <1>9 DEF Standing
<1> QED BY <1>6, <1>7, <1>8, <1>10 DEF ParserInv

LEMMA ReconnectKeeps == Reconnect => ParserInv'
<1>1. ParserInit' => ParserInv'
  BY ParserStarts, PTL
<1>2. Reconnect => ParserInit'
  BY DEF Reconnect, ParserInit
<1> QED BY <1>1, <1>2

LEMMA ReceiveKeeps ==
  ASSUME ParserInv, Receive
  PROVE  ParserInv'
<1>1. PICK n \in 1..BufferSize :
        /\ offset + n <= Len(AllOf(sent))
        /\ chunk' = SubSeq(AllOf(sent), offset + 1, offset + n)
        /\ offset' = offset + n
  BY DEF Receive
<1>2. pc = "wait" /\ pc' = "parse" /\ position' = 0 /\ UNCHANGED <<sent, buf, bulkSize, arrays, replies>>
  BY DEF Receive
<1>3. PICK w : w = AllOf(sent)
  OBVIOUS
<1>4. w \in Seq(Bytes) /\ Len(w) \in Nat /\ offset \in Nat /\ n \in Nat /\ sent \in Streams
  BY <1>1, <1>3, ParserAssumption, StreamType DEF ParserInv, Pieces
<1>5. PICK c : c = chunk'
  OBVIOUS
<1>6. c \in Seq(Bytes) /\ Len(c) = n /\ \A i \in 1..n : c[i] = w[offset + i]
  <2>1. c = Part(w, offset, offset + n) /\ offset + n <= Len(w)
    BY <1>1, <1>3, <1>5 DEF Part
  <2>2. offset <= offset + n /\ offset + n \in Nat /\ (offset + n) - offset = n
    BY <1>4
  <2>3. c \in Seq(Bytes) /\ Len(c) = (offset + n) - offset /\ \A i \in 1..(offset + n) - offset : c[i] = w[offset + i]
    BY ONLY <1>4, <2>1, <2>2, PartProperties, ZenonT(60)
  <2> QED BY <2>2, <2>3
<1>7. offset' - Len(c) = offset
  BY <1>1, <1>4, <1>6
<1>8. Holds(w, c, offset)
  BY <1>1, <1>3, <1>6 DEF Holds
<1>9. Pieces'
  <2>1. Len(c) <= offset' /\ offset' \in Nat /\ 0 <= Len(c)
    BY <1>1, <1>4, <1>6
  <2> QED BY <1>1, <1>2, <1>3, <1>4, <1>5, <1>6, <1>7, <1>8, <2>1 DEF Pieces
<1>10. position = Len(chunk) /\ Len(chunk) \in Nat /\ (states = <<parseState>> \/ (states = <<>> /\ parseState = "Start"))
  BY <1>2, LenProperties DEF ParserInv, Stored, Pieces
<1>11. Taken' = Taken
  <2>1. Taken = offset
    BY <1>4, <1>10 DEF Taken
  <2>2. Taken' = offset' - Len(c) + 0
    BY <1>2, <1>5 DEF Taken
  <2> QED BY <1>4, <1>7, <2>1, <2>2
<1>12. parseState' = parseState /\ states' = <<>>
  <2>1. Restore
    BY DEF Receive
  <2>2. CASE states = <<>>
    BY <1>10, <2>1, <2>2 DEF Restore
  <2>3. CASE states = <<parseState>>
    <3>1. states # <<>> /\ Len(states) = 1 /\ states[1] = parseState
      BY <2>3
    <3>2. parseState' = states[1] /\ states' = SubSeq(states, 1, 0)
      BY <2>1, <3>1 DEF Restore, Last, Front
    <3>3. SubSeq(states, 1, 0) = <<>>
      BY <2>3
    <3> QED BY <3>1, <3>2, <3>3
  <2> QED BY <1>10, <2>2, <2>3
<1>13. Stored'
  BY <1>2, <1>12 DEF ParserInv, Stored
<1>14. PICK m \in Nat : Delivered(m) /\ Standing(m)
  BY DEF ParserInv
<1>15. Delivered(m)'
  BY <1>2, <1>14, DeliveredKeeps
<1>16. Standing(m)'
  BY <1>2, <1>11, <1>12, <1>14 DEF Standing
<1> QED BY <1>9, <1>13, <1>14, <1>15, <1>16 DEF ParserInv

LEMMA IncompletedKeeps ==
  ASSUME ParserInv, Incompleted
  PROVE  ParserInv'
<1>1. /\ pc = "parse" /\ position = Len(chunk) /\ states' = Append(states, parseState) /\ pc' = "wait"
      /\ UNCHANGED <<sent, offset, chunk, position, parseState, buf, bulkSize, arrays, replies>>
  BY DEF Incompleted
<1>2. Pieces' /\ Taken' = Taken
  BY <1>1 DEF ParserInv, Pieces, Taken
<1>3. states' = <<parseState>>
  BY <1>1 DEF ParserInv, Stored
<1>4. Stored'
  BY <1>1, <1>3 DEF ParserInv, Stored
<1>5. PICK m \in Nat : Delivered(m) /\ Standing(m)
  BY DEF ParserInv
<1>6. Delivered(m)'
  BY <1>1, <1>5, DeliveredKeeps
<1>7. Standing(m)'
  BY <1>1, <1>2, <1>5 DEF Standing
<1> QED BY <1>2, <1>4, <1>5, <1>6, <1>7 DEF ParserInv

(* One byte of the piece.                                                  *)
LEMMA OneByte ==
  ASSUME ParserInv, position < Len(chunk)
  PROVE  /\ position + 1 <= Len(chunk) /\ 1 \in Nat
         /\ AllOf(sent) \in Seq(Bytes) /\ Len(AllOf(sent)) \in Nat /\ Taken \in Nat
         /\ Taken < Len(AllOf(sent)) /\ byte = AllOf(sent)[Taken + 1] /\ byte \in Bytes
BY PieceAt, LenProperties DEF ParserInv, Pieces

LEMMA BeginKeeps ==
  ASSUME ParserInv, Begin
  PROVE  ParserInv'
<1>1. pc = "parse" /\ position < Len(chunk) /\ parseState \in {"Start", "StartArray"}
  BY DEF Begin
<1>2. /\ position + 1 <= Len(chunk) /\ 1 \in Nat
      /\ AllOf(sent) \in Seq(Bytes) /\ Taken \in Nat
      /\ Taken < Len(AllOf(sent)) /\ byte = AllOf(sent)[Taken + 1]
  BY <1>1, OneByte
<1>3. CASE byte \in Marks
  <2>1. PICK s : /\ Continue(s, 1) /\ buf' = <<>> /\ UNCHANGED arrays
                 /\ s = (CASE byte = "+" -> "String" [] byte = "-" -> "ErrorString"
                           [] byte = ":" -> "Integer" [] byte = "$" -> "BulkSize" [] byte = "*" -> "ArraySize")
    BY <1>3 DEF Begin
  <2>2. LineState(s, byte)
    BY <1>3, <2>1 DEF LineState, Marks
  <2>3. Goes(AllOf(sent), parseState, buf, bulkSize, Taken, s, <<>>, bulkSize', Taken + 1)
    BY <1>1, <1>2, <1>3, <2>2, GoesBegin
  <2> QED BY <1>1, <1>2, <2>1, <2>3, GoesKeeps
<1>4. CASE byte \notin Marks
  <2>1. Fail
    BY <1>4 DEF Begin
  <2>2. ~Legal(parseState, buf, byte)
    BY <1>1, <1>4 DEF Legal
  <2> QED BY <1>1, <2>1, <2>2, FailKeeps
<1> QED BY <1>3, <1>4

LEMMA LineKeeps ==
  ASSUME ParserInv, NEW s, NEW u, NEW m \in {"+", "-"}, LineState(s, m), EndState(u, m), Line(s, u)
  PROVE  ParserInv'
<1>1. pc = "parse" /\ position < Len(chunk) /\ parseState = s
  BY DEF Line, At
<1>2. /\ position + 1 <= Len(chunk) /\ 1 \in Nat
      /\ AllOf(sent) \in Seq(Bytes) /\ Taken \in Nat
      /\ Taken < Len(AllOf(sent)) /\ byte = AllOf(sent)[Taken + 1]
  BY <1>1, OneByte
<1>3. m \in Marks /\ m \notin NumberMarks /\ Allowed(m) = Plain
  BY DEF Marks, NumberMarks, Allowed
<1>4. CASE byte = "CR" /\ Continue(u, 1) /\ UNCHANGED <<buf, bulkSize, arrays>>
  <2>1. Goes(AllOf(sent), parseState, buf, bulkSize, Taken, u, buf, bulkSize, Taken + 1)
    BY <1>1, <1>2, <1>3, <1>4, GoesCR
  <2>2. Goes(AllOf(sent), parseState, buf, bulkSize, Taken, u, buf', bulkSize', Taken + 1)
    BY <1>4, <2>1
  <2> QED BY <1>1, <1>2, <1>4, <2>2, GoesKeeps
<1>5. CASE byte \in Plain /\ Continue(s, 1) /\ buf' = Append(buf, byte) /\ UNCHANGED <<bulkSize, arrays>>
  <2>1. Goes(AllOf(sent), parseState, buf, bulkSize, Taken, s, Append(buf, byte), bulkSize', Taken + 1)
    BY <1>1, <1>2, <1>3, <1>5, GoesOn
  <2> QED BY <1>1, <1>2, <1>5, <2>1, GoesKeeps
<1>6. CASE byte \in Wides \cup {"LF"} /\ Fail
  <2>1. byte \notin Plain /\ byte # "CR"
    BY <1>6, CharactersApart
  <2>2. ~Legal(parseState, buf, byte)
    BY <1>1, <1>3, <2>1 DEF Legal
  <2> QED BY <1>1, <1>6, <2>2, FailKeeps
<1> QED BY <1>4, <1>5, <1>6 DEF Line

LEMMA NumberKeeps ==
  ASSUME ParserInv, NEW s, NEW u, NEW m \in NumberMarks, LineState(s, m), EndState(u, m), Number(s, u)
  PROVE  ParserInv'
<1>1. pc = "parse" /\ position < Len(chunk) /\ parseState = s
  BY DEF Number, At
<1>2. /\ position + 1 <= Len(chunk) /\ 1 \in Nat
      /\ AllOf(sent) \in Seq(Bytes) /\ Taken \in Nat
      /\ Taken < Len(AllOf(sent)) /\ byte = AllOf(sent)[Taken + 1]
  BY <1>1, OneByte
<1>3. m \in Marks /\ Allowed(m) = Numeral
  BY DEF Marks, NumberMarks, Allowed
<1>4. CASE byte = "CR" /\ buf # <<>> /\ Continue(u, 1) /\ UNCHANGED <<buf, bulkSize, arrays>>
  <2>1. Goes(AllOf(sent), parseState, buf, bulkSize, Taken, u, buf, bulkSize, Taken + 1)
    BY <1>1, <1>2, <1>3, <1>4, GoesCR
  <2>2. Goes(AllOf(sent), parseState, buf, bulkSize, Taken, u, buf', bulkSize', Taken + 1)
    BY <1>4, <2>1
  <2> QED BY <1>1, <1>2, <1>4, <2>2, GoesKeeps
<1>5. CASE byte \in Numeral /\ Continue(s, 1) /\ buf' = Append(buf, byte) /\ UNCHANGED <<bulkSize, arrays>>
  <2>1. Goes(AllOf(sent), parseState, buf, bulkSize, Taken, s, Append(buf, byte), bulkSize', Taken + 1)
    BY <1>1, <1>2, <1>3, <1>5, GoesOn
  <2> QED BY <1>1, <1>2, <1>5, <2>1, GoesKeeps
<1>6. CASE (byte \notin Numeral \cup {"CR"} \/ (byte = "CR" /\ buf = <<>>)) /\ Fail
  <2>1. "CR" \notin Numeral
    BY CharactersApart
  <2>2. ~Legal(parseState, buf, byte)
    BY <1>1, <1>3, <1>6, <2>1 DEF Legal
  <2> QED BY <1>1, <1>6, <2>2, FailKeeps
<1> QED BY <1>4, <1>5, <1>6 DEF Number

(* Without LF at the end of a line, or of a bulk string.                   *)
LEMMA NoLF ==
  ASSUME NEW s \in {"StringLF", "ErrorLF", "IntegerLF", "BulkSizeLF", "ArraySizeLF", "BulkLF"}, NEW b, NEW y, y # "LF"
  PROVE  ~Legal(s, b, y)
<1>1. s = "BulkLF" \/ \E m \in Marks : EndState(s, m)
  BY DEF EndState, Marks
<1> QED BY <1>1 DEF Legal

LEMMA LineEndKeeps ==
  ASSUME ParserInv, NEW s \in {"StringLF", "ErrorLF", "BulkLF"}, NEW v,
         v = (IF s = "ErrorLF" THEN ErrorString(buf) ELSE String(buf)), LineEnd(s, v)
  PROVE  ParserInv'
<1>1. pc = "parse" /\ position < Len(chunk) /\ parseState = s
  BY DEF LineEnd, At
<1>2. /\ AllOf(sent) \in Seq(Bytes) /\ Taken \in Nat
      /\ Taken < Len(AllOf(sent)) /\ byte = AllOf(sent)[Taken + 1]
  BY <1>1, OneByte
<1>3. CASE byte = "LF"
  <2>1. Gives(AllOf(sent), s, buf, bulkSize, Taken, v)
    BY <1>2, <1>3, GivesText
  <2>2. Value(v)
    BY <1>3 DEF LineEnd
  <2> QED BY <1>1, <2>1, <2>2, ValueKeeps
<1>4. CASE byte # "LF"
  <2>1. Fail
    BY <1>4 DEF LineEnd
  <2> QED BY <1>1, <1>4, <2>1, NoLF, FailKeeps
<1> QED BY <1>3, <1>4

LEMMA IntegerKeeps ==
  ASSUME ParserInv, IntegerLF
  PROVE  ParserInv'
<1>1. pc = "parse" /\ position < Len(chunk) /\ parseState = "IntegerLF"
  BY DEF IntegerLF, At
<1>2. /\ AllOf(sent) \in Seq(Bytes) /\ Taken \in Nat
      /\ Taken < Len(AllOf(sent)) /\ byte = AllOf(sent)[Taken + 1]
  BY <1>1, OneByte
<1>3. CASE byte = "LF"
  <2>1. Gives(AllOf(sent), "IntegerLF", buf, bulkSize, Taken, Integer(BufToLong(buf)))
    BY <1>2, <1>3, GivesNumber
  <2>2. Value(Integer(BufToLong(buf)))
    BY <1>3 DEF IntegerLF
  <2> QED BY <1>1, <2>1, <2>2, ValueKeeps
<1>4. CASE byte # "LF"
  <2>1. Fail
    BY <1>4 DEF IntegerLF
  <2> QED BY <1>1, <1>4, <2>1, NoLF, FailKeeps
<1> QED BY <1>3, <1>4

LEMMA BulkCRKeeps ==
  ASSUME ParserInv, BulkCR
  PROVE  ParserInv'
<1>1. pc = "parse" /\ position < Len(chunk) /\ parseState = "BulkCR"
  BY DEF BulkCR, At
<1>2. /\ position + 1 <= Len(chunk) /\ 1 \in Nat
      /\ AllOf(sent) \in Seq(Bytes) /\ Taken \in Nat
      /\ Taken < Len(AllOf(sent)) /\ byte = AllOf(sent)[Taken + 1]
  BY <1>1, OneByte
<1>3. CASE byte = "CR"
  <2>1. Continue("BulkLF", 1) /\ UNCHANGED <<buf, bulkSize, arrays>>
    BY <1>3 DEF BulkCR
  <2>2. Goes(AllOf(sent), parseState, buf, bulkSize, Taken, "BulkLF", buf, bulkSize, Taken + 1)
    BY <1>1, <1>2, <1>3, GoesBulkCR
  <2>3. Goes(AllOf(sent), parseState, buf, bulkSize, Taken, "BulkLF", buf', bulkSize', Taken + 1)
    BY <2>1, <2>2
  <2> QED BY <1>1, <1>2, <2>1, <2>3, GoesKeeps
<1>4. CASE byte # "CR"
  <2>1. Fail
    BY <1>4 DEF BulkCR
  <2>2. ~Legal(parseState, buf, byte)
    BY <1>1, <1>4 DEF Legal
  <2> QED BY <1>1, <2>1, <2>2, FailKeeps
<1> QED BY <1>3, <1>4

LEMMA BulkSizeKeeps ==
  ASSUME ParserInv, BulkSizeLF
  PROVE  ParserInv'
<1>1. pc = "parse" /\ position < Len(chunk) /\ parseState = "BulkSizeLF"
  BY DEF BulkSizeLF, At
<1>2. /\ position + 1 <= Len(chunk)
      /\ AllOf(sent) \in Seq(Bytes) /\ Len(AllOf(sent)) \in Nat /\ Taken \in Nat
      /\ Taken < Len(AllOf(sent)) /\ byte = AllOf(sent)[Taken + 1]
  BY <1>1, OneByte
<1>3. PICK l \in Nat : l = Len(chunk) /\ position \in Nat
  BY LenProperties DEF ParserInv, Pieces
<1>4. PICK size, available, canRead :
        /\ size = BufToLong(buf) /\ available = l - position - 1
        /\ canRead = IF size <= available THEN size ELSE available
        /\ \/ byte = "LF" /\ size = -1 /\ Value(Nil)
           \/ /\ byte = "LF" /\ size = 0
              /\ Continue("BulkCR", 1)
              /\ buf' = <<>> /\ bulkSize' = 0
              /\ UNCHANGED arrays
           \/ /\ byte = "LF" /\ size > 0
              /\ Continue(IF canRead < size THEN "Bulk" ELSE "BulkCR", 1 + canRead)
              /\ buf' = SubSeq(chunk, position + 2, position + 1 + canRead)
              /\ bulkSize' = size - canRead
              /\ UNCHANGED arrays
           \/ (byte # "LF" \/ size < -1) /\ Fail
  BY <1>3 DEF BulkSizeLF
<1>5. ASSUME byte = "LF" PROVE size \in Int
  <2>1. PICK m \in Nat : On(sent, m, arrays, parseState, buf, bulkSize, Taken)
    BY <1>1 DEF ParserInv, Standing
  <2>2. sent \in Streams /\ arrays \in Seq(Open)
    BY DEF ParserInv, Stored, Pieces
  <2> QED BY <1>1, <1>2, <1>4, <1>5, <2>1, <2>2, OnNumbers
<1>6. CASE byte = "LF" /\ size = -1 /\ Value(Nil)
  <2>1. Gives(AllOf(sent), "BulkSizeLF", buf, bulkSize, Taken, Nil)
    BY <1>2, <1>4, <1>6, GivesNumber
  <2> QED BY <1>1, <1>6, <2>1, ValueKeeps
<1>7. CASE /\ byte = "LF" /\ size = 0 /\ Continue("BulkCR", 1)
           /\ buf' = <<>> /\ bulkSize' = 0 /\ UNCHANGED arrays
  <2>1. PICK n \in Nat, j \in Nat : n = 0 /\ j = 0
    OBVIOUS
  <2>2. n = BufToLong(buf) /\ j <= n /\ (Taken + 1) + j <= Len(AllOf(sent)) /\ "BulkCR" = (IF j < n THEN "Bulk" ELSE "BulkCR")
    BY <1>2, <1>4, <1>7, <2>1
  <2>3. Goes(AllOf(sent), "BulkSizeLF", buf, bulkSize, Taken, "BulkCR",
             Part(AllOf(sent), Taken + 1, (Taken + 1) + j), n - j, (Taken + 1) + j)
    BY <1>2, <1>7, <2>2, GoesSize
  <2>4. Part(AllOf(sent), Taken + 1, (Taken + 1) + j) = <<>>
    <3>1. Taken + 1 \in Nat /\ Taken + 1 <= Len(AllOf(sent)) /\ (Taken + 1) + j = Taken + 1
      BY <1>2, <2>1
    <3> QED BY <1>2, <3>1, PartEmpty
  <2>5. n - j = 0 /\ (Taken + 1) + j = Taken + 1
    BY <1>2, <2>1
  <2>6. Goes(AllOf(sent), parseState, buf, bulkSize, Taken, "BulkCR", buf', bulkSize', Taken + 1)
    BY <1>1, <1>7, <2>3, <2>4, <2>5
  <2> QED BY <1>1, <1>2, <1>7, <2>6, GoesKeeps
<1>8. CASE /\ byte = "LF" /\ size > 0
           /\ Continue(IF canRead < size THEN "Bulk" ELSE "BulkCR", 1 + canRead)
           /\ buf' = SubSeq(chunk, position + 2, position + 1 + canRead)
           /\ bulkSize' = size - canRead
           /\ UNCHANGED arrays
  <2>1. PICK n \in Nat, j \in Nat : n = size /\ j = canRead /\ j <= n /\ position + 1 + j <= l
    <3>1. size \in Int /\ available \in Nat /\ position + 1 + available = l
      BY <1>1, <1>3, <1>4, <1>5, <1>8
    <3> QED BY <1>3, <1>4, <1>8, <3>1
  <2>2. PICK s : s = (IF j < n THEN "Bulk" ELSE "BulkCR")
    OBVIOUS
  <2>3. PICK k \in Nat : k = 1 + j /\ position + k <= Len(chunk) /\ Taken + k = (Taken + 1) + j
    BY <1>2, <1>3, <2>1
  <2>4. Pieces /\ Taken + k <= Len(AllOf(sent))
    BY <2>3, PieceAt DEF ParserInv
  <2>5. n = BufToLong(buf) /\ (Taken + 1) + j <= Len(AllOf(sent))
    BY <1>4, <2>1, <2>3, <2>4
  <2>6. Goes(AllOf(sent), "BulkSizeLF", buf, bulkSize, Taken, s,
             Part(AllOf(sent), Taken + 1, (Taken + 1) + j), n - j, (Taken + 1) + j)
    BY <1>2, <1>8, <2>1, <2>2, <2>5, GoesSize
  <2>7. buf' = Part(AllOf(sent), Taken + 1, (Taken + 1) + j)
    <3>1. PICK i \in Nat : i = 1
      OBVIOUS
    <3>2. (position + i) + j <= Len(chunk)
      BY <1>3, <2>1, <3>1
    <3>3. SubSeq(chunk, (position + i) + 1, (position + i) + j) = Part(AllOf(sent), Taken + i, (Taken + i) + j)
      BY <2>1, <2>4, <3>2, PiecePart
    <3>4. (position + i) + 1 = position + 2 /\ (position + i) + j = position + 1 + canRead
      BY <1>3, <2>1, <3>1
    <3> QED BY <1>8, <3>1, <3>3, <3>4
  <2>8. Goes(AllOf(sent), parseState, buf, bulkSize, Taken, s, buf', bulkSize', Taken + k)
    BY <1>1, <1>8, <2>1, <2>3, <2>6, <2>7
  <2>9. Continue(s, k)
    BY <1>8, <2>1, <2>2, <2>3
  <2> QED BY <1>1, <1>8, <2>3, <2>8, <2>9, GoesKeeps
<1>9. CASE (byte # "LF" \/ size < -1) /\ Fail
  <2>1. ~Legal(parseState, buf, byte)
    <3>1. CASE byte # "LF"
      BY <1>1, <3>1, NoLF
    <3>2. CASE byte = "LF"
      <4>1. size \in Int /\ size < -1 /\ ~ (size >= -1)
        BY <1>5, <1>9, <3>2
      <4>2. EndState(parseState, "$") /\ "$" \in Marks
        BY <1>1 DEF EndState, Marks
      <4> QED BY <1>4, <4>1, <4>2 DEF Legal
    <3> QED BY <3>1, <3>2
  <2> QED BY <1>1, <1>9, <2>1, FailKeeps
<1> QED BY <1>4, <1>6, <1>7, <1>8, <1>9

LEMMA BulkKeeps ==
  ASSUME ParserInv, Bulk
  PROVE  ParserInv'
<1>1. pc = "parse" /\ position < Len(chunk) /\ parseState = "Bulk"
  BY DEF Bulk, At
<1>2. /\ AllOf(sent) \in Seq(Bytes) /\ Len(AllOf(sent)) \in Nat /\ Taken \in Nat
      /\ Taken < Len(AllOf(sent))
  BY <1>1, OneByte
<1>3. PICK l \in Nat : l = Len(chunk) /\ position \in Nat /\ position < l
  BY <1>1, LenProperties DEF ParserInv, Pieces
<1>4. PICK available, canRead :
        /\ available = l - position
        /\ canRead = IF available <= bulkSize THEN available ELSE bulkSize
        /\ Continue(IF canRead = bulkSize THEN "BulkCR" ELSE "Bulk", canRead)
        /\ buf' = buf \o SubSeq(chunk, position + 1, position + canRead)
        /\ bulkSize' = bulkSize - canRead
        /\ UNCHANGED arrays
  BY <1>3 DEF Bulk
<1>5. bulkSize \in Nat
  <2>1. PICK m \in Nat : On(sent, m, arrays, parseState, buf, bulkSize, Taken)
    BY <1>1 DEF ParserInv, Standing
  <2>2. sent \in Streams /\ arrays \in Seq(Open)
    BY DEF ParserInv, Stored, Pieces
  <2> QED BY <1>1, <1>2, <2>1, <2>2, OnNumbers
<1>6. PICK j \in Nat : j = canRead /\ j <= bulkSize /\ position + j <= l
  <2>1. available \in Nat /\ position + available = l
    BY <1>3, <1>4
  <2>2. canRead \in Nat /\ canRead <= bulkSize /\ canRead <= available
    BY <1>4, <1>5, <2>1
  <2> QED BY <1>3, <2>1, <2>2
<1>7. PICK s : s = (IF j = bulkSize THEN "BulkCR" ELSE "Bulk")
  OBVIOUS
<1>8. Pieces /\ Taken + j <= Len(AllOf(sent)) /\ position + j <= Len(chunk)
  BY <1>3, <1>6, PieceAt DEF ParserInv
<1>9. Goes(AllOf(sent), "Bulk", buf, bulkSize, Taken, s, buf \o Part(AllOf(sent), Taken, Taken + j), bulkSize - j, Taken + j)
  BY <1>2, <1>6, <1>7, <1>8, GoesBulk
<1>10. SubSeq(chunk, position + 1, position + j) = Part(AllOf(sent), Taken, Taken + j)
  <2>1. PICK i \in Nat : i = 0
    OBVIOUS
  <2>2. position + i = position /\ Taken + i = Taken
    BY <1>2, <1>3, <2>1
  <2>3. (position + i) + j <= Len(chunk)
    BY <1>8, <2>2
  <2>4. SubSeq(chunk, (position + i) + 1, (position + i) + j) = Part(AllOf(sent), Taken + i, (Taken + i) + j)
    BY <1>8, <2>3, PiecePart
  <2> QED BY <2>2, <2>4
<1>11. Goes(AllOf(sent), parseState, buf, bulkSize, Taken, s, buf', bulkSize', Taken + j)
  BY <1>1, <1>4, <1>6, <1>9, <1>10
<1>12. Continue(s, j) /\ UNCHANGED arrays
  BY <1>4, <1>6, <1>7
<1> QED BY <1>1, <1>8, <1>11, <1>12, GoesKeeps

LEMMA ArraySizeKeeps ==
  ASSUME ParserInv, ArraySizeLF
  PROVE  ParserInv'
<1>1. pc = "parse" /\ position < Len(chunk) /\ parseState = "ArraySizeLF"
  BY DEF ArraySizeLF, At
<1>2. /\ position + 1 <= Len(chunk) /\ 1 \in Nat
      /\ AllOf(sent) \in Seq(Bytes) /\ Len(AllOf(sent)) \in Nat /\ Taken \in Nat
      /\ Taken < Len(AllOf(sent)) /\ byte = AllOf(sent)[Taken + 1]
  BY <1>1, OneByte
<1>3. PICK size :
        /\ size = BufToLong(buf)
        /\ \/ byte = "LF" /\ size = -1 /\ Value(Nil)
           \/ byte = "LF" /\ size = 0 /\ Value(Array(<<>>))
           \/ /\ byte = "LF" /\ size > 0
              /\ Continue("StartArray", 1)
              /\ arrays' = <<[left |-> size, items |-> <<>>]>> \o arrays
           \/ (byte # "LF" \/ size < -1) /\ Fail
  BY DEF ArraySizeLF
<1>4. sent \in Streams /\ arrays \in Seq(Open)
  BY DEF ParserInv, Stored, Pieces
<1>5. ASSUME byte = "LF" PROVE size \in Int
  <2>1. PICK m \in Nat : On(sent, m, arrays, parseState, buf, bulkSize, Taken)
    BY <1>1 DEF ParserInv, Standing
  <2> QED BY <1>1, <1>2, <1>3, <1>4, <1>5, <2>1, OnNumbers
<1>6. CASE byte = "LF" /\ size = -1 /\ Value(Nil)
  <2>1. Gives(AllOf(sent), "ArraySizeLF", buf, bulkSize, Taken, Nil)
    BY <1>2, <1>3, <1>6, GivesNumber
  <2> QED BY <1>1, <1>6, <2>1, ValueKeeps
<1>7. CASE byte = "LF" /\ size = 0 /\ Value(Array(<<>>))
  <2>1. Gives(AllOf(sent), "ArraySizeLF", buf, bulkSize, Taken, Array(<<>>))
    BY <1>2, <1>3, <1>7, GivesNumber
  <2> QED BY <1>1, <1>7, <2>1, ValueKeeps
<1>8. CASE /\ byte = "LF" /\ size > 0
           /\ Continue("StartArray", 1)
           /\ arrays' = <<[left |-> size, items |-> <<>>]>> \o arrays
  <2>1. PICK n \in Nat : n = size /\ n > 0
    BY <1>5, <1>8
  <2>2. Heads(AllOf(sent), parseState, buf, bulkSize, Taken, n)
    BY <1>1, <1>2, <1>3, <1>8, <2>1, GivesNumber
  <2>3. PICK o : o = <<[left |-> n, items |-> <<>>]>> \o arrays /\ arrays' = o
    BY <1>8, <2>1
  <2>4. ASSUME NEW m \in Nat, On(sent, m, arrays, parseState, buf, bulkSize, Taken)
        PROVE  o \in Seq(Open) /\ On(sent, m, o, "StartArray", buf', bulkSize', Taken + 1)
    BY <1>2, <1>4, <2>2, <2>3, <2>4, OnOpens
  <2>5. o \in Seq(Open)
    <3>1. PICK m \in Nat : On(sent, m, arrays, parseState, buf, bulkSize, Taken)
      BY <1>1 DEF ParserInv, Standing
    <3> QED BY <2>4, <3>1
  <2>6. \A m \in Nat : On(sent, m, arrays, parseState, buf, bulkSize, Taken) =>
                       On(sent, m, arrays', "StartArray", buf', bulkSize', Taken + 1)
    BY <2>3, <2>4
  <2> QED BY <1>1, <1>2, <1>8, <2>3, <2>5, <2>6, ContinueKeeps
<1>9. CASE (byte # "LF" \/ size < -1) /\ Fail
  <2>1. ~Legal(parseState, buf, byte)
    <3>1. CASE byte # "LF"
      BY <1>1, <3>1, NoLF
    <3>2. CASE byte = "LF"
      <4>1. size \in Int /\ size < -1 /\ ~ (size >= -1)
        BY <1>5, <1>9, <3>2
      <4>2. EndState(parseState, "*") /\ "*" \in Marks
        BY <1>1 DEF EndState, Marks
      <4> QED BY <1>3, <4>1, <4>2 DEF Legal
    <3> QED BY <3>1, <3>2
  <2> QED BY <1>1, <1>9, <2>1, FailKeeps
<1> QED BY <1>3, <1>6, <1>7, <1>8, <1>9

LEMMA ParserStep ==
  ASSUME ParserInv, [ParserNext]_parserVars
  PROVE  ParserInv'
<1>1. CASE Receive
  BY <1>1, ReceiveKeeps
<1>2. CASE Incompleted
  BY <1>2, IncompletedKeeps
<1>3. CASE Reconnect
  BY <1>3, ReconnectKeeps
<1>4. CASE ParseChunk
  <2>1. CASE Begin
    BY <2>1, BeginKeeps
  <2>2. CASE Line("String", "StringLF")
    <3>1. LineState("String", "+") /\ EndState("StringLF", "+")
      BY DEF LineState, EndState
    <3> QED BY <2>2, <3>1, LineKeeps
  <2>3. CASE Line("ErrorString", "ErrorLF")
    <3>1. LineState("ErrorString", "-") /\ EndState("ErrorLF", "-")
      BY DEF LineState, EndState
    <3> QED BY <2>3, <3>1, LineKeeps
  <2>4. CASE LineEnd("StringLF", String(buf))
    BY <2>4, LineEndKeeps
  <2>5. CASE LineEnd("ErrorLF", ErrorString(buf))
    BY <2>5, LineEndKeeps
  <2>6. CASE LineEnd("BulkLF", String(buf))
    BY <2>6, LineEndKeeps
  <2>7. CASE Number("Integer", "IntegerLF")
    <3>1. LineState("Integer", ":") /\ EndState("IntegerLF", ":") /\ ":" \in NumberMarks
      BY DEF LineState, EndState, NumberMarks
    <3> QED BY <2>7, <3>1, NumberKeeps
  <2>8. CASE Number("BulkSize", "BulkSizeLF")
    <3>1. LineState("BulkSize", "$") /\ EndState("BulkSizeLF", "$") /\ "$" \in NumberMarks
      BY DEF LineState, EndState, NumberMarks
    <3> QED BY <2>8, <3>1, NumberKeeps
  <2>9. CASE Number("ArraySize", "ArraySizeLF")
    <3>1. LineState("ArraySize", "*") /\ EndState("ArraySizeLF", "*") /\ "*" \in NumberMarks
      BY DEF LineState, EndState, NumberMarks
    <3> QED BY <2>9, <3>1, NumberKeeps
  <2>10. CASE IntegerLF
    BY <2>10, IntegerKeeps
  <2>11. CASE BulkSizeLF
    BY <2>11, BulkSizeKeeps
  <2>12. CASE Bulk
    BY <2>12, BulkKeeps
  <2>13. CASE BulkCR
    BY <2>13, BulkCRKeeps
  <2>14. CASE ArraySizeLF
    BY <2>14, ArraySizeKeeps
  <2> QED BY <1>4, <2>1, <2>2, <2>3, <2>4, <2>5, <2>6, <2>7, <2>8, <2>9, <2>10, <2>11, <2>12, <2>13, <2>14 DEF ParseChunk
<1>5. CASE UNCHANGED parserVars
  <2>1. Pieces' /\ Stored' /\ Taken' = Taken
    BY <1>5 DEF parserVars, ParserInv, Pieces, Stored, Taken
  <2>2. PICK m \in Nat : Delivered(m) /\ Standing(m)
    BY DEF ParserInv
  <2>3. Delivered(m)' /\ Standing(m)'
    BY <1>5, <2>1, <2>2 DEF parserVars, Delivered, Standing
  <2> QED BY <2>1, <2>2, <2>3 DEF ParserInv
<1> QED BY <1>1, <1>2, <1>3, <1>4, <1>5 DEF ParserNext

THEOREM ParserInvariant == ParserSpec => []ParserInv
<1>1. ParserInv /\ [ParserNext]_parserVars => ParserInv'
  BY ParserStep
<1> QED BY ParserStarts, <1>1, PTL DEF ParserSpec

LEMMA EndsGrow ==
  ASSUME NEW t \in Streams, NEW m \in Nat, NEW n \in Nat, m <= n, n <= Len(t)
  PROVE  Ends(t, m) <= Ends(t, n) /\ Ends(t, m) \in Nat /\ Ends(t, n) \in Nat
<1>1. t \in Seq(Texts) /\ m \in 0..Len(t) /\ n \in m..Len(t) /\ m <= Len(t)
  BY StreamType
<1>2. Ends(t, m) <= Ends(t, n)
  BY <1>1, JoinedGrows DEF Ends
<1> QED BY <1>1, <1>2, StreamEnds

(* However the bytes are cut into pieces, each reply is handed on when its *)
(* last byte is taken, in order and as it was sent: for all replies, of    *)
(* any depth and length, and any pieces.                                   *)
THEOREM RepliesAreExact == ParserSpec => []RepliesExact
<1>1. ASSUME ParserInv PROVE RepliesExact
  <2>1. PICK m \in Nat : Delivered(m) /\ Standing(m)
    BY <1>1 DEF ParserInv
  <2>2. /\ sent \in Streams /\ Taken \in Nat /\ arrays \in Seq(Open)
        /\ sent \in Seq(Texts) /\ Len(sent) \in Nat /\ \A i \in 1..Len(sent) - 1 : sent[i].whole
    BY <1>1, PieceAt, StreamType DEF ParserInv, Stored
  <2>3. m <= Len(sent) /\ replies = [i \in 1..m |-> sent[i].value] /\ \A i \in 1..m : sent[i].whole
    BY <2>1 DEF Delivered
  <2>4. Ends(sent, m) <= Taken
    <3>1. CASE pc = "failed"
      BY <2>1, <3>1 DEF Standing
    <3>2. CASE pc # "failed" /\ m < Len(sent)
      BY <2>1, <2>2, <3>2, OnWhole DEF Standing
    <3>3. CASE pc # "failed" /\ ~ (m < Len(sent))
      <4>1. Taken = Len(AllOf(sent)) /\ m = Len(sent)
        BY <2>1, <2>2, <2>3, <3>3 DEF Standing, On
      <4> QED BY <2>2, <4>1, StreamEnds
    <3> QED BY <3>1, <3>2, <3>3
  <2>5. ASSUME m < Len(sent), sent[m + 1].whole PROVE Taken < Ends(sent, m + 1)
    BY <2>1, <2>2, <2>5, OnWhole DEF Standing
  <2>6. ASSUME NEW n \in 1..Len(sent) PROVE (sent[n].whole /\ Ends(sent, n) <= Taken) <=> n \in 1..m
    <3>1. CASE n \in 1..m
      <4>1. Ends(sent, n) <= Ends(sent, m) /\ Ends(sent, n) \in Nat /\ Ends(sent, m) \in Nat
        BY <2>2, <2>3, <3>1, EndsGrow
      <4> QED BY <2>2, <2>3, <2>4, <3>1, <4>1
    <3>2. CASE n \notin 1..m
      <4>1. SUFFICES ASSUME sent[n].whole, Ends(sent, n) <= Taken PROVE FALSE
        BY <3>2
      <4>2. m + 1 <= n /\ m < Len(sent) /\ m + 1 \in Nat
        BY <2>2, <3>2
      <4>3. sent[m + 1].whole
        <5>1. CASE n = m + 1
          BY <4>1, <5>1
        <5>2. CASE n # m + 1
          <6>1. m + 1 \in 1..Len(sent) - 1
            BY <2>2, <4>2, <5>2
          <6> QED BY <2>2, <6>1
        <5> QED BY <5>1, <5>2
      <4>4. Taken < Ends(sent, m + 1)
        BY <2>5, <4>2, <4>3
      <4>5. Ends(sent, m + 1) <= Ends(sent, n) /\ Ends(sent, m + 1) \in Nat /\ Ends(sent, n) \in Nat
        BY <2>2, <4>2, EndsGrow
      <4> QED BY <2>2, <4>1, <4>4, <4>5
    <3> QED BY <3>1, <3>2
  <2>7. Complete = 1..m
    <3>1. DOMAIN sent = 1..Len(sent)
      BY <2>2
    <3>2. 1..m \subseteq 1..Len(sent)
      BY <2>2, <2>3
    <3> QED BY <2>6, <3>1, <3>2 DEF Complete, Ends
  <2> QED BY <2>3, <2>7 DEF RepliesExact
<1> QED BY <1>1, ParserInvariant, PTL

(* What a server says correctly is never taken for an error.               *)
THEOREM OnlyRubbishFailsAlways == ParserSpec => []OnlyRubbishFails
<1>1. ASSUME ParserInv PROVE OnlyRubbishFails
  <2> SUFFICES ASSUME pc = "failed"
               PROVE  \E n \in DOMAIN sent : ~sent[n].whole /\ Taken >= Len(Joined(sent)[n - 1])
    BY DEF OnlyRubbishFails
  <2>1. PICK m \in Nat : m < Len(sent) /\ ~sent[m + 1].whole /\ Ends(sent, m) <= Taken
    BY <1>1 DEF ParserInv, Standing
  <2>2. sent \in Streams /\ Taken \in Nat /\ sent \in Seq(Texts) /\ Len(sent) \in Nat
    BY <1>1, PieceAt, StreamType DEF ParserInv
  <2>3. Ends(sent, m) \in Nat
    BY <2>1, <2>2, StreamEnds
  <2>4. PICK n : n = m + 1
    OBVIOUS
  <2>5. n \in DOMAIN sent /\ n - 1 = m
    BY <2>1, <2>2, <2>4
  <2>6. Taken >= Len(Joined(sent)[n - 1])
    BY <2>1, <2>2, <2>3, <2>5 DEF Ends
  <2> QED BY <2>1, <2>4, <2>5, <2>6
<1> QED BY <1>1, ParserInvariant, PTL
=============================================================================
