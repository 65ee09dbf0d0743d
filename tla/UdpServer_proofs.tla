-------------------------- MODULE UdpServer_proofs ---------------------------
(***************************************************************************)
(* Proofs about the datagram server, for any number of requests, senders,  *)
(* lengths and failures.                                                   *)
(***************************************************************************)
EXTENDS UdpServer, FiniteSetTheorems, SequenceTheorems, TLAPS

(* The failed receives among the first two completed ones; there are never *)
(* more than two.                                                          *)
FailedAt(d, i) == IF i \in 1..Len(d) /\ ~d[i].ok THEN 1 ELSE 0
Failures(d) == FailedAt(d, 1) + FailedAt(d, 2)

(* Each of the two receives is being started, held by the reactor,         *)
(* completed, or gone with a failure that was handled.                     *)
Receives ==
  /\ Len(done) <= 2
  /\ Failures(done) <= errors
  /\ starting + armed + Len(done) + errors - Failures(done) = 2
  /\ Len(handled) + Len(done) = Len(got) + errors

(* The buffer holds the last datagram, and the endpoint is its sender's.   *)
LastReceived ==
  IF got = <<>> THEN buffer = None /\ \A i \in 1..Len(done) : ~done[i].ok
  ELSE buffer = got[Len(got)] /\ remote = Sender[buffer]

(* A request that is served alone is in one place, and in the buffer from  *)
(* when it is received until it is replied to.                             *)
Alone ==
  ~crowded /\ errors = 0 =>
    /\ Len(socket) + Len(done) + Len(owed) <= 1
    /\ done # <<>> => done[1].ok /\ done[1].bytes = Size[buffer]
    /\ owed # <<>> => owed[1] = buffer

IInv == TypeOK /\ Receives /\ LastReceived /\ NeverOlder /\ Alone /\ AloneIsRight

-----------------------------------------------------------------------------
LEMMA PairCardinality ==
  ASSUME NEW a, NEW b, a # b
  PROVE  Cardinality({a, b}) = 2
<1>1. IsFiniteSet({a}) /\ Cardinality({a}) = 1
  BY FS_Singleton
<1>2. Cardinality({a} \cup {b}) = Cardinality({a}) + 1
  BY <1>1, FS_AddElement
<1>3. {a, b} = {a} \cup {b}
  OBVIOUS
<1> QED
  BY <1>1, <1>2, <1>3

(* With at most two completed receives, those that failed are counted one  *)
(* by one.                                                                 *)
LEMMA FailuresCounted ==
  ASSUME NEW d \in Seq(Completion), Len(d) <= 2
  PROVE  Cardinality({i \in 1..Len(d) : ~d[i].ok}) = Failures(d)
<1> DEFINE S == {i \in 1..Len(d) : ~d[i].ok}
<1>1. S \subseteq {1, 2}
  <2>1. PICK n \in Nat : n = Len(d) /\ n <= 2
    OBVIOUS
  <2>2. \A i \in 1..n : i = 1 \/ i = 2
    BY <2>1
  <2> QED
    BY <2>1, <2>2
<1>2. \A i \in {1, 2} : FailedAt(d, i) = IF i \in S THEN 1 ELSE 0
  BY DEF FailedAt
<1> HIDE DEF S
<1>3. Cardinality({}) = 0 /\ Cardinality({1}) = 1 /\ Cardinality({2}) = 1
  BY FS_EmptySet, FS_Singleton
<1>4. Cardinality({1, 2}) = 2
  <2>1. 1 # 2
    OBVIOUS
  <2> QED
    BY <2>1, PairCardinality
<1> SUFFICES Cardinality(S) = Failures(d)
  BY DEF S
<1>5. CASE S = {}
  BY <1>2, <1>3, <1>5 DEF Failures
<1>6. CASE S = {1}
  <2>1. FailedAt(d, 1) = 1 /\ FailedAt(d, 2) = 0
    BY <1>2, <1>6
  <2> QED
    BY <1>3, <1>6, <2>1 DEF Failures
<1>7. CASE S = {2}
  <2>1. FailedAt(d, 1) = 0 /\ FailedAt(d, 2) = 1
    BY <1>2, <1>7
  <2> QED
    BY <1>3, <1>7, <2>1 DEF Failures
<1>8. CASE S = {1, 2}
  <2>1. FailedAt(d, 1) = 1 /\ FailedAt(d, 2) = 1
    BY <1>2, <1>8
  <2> QED
    BY <1>4, <1>8, <2>1 DEF Failures
<1> QED
  BY <1>1, <1>5, <1>6, <1>7, <1>8

(* What is received now, and what the reactor holds, is bounded by what is *)
(* on its way.                                                             *)
LEMMA Sum ==
  ASSUME NEW s \in Nat, NEW a \in Nat, NEW t \in Nat, NEW b \in Nat, NEW n \in Nat,
         NEW l \in Nat, NEW e \in Nat, NEW f \in Nat,
         t + b + n = s + a, f <= e, s + a + l + e - f = 2
  PROVE  l + n <= 2 /\ b <= 2
  OBVIOUS

LEMMA InitIInv == Init => IInv
<1> SUFFICES ASSUME Init PROVE IInv
  OBVIOUS
<1>0. <<>> \in Seq(Msgs) /\ <<>> \in Seq(Completion) /\ <<>> \in Seq(Msgs \cup {Rubbish})
      /\ <<>> \in Seq([for : Msgs, to : {Sender[m] : m \in Msgs} \cup {None}])
  OBVIOUS
<1>1. TypeOK
  <2>1. 0 \in 0..MaxErrors /\ 2 \in 0..2 /\ 0 \in 0..2
    BY UdpAssumption
  <2> QED
    BY <1>0, <2>1 DEF Init, TypeOK
<1>2. FailedAt(done, 1) = 0 /\ FailedAt(done, 2) = 0
  BY DEF Init, FailedAt
<1>3. Receives
  BY <1>2 DEF Init, Receives, Failures
<1>4. LastReceived /\ NeverOlder /\ Alone /\ AloneIsRight
  BY DEF Init, LastReceived, NeverOlder, Alone, AloneIsRight
<1> QED
  BY <1>1, <1>3, <1>4 DEF IInv

-----------------------------------------------------------------------------
(* n receives read the first n datagrams; `before` is what is left of the  *)
(* completed receives.                                                     *)
Effect(n, before) ==
  /\ socket' \in Seq(Msgs) /\ Len(socket') = Len(socket) - n
  /\ got' \in Seq(Msgs) /\ Len(got') = Len(got) + n
  /\ \A i \in 1..Len(got) : got'[i] = got[i]
  /\ done' \in Seq(Completion) /\ Len(done') = Len(before) + n
  /\ \A i \in 1..Len(before) : done'[i] = before[i]
  /\ \A i \in Len(before) + 1..Len(before) + n : done'[i].ok
  /\ IF n = 0 THEN buffer' = buffer /\ remote' = remote
     ELSE /\ done'[Len(done')].bytes = Size[buffer']
          /\ buffer' \in Msgs /\ buffer' = got'[Len(got')]
          /\ remote' = Sender[buffer']

LEMMA Shift ==
  ASSUME NEW k \in Nat, NEW n \in Nat
  PROVE  \A i \in k + 1..k + n : i - k \in 1..n
OBVIOUS

LEMMA Regroup ==
  ASSUME NEW a \in Nat, NEW b \in Nat, NEW n \in Nat
  PROVE  a + (b + n) = (a + b) + n /\ (a + n) + b = (a + b) + n
OBVIOUS

LEMMA Appended ==
  ASSUME NEW S, NEW s \in Seq(S), NEW t \in Seq(S)
  PROVE  /\ s \o t \in Seq(S) /\ Len(s \o t) = Len(s) + Len(t)
         /\ \A i \in 1..Len(s) : (s \o t)[i] = s[i]
         /\ \A i \in Len(s) + 1..Len(s) + Len(t) : (s \o t)[i] = t[i - Len(s)]
<1> DEFINE k == Len(s)
           l == Len(t)
           u == s \o t
<1>1. k \in Nat /\ l \in Nat
  OBVIOUS
<1>2. /\ u \in Seq(S) /\ Len(u) = k + l
      /\ \A i \in 1..k + l : u[i] = IF i <= k THEN s[i] ELSE t[i - k]
  BY ConcatProperties
<1> HIDE DEF k, l, u
<1>3. \A i \in 1..k : i \in 1..k + l /\ i <= k
  BY <1>1
<1>4. \A i \in k + 1..k + l : i \in 1..k + l /\ ~(i <= k)
  BY <1>1
<1>5. \A i \in 1..k : u[i] = s[i]
  BY <1>2, <1>3
<1>6. \A i \in k + 1..k + l : u[i] = t[i - k]
  BY <1>2, <1>4
<1> QED
  BY <1>2, <1>5, <1>6 DEF k, l, u

LEMMA ReadEffect ==
  ASSUME TypeOK, NEW n \in Nat, 1 <= n, n <= Len(socket),
         NEW before \in Seq(Completion), Read(n, before)
  PROVE  Effect(n, before)
<1> DEFINE taken == SubSeq(socket, 1, n)
           news  == [i \in 1..n |-> [ok |-> TRUE, bytes |-> Size[taken[i]]]]
<1>1. socket \in Seq(Msgs) /\ got \in Seq(Msgs)
  BY DEF TypeOK
<1>2. taken \in Seq(Msgs) /\ Len(taken) = n /\ \A i \in 1..n : taken[i] \in Msgs
  BY <1>1
<1>3. \A i \in 1..n : Size[taken[i]] \in Nat
  BY <1>2, UdpAssumption
<1>4. /\ news \in Seq(Completion) /\ Len(news) = n
      /\ \A i \in 1..n : news[i].ok /\ news[i].bytes = Size[taken[i]]
  <2> HIDE DEF taken
  <2>1. \A i \in 1..n : [ok |-> TRUE, bytes |-> Size[taken[i]]] \in Completion
    BY <1>3 DEF Completion
  <2>2. news \in [1..n -> Completion]
    BY <2>1
  <2>3. news \in Seq(Completion) /\ Len(news) = n
    <3> HIDE DEF news
    <3> QED
      BY <2>2
  <2>4. \A i \in 1..n : news[i].ok /\ news[i].bytes = Size[taken[i]]
    OBVIOUS
  <2> QED
    BY <2>3, <2>4
<1>5. /\ socket' = SubSeq(socket, n + 1, Len(socket)) /\ got' = got \o taken
      /\ done' = before \o news /\ buffer' = taken[n] /\ remote' = Sender[taken[n]]
  BY DEF Read
<1> HIDE DEF taken, news
<1>6. socket' \in Seq(Msgs) /\ Len(socket') = Len(socket) - n
  BY <1>1, <1>5
<1>7. /\ got' \in Seq(Msgs) /\ Len(got') = Len(got) + n /\ got'[Len(got')] = taken[n]
      /\ \A i \in 1..Len(got) : got'[i] = got[i]
  <2>1. /\ got' \in Seq(Msgs) /\ Len(got') = Len(got) + n
        /\ \A i \in 1..Len(got) + n : got'[i] = IF i <= Len(got) THEN got[i] ELSE taken[i - Len(got)]
    BY <1>1, <1>2, <1>5, ConcatProperties, ZenonT(60)
  <2>2. Len(got) \in Nat /\ Len(got) + n - Len(got) = n
    BY <1>1
  <2> QED
    BY <2>1, <2>2
<1>8. /\ done' \in Seq(Completion) /\ Len(done') = Len(before) + n
      /\ \A i \in 1..Len(before) : done'[i] = before[i]
      /\ \A i \in Len(before) + 1..Len(before) + n : done'[i] = news[i - Len(before)]
  <2>1. news \in Seq(Completion) /\ Len(news) = n
    BY <1>4
  <2>2. done' = before \o news
    BY <1>5
  <2>3. /\ before \o news \in Seq(Completion) /\ Len(before \o news) = Len(before) + Len(news)
        /\ \A i \in 1..Len(before) : (before \o news)[i] = before[i]
        /\ \A i \in Len(before) + 1..Len(before) + Len(news) :
              (before \o news)[i] = news[i - Len(before)]
    BY <2>1, Appended, Zenon
  <2> QED
    BY <2>1, <2>2, <2>3, Zenon
<1>9. \A i \in Len(before) + 1..Len(before) + n : done'[i].ok
  <2>1. \A i \in Len(before) + 1..Len(before) + n : i - Len(before) \in 1..n
    <3>1. Len(before) \in Nat
      OBVIOUS
    <3> QED
      BY <3>1, Shift
  <2> QED
    BY <1>4, <1>8, <2>1
<1>10. done'[Len(done')] = news[n]
  <2>1. /\ Len(before) + n \in Len(before) + 1..Len(before) + n
        /\ (Len(before) + n) - Len(before) = n
    OBVIOUS
  <2> QED
    BY <1>8, <2>1
<1>11. n \in 1..n /\ n # 0
  OBVIOUS
<1>12. IF n = 0 THEN buffer' = buffer /\ remote' = remote
       ELSE /\ done'[Len(done')].bytes = Size[buffer']
            /\ buffer' \in Msgs /\ buffer' = got'[Len(got')]
            /\ remote' = Sender[buffer']
  BY <1>2, <1>4, <1>5, <1>7, <1>10, <1>11
<1> QED
  BY <1>6, <1>7, <1>8, <1>9, <1>12 DEF Effect

(* A receive that is started reads a datagram or waits.                    *)
LEMMA StartEffect ==
  ASSUME TypeOK, NEW before \in Seq(Completion), StartReceive(before)
  PROVE  \E n \in {0, 1} : Effect(n, before) /\ n <= Len(socket) /\ armed' = armed + 1 - n
<1>1. CASE armed = 0 /\ socket # <<>>
  <2>1. Read(1, before) /\ armed' = armed
    BY <1>1 DEF StartReceive
  <2>2. 1 <= Len(socket)
    BY <1>1 DEF TypeOK
  <2>3. Effect(1, before)
    BY <2>1, <2>2, ReadEffect
  <2> QED
    BY <2>1, <2>2, <2>3 DEF TypeOK
<1>2. CASE ~(armed = 0 /\ socket # <<>>)
  <2>1. /\ armed' = armed + 1 /\ done' = before
        /\ UNCHANGED <<socket, got, buffer, remote>>
    BY <1>2 DEF StartReceive
  <2>2. Effect(0, before)
    BY <2>1 DEF Effect, TypeOK
  <2> QED
    BY <2>1, <2>2 DEF TypeOK
<1> QED
  BY <1>1, <1>2

(* Only failed receives are counted, so those that read add none.          *)
LEMMA EffectFailures ==
  ASSUME NEW n \in Nat, NEW before \in Seq(Completion), Effect(n, before), Len(before) + n <= 2
  PROVE  Failures(done') = Failures(before)
<1>1. Len(before) \in Nat
  OBVIOUS
<1>2. FailedAt(done', 1) = FailedAt(before, 1) /\ FailedAt(done', 2) = FailedAt(before, 2)
  BY <1>1 DEF Effect, FailedAt
<1> QED
  BY <1>2 DEF Failures

(* Whatever is received last is in the buffer.                             *)
LEMMA EffectLast ==
  ASSUME TypeOK, LastReceived, NEW n \in Nat, NEW before \in Seq(Completion), Effect(n, before),
         \A i \in 1..Len(before) : before[i].ok => \E j \in 1..Len(done) : done[j].ok
  PROVE  LastReceived'
<1>1. CASE n = 0
  <2>1. /\ Len(got') = Len(got) /\ buffer' = buffer /\ remote' = remote
        /\ \A i \in 1..Len(got) : got'[i] = got[i]
        /\ Len(done') = Len(before) /\ \A i \in 1..Len(before) : done'[i] = before[i]
    BY <1>1 DEF Effect
  <2>2. got \in Seq(Msgs) /\ got' \in Seq(Msgs)
    BY DEF Effect, TypeOK
  <2>3. CASE got = <<>>
    BY <2>1, <2>2, <2>3 DEF LastReceived
  <2>4. CASE got # <<>>
    <3>1. Len(got) \in 1..Len(got) /\ got' # <<>>
      BY <2>1, <2>2, <2>4
    <3> QED
      BY <2>1, <2>4, <3>1 DEF LastReceived
  <2> QED
    BY <2>3, <2>4
<1>2. CASE n # 0
  <2>1. got' # <<>>
    BY <1>2 DEF Effect, TypeOK
  <2> QED
    BY <1>2, <2>1 DEF Effect, LastReceived
<1> QED
  BY <1>1, <1>2

(* What was handled stays no older than its datagram.                      *)
LEMMA EffectNeverOlder ==
  ASSUME TypeOK, NeverOlder, NEW n \in Nat, NEW before \in Seq(Completion), Effect(n, before),
         UNCHANGED <<errors, handled>>
  PROVE  NeverOlder'
<1>1. SUFFICES ASSUME errors = 0, NEW i \in 1..Len(handled), handled[i] # Rubbish
               PROVE  \E j \in i..Len(got') : handled[i] = got'[j]
  BY DEF NeverOlder
<1>2. PICK j \in i..Len(got) : handled[i] = got[j]
  BY <1>1 DEF NeverOlder
<1>3. j \in i..Len(got') /\ got'[j] = got[j]
  <2>1. i \in Nat /\ i >= 1 /\ Len(got) \in Nat
    BY DEF TypeOK
  <2>2. Len(got') = Len(got) + n /\ \A k \in 1..Len(got) : got'[k] = got[k]
    BY DEF Effect
  <2> QED
    BY <1>2, <2>1, <2>2
<1> QED
  BY <1>2, <1>3

(* As long as nothing failed, no more was handled than received.           *)
LEMMA HandledReceived ==
  ASSUME TypeOK, Receives, errors = 0
  PROVE  Len(handled) + Len(done) = Len(got) /\ \A i \in 1..Len(handled) : i \in 1..Len(got)
<1>1. PICK h \in Nat, d \in Nat, g \in Nat : h = Len(handled) /\ d = Len(done) /\ g = Len(got)
  BY DEF TypeOK
<1>2. h + d = g
  BY <1>1 DEF Receives
<1>3. \A i \in 1..h : i \in 1..g
  BY <1>2
<1> QED
  BY <1>1, <1>2, <1>3

(* One more reply to the sender of its request.                            *)
LEMMA RepliesGrow ==
  ASSUME NEW R, NEW r \in Seq(R), NEW m, NEW s, s = Sender[m],
         \A i \in 1..Len(r) : r[i].to = Sender[r[i].for]
  PROVE  LET q == Append(r, [for |-> m, to |-> s])
         IN \A i \in 1..Len(q) : q[i].to = Sender[q[i].for]
<1> DEFINE q == Append(r, [for |-> m, to |-> s])
<1>1. PICK l \in Nat : l = Len(r)
  OBVIOUS
<1>2. Len(q) = l + 1 /\ q[l + 1] = [for |-> m, to |-> s] /\ \A i \in 1..l : q[i] = r[i]
  BY <1>1
<1>3. \A i \in 1..l + 1 : i \in 1..l \/ i = l + 1
  BY <1>1
<1> QED
  BY <1>1, <1>2, <1>3

-----------------------------------------------------------------------------
(* A request arrives (Arrive): it waits in the socket.                     *)
LEMMA ArriveStep ==
  ASSUME IInv, NEW m \in Msgs, Arrive(m)
  PROVE  IInv'
<1>1. TypeOK'
  BY DEF IInv, TypeOK, Arrive, server
<1>2. Receives' /\ LastReceived' /\ NeverOlder' /\ AloneIsRight'
  BY DEF IInv, Arrive, server, Receives, Failures, FailedAt, LastReceived, NeverOlder, AloneIsRight
<1>3. Alone'
  <2>1. SUFFICES ASSUME ~crowded', errors' = 0
                 PROVE  Len(socket') + Len(done') + Len(owed') <= 1 /\ done' = <<>> /\ owed' = <<>>
    BY DEF Alone
  <2>2. socket = <<>> /\ done = <<>> /\ owed = <<>>
    BY <2>1 DEF Arrive
  <2>3. socket' = <<m>> /\ done' = <<>> /\ owed' = <<>>
    BY <2>2 DEF Arrive, server
  <2> QED
    BY <2>3
<1> QED
  BY <1>1, <1>2, <1>3 DEF IInv

(* A receive is started, or some complete, while no handler runs (Start,   *)
(* Ready).                                                                 *)
LEMMA ReceiveStep ==
  ASSUME IInv, NEW n \in Nat, n <= Len(socket), Effect(n, done),
         starting' \in 0..2, armed' \in Nat, starting' + armed' + n = starting + armed,
         UNCHANGED <<toSend, owed, errors, handled, replies, crowded>>
  PROVE  IInv'
<1>1. /\ socket \in Seq(Msgs) /\ done \in Seq(Completion) /\ got \in Seq(Msgs)
      /\ handled \in Seq(Msgs \cup {Rubbish}) /\ owed \in Seq(Msgs)
      /\ starting \in Nat /\ armed \in Nat /\ errors \in Nat
  BY UdpAssumption DEF IInv, TypeOK
<1>2. Len(done) + n <= 2 /\ armed' <= 2
  <2>1. Failures(done) \in Nat
    BY DEF Failures, FailedAt
  <2>2. Len(done) \in Nat /\ starting' \in Nat
    BY <1>1
  <2>3. /\ Failures(done) <= errors
        /\ starting + armed + Len(done) + errors - Failures(done) = 2
    BY DEF IInv, Receives
  <2> QED
    BY <1>1, <2>1, <2>2, <2>3, Sum
<1>3. Failures(done') = Failures(done)
  BY <1>1, <1>2, EffectFailures
<1>4. Receives'
  <2>1. Failures(done) \in Nat
    BY DEF Failures, FailedAt
  <2>2. /\ Len(done) \in Nat /\ starting' \in Nat /\ Len(handled) \in Nat /\ Len(got) \in Nat
        /\ Len(done') = Len(done) + n /\ Len(got') = Len(got) + n
    BY <1>1, SMTT(60) DEF Effect
  <2>3. /\ Failures(done) <= errors
        /\ starting + armed + Len(done) + errors - Failures(done) = 2
        /\ Len(handled) + Len(done) = Len(got) + errors
    BY DEF IInv, Receives
  <2>4. /\ Len(done') <= 2
        /\ Failures(done') <= errors'
        /\ Len(handled') + Len(done') = Len(got') + errors'
    <3>1. errors' = errors /\ Len(handled') = Len(handled)
      BY <1>1
    <3>2. Len(handled) + (Len(done) + n) = (Len(got) + n) + errors
      <4>1. Len(handled) \in Nat /\ Len(done) \in Nat /\ Len(got) \in Nat /\ errors \in Nat
        BY <1>1, <2>2
      <4>2. Len(handled) + Len(done) = Len(got) + errors
        BY <2>3
      <4>3. (Len(handled) + Len(done)) + n = (Len(got) + errors) + n
        BY <4>2, Zenon
      <4>4. Len(handled) + (Len(done) + n) = (Len(handled) + Len(done)) + n
        BY <4>1, Regroup, ZenonT(60)
      <4>5. (Len(got) + n) + errors = (Len(got) + errors) + n
        BY <4>1, Regroup, ZenonT(60)
      <4> QED
        BY <4>3, <4>4, <4>5, Zenon
    <3>3. Len(done) + n <= 2
      BY <1>2, <2>2
    <3> QED
      BY <1>3, <2>2, <2>3, <3>1, <3>2, <3>3
  <2>5. starting' + armed' + Len(done') + errors' - Failures(done') = 2
    <3>1. starting' + armed' + (Len(done) + n) + errors - Failures(done) = 2
      <4>1. PICK t \in Nat, b \in Nat, l \in Nat, e \in Nat, f \in Nat :
               t = starting' /\ b = armed' /\ l = Len(done) /\ e = errors /\ f = Failures(done)
        BY <1>1, <2>1, <2>2
      <4>2. PICK s \in Nat, a \in Nat : s = starting /\ a = armed
        BY <1>1
      <4>3. t + b + n = s + a /\ s + a + l + e - f = 2
        BY <2>3, <4>1, <4>2
      <4>4. t + b + (l + n) + e - f = 2
        BY <4>3
      <4> QED
        BY <4>1, <4>4
    <3> QED
      BY <1>3, <2>2, <3>1
  <2> QED
    BY <2>4, <2>5 DEF Receives
<1>5. TypeOK'
  <2>1. armed' \in 0..2
    BY <1>2
  <2>2. buffer' \in Msgs \cup {None} /\ remote' \in {Sender[m] : m \in Msgs} \cup {None}
    BY DEF IInv, TypeOK, Effect
  <2> QED
    BY <2>1, <2>2 DEF IInv, TypeOK, Effect
<1>6. LastReceived'
  BY <1>1, EffectLast DEF IInv
<1>7. NeverOlder'
  BY <1>1, EffectNeverOlder DEF IInv
<1>8. AloneIsRight'
  <2>1. SUFFICES ASSUME ~crowded, errors = 0, NEW i \in 1..Len(handled)
                 PROVE  handled[i] = got'[i]
    BY DEF IInv, AloneIsRight
  <2>2. i \in 1..Len(got)
    BY <2>1, HandledReceived DEF IInv
  <2>3. handled[i] = got[i]
    BY <2>1 DEF IInv, AloneIsRight
  <2> QED
    BY <2>2, <2>3 DEF Effect
<1>9. Alone'
  <2>1. SUFFICES ASSUME ~crowded, errors = 0
                 PROVE  /\ Len(socket') + Len(done') + Len(owed) <= 1
                        /\ done' # <<>> => done'[1].ok /\ done'[1].bytes = Size[buffer']
                        /\ owed # <<>> => owed[1] = buffer'
    BY DEF Alone
  <2>2. Len(socket) + Len(done) + Len(owed) <= 1
    BY <2>1 DEF IInv, Alone
  <2>3. CASE n = 0
    <3>1. /\ buffer' = buffer /\ Len(done') = Len(done) /\ Len(socket') = Len(socket)
          /\ \A i \in 1..Len(done) : done'[i] = done[i]
      BY <1>1, <2>3 DEF Effect
    <3>2. done' # <<>> => done # <<>> /\ done'[1] = done[1]
      BY <1>1, <3>1 DEF Effect
    <3> QED
      BY <2>1, <2>2, <3>1, <3>2 DEF IInv, Alone
  <2>4. CASE n # 0
    <3>1. n = 1 /\ Len(socket) = 1 /\ Len(done) = 0 /\ Len(owed) = 0
      <4>1. PICK k \in Nat, l \in Nat, o \in Nat : k = Len(socket) /\ l = Len(done) /\ o = Len(owed)
        BY <1>1
      <4>2. k + l + o <= 1 /\ n <= k /\ n >= 1
        BY <2>2, <2>4, <4>1
      <4>3. n = 1 /\ k = 1 /\ l = 0 /\ o = 0
        BY <4>2
      <4> QED
        BY <4>1, <4>3
    <3>2. Len(socket') = 0 /\ Len(done') = 1 /\ done'[1].ok /\ done'[1].bytes = Size[buffer']
      BY <3>1 DEF Effect
    <3> QED
      BY <1>1, <3>1, <3>2
  <2> QED
    BY <2>3, <2>4
<1> QED
  BY <1>4, <1>5, <1>6, <1>7, <1>8, <1>9 DEF IInv

LEMMA StartStep ==
  ASSUME IInv, Start
  PROVE  IInv'
<1>1. TypeOK /\ done \in Seq(Completion) /\ StartReceive(done)
  BY DEF IInv, TypeOK, Start
<1>2. PICK n \in {0, 1} : Effect(n, done) /\ n <= Len(socket) /\ armed' = armed + 1 - n
  BY <1>1, StartEffect
<1>3. starting' \in 0..2 /\ armed' \in Nat /\ starting' + armed' + n = starting + armed
  BY <1>1, <1>2, SMTT(60) DEF TypeOK, Start
<1> QED
  BY <1>2, <1>3, ReceiveStep DEF Start

LEMMA ReadyStep ==
  ASSUME IInv, Ready
  PROVE  IInv'
<1>1. TypeOK /\ done \in Seq(Completion) /\ socket \in Seq(Msgs)
  BY DEF IInv, TypeOK
<1>2. PICK n \in Nat : 1 <= n /\ n <= Len(socket) /\ n <= armed /\ Read(n, done) /\ armed' = armed - n
  <2>1. CASE Len(socket) < armed
    BY <1>1, <2>1 DEF Ready, TypeOK
  <2>2. CASE ~(Len(socket) < armed)
    BY <1>1, <2>2 DEF Ready, TypeOK
  <2> QED
    BY <2>1, <2>2
<1>3. Effect(n, done)
  BY <1>1, <1>2, ReadEffect
<1>4. starting' \in 0..2 /\ armed' \in Nat /\ starting' + armed' + n = starting + armed
  BY <1>1, <1>2 DEF TypeOK, Ready
<1> QED
  BY <1>2, <1>3, <1>4, ReceiveStep DEF Ready

(* A receive fails.                                                        *)
LEMMA FailStep ==
  ASSUME IInv, Fail
  PROVE  IInv'
<1>1. /\ done \in Seq(Completion) /\ starting = 0 /\ armed \in 1..2 /\ errors \in Nat
      /\ done' = Append(done, Failed) /\ Failed \in Completion /\ ~Failed.ok
      /\ errors' = errors + 1 /\ armed' = armed - 1
  BY UdpAssumption DEF IInv, TypeOK, Fail, Failed, Completion
<1>2. PICK l \in Nat, f \in Nat : l = Len(done) /\ f = Failures(done)
  BY <1>1 DEF Failures, FailedAt
<1>3. l <= 1 /\ armed + l + errors - f = 2 /\ f <= errors
  BY <1>1, <1>2 DEF IInv, Receives
<1>4. Len(done') = l + 1 /\ done' \in Seq(Completion) /\ ~done'[l + 1].ok
      /\ \A i \in 1..l : done'[i] = done[i]
  BY <1>1, <1>2
<1>5. Failures(done') = f + 1
  <2>1. CASE l = 0
    BY <1>2, <1>4, <2>1 DEF Failures, FailedAt
  <2>2. CASE l = 1
    BY <1>2, <1>4, <2>2 DEF Failures, FailedAt
  <2> QED
    BY <1>3, <2>1, <2>2
<1>6. Receives'
  <2>1. PICK h \in Nat, g \in Nat : h = Len(handled) /\ g = Len(got)
    BY DEF IInv, TypeOK
  <2>2. h + l = g + errors /\ handled' = handled /\ got' = got /\ starting' = 0
    BY <1>1, <1>2, <2>1 DEF IInv, Receives, Fail, history
  <2>3. /\ l + 1 <= 2 /\ f + 1 <= errors'
        /\ starting' + armed' + (l + 1) + errors' - (f + 1) = 2
        /\ h + (l + 1) = g + errors'
    BY <1>1, <1>3, <2>2
  <2> QED
    BY <1>4, <1>5, <2>1, <2>2, <2>3 DEF Receives
<1>7. TypeOK'
  <2>1. errors' \in 0..MaxErrors /\ armed' \in 0..2
    BY <1>1, UdpAssumption DEF Fail
  <2> QED
    BY <1>4, <2>1 DEF IInv, TypeOK, Fail, history
<1>8. LastReceived'
  <2>1. \A i \in 1..(l + 1) : i \in 1..l \/ i = l + 1
    OBVIOUS
  <2>2. (\A i \in 1..Len(done) : ~done[i].ok) => \A i \in 1..Len(done') : ~done'[i].ok
    BY <1>2, <1>4, <2>1
  <2> QED
    BY <2>2 DEF IInv, LastReceived, Fail, history
<1>9. errors' # 0
  BY <1>1
<1> QED
  BY <1>6, <1>7, <1>8, <1>9 DEF IInv, NeverOlder, Alone, AloneIsRight

(* The other thread replies (Reply).                                       *)
LEMMA ReplyStep ==
  ASSUME IInv, Reply
  PROVE  IInv'
<1>1. /\ owed \in Seq(Msgs) /\ owed # <<>> /\ owed' = Tail(owed)
      /\ replies' = Append(replies, [for |-> Head(owed), to |-> remote])
      /\ UNCHANGED <<toSend, socket, starting, armed, done, buffer, remote, errors, got, handled, crowded>>
  BY DEF IInv, TypeOK, Reply, server
<1>2. Head(owed) \in Msgs /\ owed' \in Seq(Msgs) /\ Len(owed') = Len(owed) - 1 /\ Head(owed) = owed[1]
  BY <1>1
<1>3. [for |-> Head(owed), to |-> remote] \in [for : Msgs, to : {Sender[m] : m \in Msgs} \cup {None}]
  BY <1>2 DEF IInv, TypeOK
<1>4. TypeOK'
  BY <1>1, <1>2, <1>3 DEF IInv, TypeOK
<1>5. Receives' /\ LastReceived' /\ NeverOlder'
  BY <1>1 DEF IInv, Receives, Failures, FailedAt, LastReceived, NeverOlder
<1>6. Alone' /\ AloneIsRight'
  <2>1. SUFFICES ASSUME ~crowded, errors = 0
                 PROVE  Alone' /\ AloneIsRight'
    BY <1>1 DEF Alone, AloneIsRight
  <2>2. socket = <<>> /\ done = <<>> /\ Len(owed') = 0 /\ owed[1] = buffer
    <3>1. PICK k \in Nat, l \in Nat, o \in Nat : k = Len(socket) /\ l = Len(done) /\ o = Len(owed)
      BY DEF IInv, TypeOK
    <3>2. k + l + o <= 1 /\ o # 0
      BY <1>1, <2>1, <3>1 DEF IInv, Alone
    <3>3. k = 0 /\ l = 0 /\ o = 1
      BY <3>2
    <3>4. socket = <<>> /\ done = <<>>
      <4>1. socket \in Seq(Msgs) /\ done \in Seq(Completion)
        BY DEF IInv, TypeOK
      <4>2. Len(socket) = 0 /\ Len(done) = 0
        BY <3>1, <3>3
      <4> QED
        BY <4>1, <4>2, EmptySeq
    <3>5. owed[1] = buffer
      BY <1>1, <2>1 DEF IInv, Alone
    <3> QED
      BY <1>2, <3>1, <3>3, <3>4, <3>5
  <2>3. Alone'
    <3>1. socket' = <<>> /\ done' = <<>> /\ owed' = <<>>
      BY <1>1, <1>2, <2>2
    <3> QED
      BY <3>1 DEF Alone
  <2>4. remote = Sender[buffer]
    <3>1. buffer \in Msgs
      BY <1>2, <2>2
    <3> QED
      BY <3>1, UdpAssumption DEF IInv, LastReceived
  <2>5. AloneIsRight'
    <3>1. \A i \in 1..Len(handled) : handled[i] = got[i]
      BY <2>1 DEF IInv, AloneIsRight
    <3>2. \A i \in 1..Len(replies) : replies[i].to = Sender[replies[i].for]
      BY <2>1 DEF IInv, AloneIsRight
    <3>3. \A i \in 1..Len(replies') : replies'[i].to = Sender[replies'[i].for]
      BY <1>1, <1>2, <2>2, <2>4, <3>2, RepliesGrow DEF IInv, TypeOK
    <3> QED
      BY <1>1, <3>1, <3>3 DEF AloneIsRight
  <2> QED
    BY <2>3, <2>5
<1> QED
  BY <1>4, <1>5, <1>6 DEF IInv

(* A handler runs (HandleReceive): n is 1 when the receive that is started *)
(* again reads a datagram at once.                                         *)
LEMMA HandleStep ==
  ASSUME IInv, HandleReceive
  PROVE  IInv'
<1> DEFINE c == Head(done)
           rest == Tail(done)
           m == Seen(c)
<1>1. /\ done \in Seq(Completion) /\ done # <<>> /\ socket \in Seq(Msgs) /\ got \in Seq(Msgs)
      /\ handled \in Seq(Msgs \cup {Rubbish}) /\ owed \in Seq(Msgs)
      /\ starting = 0 /\ armed \in Nat /\ errors \in Nat
      /\ handled' = Append(handled, m) /\ Rearm(c, rest)
      /\ UNCHANGED <<toSend, starting, errors, crowded>>
  BY UdpAssumption DEF IInv, TypeOK, HandleReceive
<1>2. /\ c \in Completion /\ c = done[1] /\ rest \in Seq(Completion)
      /\ Len(done) = Len(rest) + 1 /\ \A i \in 1..Len(rest) : rest[i] = done[i + 1]
  BY <1>1
<1>3. \/ m = Rubbish /\ UNCHANGED <<owed, replies>>
      \/ m # Rubbish /\ replies' = Append(replies, [for |-> m, to |-> remote]) /\ owed' = owed
      \/ m # Rubbish /\ owed' = Append(owed, m) /\ replies' = replies
  BY DEF HandleReceive
<1>4. m = Rubbish \/ (m = buffer /\ buffer \in Msgs /\ got # <<>> /\ buffer = got[Len(got)])
  <2>1. CASE c.ok
    <3>1. 1 \in 1..Len(done) /\ done[1].ok
      BY <1>1, <1>2, <2>1
    <3>2. got # <<>> /\ buffer = got[Len(got)]
      BY <3>1 DEF IInv, LastReceived
    <3>3. buffer \in Msgs
      BY <1>1, <3>2
    <3> QED
      BY <3>2, <3>3 DEF Seen
  <2>2. CASE ~c.ok
    BY <2>2 DEF Seen
  <2> QED
    BY <2>1, <2>2
<1> HIDE DEF c, rest, m
<1> DEFINE again == IF c.ok THEN 1 ELSE 0
           bad == IF c.ok THEN 0 ELSE 1
<1>5. PICK n \in {0, 1} : /\ Effect(n, rest) /\ n <= Len(socket)
                           /\ armed' + n = armed + again /\ armed' \in Nat
  <2>1. TypeOK
    BY DEF IInv
  <2>2. CASE c.ok
    <3>1. StartReceive(rest)
      BY <1>1, <2>2 DEF Rearm
    <3>2. PICK n \in {0, 1} : Effect(n, rest) /\ n <= Len(socket) /\ armed' = armed + 1 - n
      BY <1>2, <2>1, <3>1, StartEffect
    <3>3. armed' + n = armed + 1 /\ armed' \in Nat
      BY <1>1, <3>2
    <3> QED
      BY <2>2, <3>2, <3>3
  <2>3. CASE ~c.ok
    <3>1. done' = rest /\ UNCHANGED <<socket, armed, got, buffer, remote>>
      BY <1>1, <2>3 DEF Rearm
    <3>2. Effect(0, rest) /\ 0 <= Len(socket)
      BY <1>1, <1>2, <3>1 DEF Effect
    <3> QED
      BY <1>1, <2>3, <3>1, <3>2
  <2> QED
    BY <2>2, <2>3
<1>6. PICK l \in Nat, e \in Nat, f \in Nat, a \in Nat, b \in Nat, h \in Nat, g \in Nat :
        /\ l = Len(rest) /\ e = errors /\ f = Failures(rest) /\ a = armed /\ b = armed'
        /\ h = Len(handled) /\ g = Len(got)
  <2>1. Failures(rest) \in Nat
    BY DEF Failures, FailedAt
  <2>2. Len(rest) \in Nat /\ Len(handled) \in Nat /\ Len(got) \in Nat
    BY <1>1, <1>2
  <2> QED
    BY <1>1, <1>5, <2>1, <2>2
<1>7. Failures(done) = f + bad
  <2>1. l <= 1
    BY <1>2, <1>6 DEF IInv, Receives
  <2>2. CASE l = 0
    BY <1>2, <1>6, <2>2 DEF Failures, FailedAt
  <2>3. CASE l = 1
    BY <1>2, <1>6, <2>3 DEF Failures, FailedAt
  <2> QED
    BY <2>1, <2>2, <2>3
<1>8. /\ b + n = a + 1 - bad /\ a + (l + 1) + e - (f + bad) = 2 /\ f + bad <= e
      /\ h + (l + 1) = g + e /\ l + 1 <= 2
  <2>1. b + n = a + 1 - bad
    <3>1. again = 1 - bad /\ bad \in 0..1
      OBVIOUS
    <3> HIDE DEF again, bad
    <3> QED
      BY <1>5, <1>6, <3>1
  <2>2. /\ Len(done) <= 2 /\ Failures(done) <= errors
        /\ starting + armed + Len(done) + errors - Failures(done) = 2
        /\ Len(handled) + Len(done) = Len(got) + errors
    BY DEF IInv, Receives
  <2>3. Len(done) = l + 1
    BY <1>2, <1>6
  <2>4. 0 + a + (l + 1) + e - (f + bad) = 2
    BY <1>1, <1>6, <1>7, <2>2, <2>3
  <2>5. f + bad <= e /\ h + (l + 1) = g + e /\ l + 1 <= 2
    BY <1>6, <1>7, <2>2, <2>3
  <2> QED
    BY <2>1, <2>4, <2>5
<1>9. /\ l + n <= 2 /\ b <= 2 /\ b + (l + n) + e - f = 2 /\ f <= e
      /\ (h + 1) + (l + n) = (g + n) + e
  BY <1>5, <1>8
<1>10. Receives'
  <2>1. Failures(done') = f
    BY <1>2, <1>5, <1>6, <1>9, EffectFailures
  <2>2. Len(done') = l + n /\ Len(got') = g + n /\ Len(handled') = h + 1 /\ starting' = 0
    BY <1>1, <1>5, <1>6 DEF Effect
  <2> QED
    BY <1>1, <1>6, <1>9, <2>1, <2>2 DEF Receives
<1>11. TypeOK'
  <2>1. armed' \in 0..2
    BY <1>6, <1>9
  <2>2. handled' \in Seq(Msgs \cup {Rubbish})
    <3>1. m \in Msgs \cup {Rubbish}
      BY <1>4
    <3> QED
      BY <1>1, <3>1
  <2>3. owed' \in Seq(Msgs) /\ replies' \in Seq([for : Msgs, to : {Sender[x] : x \in Msgs} \cup {None}])
    <3>1. m # Rubbish => m \in Msgs
      BY <1>4
    <3>2. m # Rubbish => [for |-> m, to |-> remote] \in [for : Msgs, to : {Sender[x] : x \in Msgs} \cup {None}]
      BY <3>1 DEF IInv, TypeOK
    <3>3. replies \in Seq([for : Msgs, to : {Sender[x] : x \in Msgs} \cup {None}])
      BY DEF IInv, TypeOK
    <3>4. CASE m = Rubbish
      BY <1>1, <1>3, <3>3, <3>4
    <3>5. CASE m # Rubbish
      <4>1. owed' \in {owed, Append(owed, m)}
            /\ replies' \in {replies, Append(replies, [for |-> m, to |-> remote])}
        BY <1>3, <3>5
      <4>2. Append(owed, m) \in Seq(Msgs)
        BY <1>1, <3>1, <3>5
      <4>3. Append(replies, [for |-> m, to |-> remote])
              \in Seq([for : Msgs, to : {Sender[x] : x \in Msgs} \cup {None}])
        BY <3>2, <3>3, <3>5
      <4> QED
        BY <1>1, <3>3, <4>1, <4>2, <4>3
    <3> QED
      BY <3>4, <3>5
  <2>4. buffer' \in Msgs \cup {None} /\ remote' \in {Sender[x] : x \in Msgs} \cup {None}
    BY <1>5, SMTT(60) DEF IInv, TypeOK, Effect
  <2> QED
    BY <1>1, <1>5, <2>1, <2>2, <2>3, <2>4 DEF IInv, TypeOK, Effect
<1>12. LastReceived'
  <2>1. \A i \in 1..Len(rest) : i + 1 \in 1..Len(done)
    BY <1>2, <1>6
  <2> QED
    BY <1>2, <1>5, <2>1, EffectLast DEF IInv
<1>13. NeverOlder'
  <2>1. SUFFICES ASSUME errors = 0, NEW i \in 1..h + 1, handled'[i] # Rubbish
                 PROVE  \E j \in i..Len(got') : handled'[i] = got'[j]
    BY <1>1, <1>6 DEF NeverOlder
  <2>2. \A j \in 1..g : j \in 1..Len(got') /\ got'[j] = got[j]
    BY <1>5, <1>6, SMTT(60) DEF Effect
  <2>3. CASE i \in 1..h
    <3>1. handled'[i] = handled[i]
      BY <1>1, <1>6, <2>3
    <3>2. PICK j \in i..g : handled[i] = got[j]
      BY <1>6, <2>1, <2>3, <3>1 DEF IInv, NeverOlder
    <3> QED
      BY <1>6, <2>2, <3>1, <3>2
  <2>4. CASE i = h + 1
    <3>1. handled'[i] = m
      BY <1>1, <1>6, <2>4
    <3>2. i \in 1..g /\ g \in i..g
      BY <1>6, <1>8, <2>1, <2>4
    <3> QED
      BY <1>4, <1>6, <2>1, <2>2, <3>1, <3>2
  <2> QED
    BY <2>3, <2>4
<1>14. Alone' /\ AloneIsRight'
  <2> SUFFICES ASSUME ~crowded, errors = 0
               PROVE  Alone' /\ AloneIsRight'
    BY <1>1 DEF Alone, AloneIsRight
  <2>1. PICK k \in Nat, o \in Nat : k = Len(socket) /\ o = Len(owed)
    BY <1>1
  <2>2. k = 0 /\ o = 0 /\ l = 0 /\ n = 0
    <3>1. k + (l + 1) + o <= 1
      BY <1>2, <1>6, <2>1 DEF IInv, Alone
    <3> QED
      BY <1>5, <1>6, <2>1, <3>1
  <2>3. m = buffer
    <3>1. c.ok /\ c.bytes = Size[buffer]
      BY <1>1, <1>2 DEF IInv, Alone
    <3> QED
      BY <3>1 DEF m, Seen
  <2>4. Len(socket') = 0 /\ Len(done') = 0 /\ buffer' = buffer /\ remote' = remote
        /\ Len(got') = g /\ \A i \in 1..g : got'[i] = got[i]
    BY <1>5, <1>6, <2>1, <2>2 DEF Effect
  <2>5. socket' = <<>> /\ done' = <<>> /\ owed = <<>>
    <3>1. socket' \in Seq(Msgs) /\ done' \in Seq(Completion)
      BY <1>11 DEF TypeOK
    <3> QED
      BY <1>1, <2>1, <2>2, <2>4, <3>1, EmptySeq
  <2>6. Alone'
    <3>1. owed' \in {<<>>, <<m>>}
      BY <1>3, <2>5
    <3>2. Len(owed') <= 1 /\ (owed' # <<>> => owed'[1] = m)
      BY <3>1
    <3>3. Len(socket') + Len(done') + Len(owed') <= 1
      <4>1. Len(owed') \in Nat /\ Len(socket') = 0 /\ Len(done') = 0
        BY <2>4, <3>1
      <4> QED
        BY <3>2, <4>1
    <3> QED
      BY <2>3, <2>4, <2>5, <3>2, <3>3 DEF Alone
  <2>7. \A i \in 1..Len(handled') : handled'[i] = got'[i]
    <3>1. h + 1 = g
      BY <1>8, <1>6, <2>2
    <3>2. \A i \in 1..h : handled[i] = got[i]
      BY <1>6 DEF IInv, AloneIsRight
    <3>3. Len(handled') = h + 1 /\ handled'[h + 1] = m /\ \A i \in 1..h : handled'[i] = handled[i]
      BY <1>1, <1>6
    <3>4. m # Rubbish => handled'[g] = got[g]
      BY <1>4, <1>6, <3>1, <3>3
    <3>5. buffer \in Msgs
      BY <1>6, <1>4, <2>3, <3>1 DEF IInv, LastReceived, TypeOK
    <3>6. m # Rubbish
      BY <2>3, <3>5, UdpAssumption
    <3>7. \A i \in 1..h + 1 : i \in 1..g /\ (i \in 1..h \/ i = g)
      BY <3>1
    <3> QED
      BY <2>4, <3>2, <3>3, <3>4, <3>6, <3>7
  <2>8. \A i \in 1..Len(replies') : replies'[i].to = Sender[replies'[i].for]
    <3>1. \A i \in 1..Len(replies) : replies[i].to = Sender[replies[i].for]
      BY DEF IInv, AloneIsRight
    <3>2. replies \in Seq([for : Msgs, to : {Sender[x] : x \in Msgs} \cup {None}])
      BY DEF IInv, TypeOK
    <3>3. CASE replies' = replies
      BY <3>1, <3>3
    <3>4. CASE m # Rubbish /\ replies' = Append(replies, [for |-> m, to |-> remote])
      <4>1. remote = Sender[m]
        BY <1>4, <2>3, <3>4 DEF IInv, LastReceived
      <4> QED
        BY <3>1, <3>2, <3>4, <4>1, RepliesGrow
    <3> QED
      BY <1>3, <3>3, <3>4
  <2> QED
    BY <1>1, <2>6, <2>7, <2>8 DEF AloneIsRight
<1> QED
  BY <1>10, <1>11, <1>12, <1>13, <1>14 DEF IInv

-----------------------------------------------------------------------------
(* The invariant is inductive: however requests overlap and receives fail. *)
THEOREM Invariance == Spec => []IInv
<1>1. ASSUME IInv, [Next]_vars PROVE IInv'
  <2>1. CASE \E m \in Msgs : Arrive(m)
    BY <1>1, <2>1, ArriveStep
  <2>2. CASE Start
    BY <1>1, <2>2, StartStep
  <2>3. CASE Ready
    BY <1>1, <2>3, ReadyStep
  <2>4. CASE HandleReceive
    BY <1>1, <2>4, HandleStep
  <2>5. CASE Fail
    BY <1>1, <2>5, FailStep
  <2>6. CASE Reply
    BY <1>1, <2>6, ReplyStep
  <2>7. CASE UNCHANGED vars
    BY <1>1, <2>7
    DEF vars, server, history, IInv, TypeOK, Receives, Failures, FailedAt, LastReceived,
        NeverOlder, Alone, AloneIsRight
  <2> QED
    BY <1>1, <2>1, <2>2, <2>3, <2>4, <2>5, <2>6, <2>7 DEF Next
<1> QED
  BY <1>1, InitIInv, PTL DEF Spec

(* The variables keep their types.                                         *)
THEOREM TypeCorrect == Spec => []TypeOK
<1>1. IInv => TypeOK
  BY DEF IInv
<1> QED
  BY <1>1, Invariance, PTL

(* The server neither leaks nor multiplies its two receives                *)
(* (start_receive, handle_receive).                                        *)
THEOREM ReceivesAccounted == Spec => []TwoReceives
<1>1. IInv => TwoReceives
  <2> SUFFICES ASSUME IInv PROVE TwoReceives
    OBVIOUS
  <2>1. done \in Seq(Completion) /\ Len(done) <= 2
    BY DEF IInv, TypeOK, Receives
  <2>2. Cardinality({i \in 1..Len(done) : ~done[i].ok}) = Failures(done)
    BY <2>1, FailuresCounted
  <2>3. HandledFailures = errors - Failures(done)
    BY <2>2 DEF HandledFailures
  <2>4. PICK s \in Nat, a \in Nat, l \in Nat, e \in Nat, f \in Nat :
          s = starting /\ a = armed /\ l = Len(done) /\ e = errors /\ f = Failures(done)
    <3>1. starting \in Nat /\ armed \in Nat /\ errors \in Nat
      BY UdpAssumption DEF IInv, TypeOK
    <3>2. Len(done) \in Nat /\ Failures(done) \in Nat
      BY <2>1 DEF Failures, FailedAt
    <3> QED
      BY <3>1, <3>2
  <2>5. s + a + l + e - f = 2
    BY <2>4 DEF IInv, Receives
  <2>6. s + a + l + (e - f) = 2
    BY <2>5
  <2> QED
    BY <2>3, <2>4, <2>6 DEF IInv, Receives, TwoReceives
<1> QED
  BY <1>1, Invariance, PTL

(* A handler is never given a request older than its own datagram, as long *)
(* as no receive fails.                                                    *)
THEOREM HandledNeverOlder == Spec => []NeverOlder
<1>1. IInv => NeverOlder
  BY DEF IInv
<1> QED
  BY <1>1, Invariance, PTL

(* Requests that do not overlap are handled in their order and answered to *)
(* their senders.                                                          *)
THEOREM ServedRightAlone == Spec => []AloneIsRight
<1>1. IInv => AloneIsRight
  BY DEF IInv
<1> QED
  BY <1>1, Invariance, PTL
=============================================================================
