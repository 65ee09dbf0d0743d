--------------------------- MODULE IpfsPump_proofs ---------------------------
(***************************************************************************)
(* Proofs about the ipfs learner, for any blocks, resources, announcements *)
(* and faults.                                                             *)
(***************************************************************************)
EXTENDS IpfsPump, SequenceTheorems, TLAPS

USE DEF vars, net, relays, mailbox, fields, pumps, perBlock, history

(* Between the two critical sections the mailbox holds a task, unless a    *)
(* block was taken meanwhile.                                              *)
Tasks ==
  /\ relay # "idle" => relayMsg.task = App
  /\ ~split /\ relay = "block" => gTask # None
  /\ TaskLostOnlyBySplit

(* What was learnt and what is left make up the block in hand.             *)
Divided ==
  /\ Len(learnt) + Len(resoureCIDs) = Len(Take(blockCID))
  /\ \A i \in 1..Len(resoureCIDs) : resoureCIDs[i] = Take(blockCID)[i]
  /\ \A i \in 1..Len(learnt) : learnt[i] = Take(blockCID)[Len(Take(blockCID)) + 1 - i]

InHand ==
  /\ pump = "fetching" => ~isRunBlock
  /\ isRunBlock \/ resoureCIDs # <<>> => blockCID # None
  /\ isRunBlock => learnt # <<>>
  /\ blockCID # None => Divided

(* A report is owed for the block in hand, and only for that.              *)
Owed(b) == IF blockCID = b /\ (isRunBlock \/ resoureCIDs # <<>>) THEN 1 ELSE 0
Balance == \A b \in Blocks : finishes[b] + Owed(b) <= takes[b]

(* With a publisher that was there from the start only the word list of    *)
(* the resource in hand is still to be published.                          *)
Results ==
  upAtTake =>
    /\ publisher = "up"
    /\ \A i \in 1..Len(learnt) : learnt[i] \in HasWords =>
         learnt[i] \in published \cup missed \/ (pump = "learning" /\ content = learnt[i])

IInv == TypeOK /\ Tasks /\ InHand /\ Balance /\ Results

-----------------------------------------------------------------------------
(* What is taken of a block is the beginning of its resources.             *)
LEMMA TakeTyped ==
  ASSUME NEW b \in Blocks
  PROVE  Take(b) \in Seq(AllResources) /\ Len(Take(b)) <= ResourceMax
<1> DEFINE n == IF Len(Resources[b]) < ResourceMax THEN Len(Resources[b]) ELSE ResourceMax
<1>1. Resources[b] \in Seq(AllResources) /\ ResourceMax \in Nat
  BY PumpAssumption
<1>2. n \in Nat /\ n <= Len(Resources[b]) /\ n <= ResourceMax
  BY <1>1
<1> HIDE DEF n
<1>3. SubSeq(Resources[b], 1, n) \in Seq(AllResources) /\ Len(SubSeq(Resources[b], 1, n)) = n
  BY <1>1, <1>2
<1> QED
  BY <1>2, <1>3 DEF Take, n

(* Taking the last resource off the list.                                  *)
LEMMA Popped ==
  ASSUME NEW R, NEW r \in Seq(R), r # <<>>
  PROVE  /\ Len(r) \in Nat \ {0} /\ r[Len(r)] \in R
         /\ SubSeq(r, 1, Len(r) - 1) \in Seq(R)
         /\ Len(SubSeq(r, 1, Len(r) - 1)) = Len(r) - 1
         /\ \A i \in 1..Len(r) - 1 : SubSeq(r, 1, Len(r) - 1)[i] = r[i]
<1>1. Len(r) \in Nat \ {0}
  BY EmptySeq
<1>2. PICK k \in Nat \ {0} : k = Len(r)
  BY <1>1
<1> DEFINE n == k - 1
<1>3. n \in Nat /\ n <= k /\ n = Len(r) - 1
  BY <1>2
<1> HIDE DEF n
<1>4. SubSeq(r, 1, n) \in Seq(R) /\ Len(SubSeq(r, 1, n)) = n /\ \A i \in 1..n : SubSeq(r, 1, n)[i] = r[i]
  BY <1>2, <1>3
<1>5. r[Len(r)] \in R
  BY <1>1
<1> QED
  BY <1>1, <1>3, <1>4, <1>5

LEMMA InitIInv == Init => IInv
<1> SUFFICES ASSUME Init PROVE IInv
  OBVIOUS
<1>1. TypeOK
  <2>1. 0 \in 0..MaxFaults /\ ResourceMax \in Nat /\ 0 <= ResourceMax
    BY PumpAssumption
  <2>2. /\ <<>> \in Seq(Announcements) /\ <<>> \in Seq(AllResources) /\ Len(<<>>) = 0
    OBVIOUS
  <2>3. [b \in Blocks |-> 0] \in [Blocks -> Nat]
    OBVIOUS
  <2> QED
    BY <2>1, <2>2, <2>3 DEF Init, TypeOK
<1>2. Tasks /\ InHand /\ Results
  BY DEF Init, Tasks, TaskLostOnlyBySplit, InHand, Results
<1>3. Balance
  BY PumpAssumption DEF Init, Balance, Owed
<1> QED
  BY <1>1, <1>2, <1>3 DEF IInv

-----------------------------------------------------------------------------
(* Every step keeps the types.                                             *)
LEMMA TypeStep ==
  ASSUME IInv, [Next]_vars
  PROVE  TypeOK'
<1> USE PumpAssumption DEF IInv
<1>1. ASSUME NEW m \in Announcements, Announce(m) PROVE TypeOK'
  BY <1>1 DEF TypeOK, Announce
<1>2. ASSUME Fault PROVE faults' \in 0..MaxFaults
  BY <1>2 DEF TypeOK, Fault
<1>3. CASE Subscribe
  BY <1>2, <1>3 DEF TypeOK, Subscribe
<1>4. CASE ConnectPublisher
  BY <1>2, <1>4 DEF TypeOK, ConnectPublisher
<1>5. CASE ConnectionLost
  BY <1>2, <1>5 DEF TypeOK, ConnectionLost
<1>6. CASE OnMessage
  BY <1>6 DEF TypeOK, OnMessage
<1>7. CASE StoreTask
  BY <1>7 DEF TypeOK, Tasks, StoreTask
<1>8. CASE StoreBlock
  BY <1>8 DEF TypeOK, StoreBlock, Unlocked
<1>9. CASE FinishBlock
  <2>1. blockCID \in Blocks
    BY <1>9 DEF TypeOK, InHand, FinishBlock
  <2>2. finishes' \in [Blocks -> Nat]
    BY <1>9, <2>1 DEF TypeOK, FinishBlock
  <2> QED
    BY <1>9, <2>2 DEF TypeOK, FinishBlock
<1>10. CASE LockBlock
  BY <1>10 DEF TypeOK, LockBlock
<1>11. CASE FetchBlock
  <2>1. gBlockCID \in Blocks
    BY <1>11 DEF TypeOK, FetchBlock
  <2>2. resoureCIDs' \in Seq(AllResources) /\ Len(resoureCIDs') <= ResourceMax
    BY <1>11, <2>1, TakeTyped DEF FetchBlock
  <2>3. takes' \in [Blocks -> Nat] /\ group' \in {Group[b] : b \in Blocks} \cup {None}
    BY <1>11, <2>1 DEF TypeOK, FetchBlock
  <2> QED
    BY <1>11, <2>1, <2>2, <2>3 DEF TypeOK, FetchBlock
<1>12. CASE FetchResource
  <2>1. /\ resoureCIDs[Len(resoureCIDs)] \in AllResources
        /\ resoureCIDs' \in Seq(AllResources) /\ Len(resoureCIDs') <= ResourceMax
    BY <1>12, Popped DEF TypeOK, FetchResource
  <2>2. learnt' \in Seq(AllResources)
    BY <1>12, <2>1 DEF TypeOK, FetchResource
  <2> QED
    BY <1>2, <1>12, <2>1, <2>2 DEF TypeOK, FetchResource
<1>13. CASE CommitArticle
  BY <1>13 DEF TypeOK, CommitArticle
<1>14. CASE FetchBlockFails
  BY <1>2, <1>14 DEF TypeOK, FetchBlockFails
<1>15. CASE CommitRace
  BY <1>15 DEF TypeOK, CommitRace
<1>16. CASE UNCHANGED vars
  BY <1>16 DEF TypeOK
<1> QED
  BY <1>1, <1>3, <1>4, <1>5, <1>6, <1>7, <1>8, <1>9, <1>10, <1>11, <1>12, <1>13, <1>14, <1>15,
     <1>16
  DEF Next, Relay, Pump
-----------------------------------------------------------------------------
LEMMA TasksStep ==
  ASSUME IInv, [Next]_vars
  PROVE  Tasks'
<1> USE PumpAssumption DEF IInv
<1>1. CASE OnMessage
  BY <1>1 DEF Tasks, TaskLostOnlyBySplit, OnMessage
<1>2. CASE StoreTask
  BY <1>2 DEF Tasks, TaskLostOnlyBySplit, StoreTask
<1>3. CASE StoreBlock
  BY <1>3 DEF Tasks, TaskLostOnlyBySplit, StoreBlock
<1>4. CASE FetchBlock
  BY <1>4 DEF Tasks, TaskLostOnlyBySplit, FetchBlock, TypeOK
<1>5. CASE UNCHANGED <<relays, mailbox, blockCID, task, split>>
  BY <1>5 DEF Tasks, TaskLostOnlyBySplit
<1> QED
  BY <1>1, <1>2, <1>3, <1>4, <1>5
  DEF Next, Relay, Pump, Announce, Subscribe, ConnectPublisher, ConnectionLost, FinishBlock,
      LockBlock, FetchResource, CommitArticle, FetchBlockFails, CommitRace

LEMMA InHandStep ==
  ASSUME IInv, [Next]_vars
  PROVE  InHand'
<1> USE DEF IInv
<1>1. CASE FetchBlock
  <2>1. gBlockCID \in Blocks /\ ~isRunBlock /\ ~isRunBlock'
    BY <1>1 DEF TypeOK, InHand, FetchBlock
  <2>2. blockCID' \in Blocks /\ resoureCIDs' = Take(blockCID') /\ learnt' = <<>>
    BY <1>1, <2>1 DEF FetchBlock
  <2>3. Take(blockCID') \in Seq(AllResources)
    BY <2>2, TakeTyped
  <2>4. Divided'
    BY <2>2, <2>3 DEF Divided
  <2> QED
    BY <1>1, <2>1, <2>2, <2>4, PumpAssumption DEF InHand, FetchBlock
<1>2. CASE FetchResource
  <2>1. /\ resoureCIDs \in Seq(AllResources) /\ resoureCIDs # <<>> /\ learnt \in Seq(AllResources)
        /\ blockCID' = blockCID /\ blockCID # None /\ Divided /\ blockCID \in Blocks
        /\ learnt' = Append(learnt, resoureCIDs[Len(resoureCIDs)])
        /\ resoureCIDs' = SubSeq(resoureCIDs, 1, Len(resoureCIDs) - 1)
    BY <1>2 DEF TypeOK, InHand, FetchResource
  <2> DEFINE b == blockCID
             t == Take(b)
  <2>2. PICK k \in Nat, l \in Nat, n \in Nat :
          k = Len(resoureCIDs) /\ l = Len(learnt) /\ n = Len(t) /\ k # 0
    BY <2>1, TakeTyped, Popped
  <2> HIDE DEF t
  <2>3. l + k = n /\ \A i \in 1..k : resoureCIDs[i] = t[i]
    BY <2>1, <2>2 DEF Divided, t
  <2>4. \A i \in 1..l : learnt[i] = t[n + 1 - i]
    BY <2>1, <2>2 DEF Divided, t
  <2>5. Len(learnt') = l + 1 /\ learnt'[l + 1] = resoureCIDs[k] /\ \A i \in 1..l : learnt'[i] = learnt[i]
    BY <2>1, <2>2
  <2>6. Len(resoureCIDs') = k - 1 /\ \A i \in 1..k - 1 : resoureCIDs'[i] = resoureCIDs[i]
    BY <2>1, <2>2, Popped
  <2>7. n + 1 - (l + 1) = k /\ k \in 1..k /\ (l + 1) + (k - 1) = n
    BY <2>2, <2>3
  <2>8. learnt'[l + 1] = t[n + 1 - (l + 1)]
    BY <2>3, <2>5, <2>7
  <2>9. \A i \in 1..l + 1 : i \in 1..l \/ i = l + 1
    BY <2>2
  <2>10. \A i \in 1..l + 1 : learnt'[i] = t[n + 1 - i]
    BY <2>4, <2>5, <2>8, <2>9
  <2>11. \A i \in 1..k - 1 : i \in 1..k
    BY <2>2
  <2>12. Divided'
    BY <2>1, <2>2, <2>3, <2>5, <2>6, <2>7, <2>10, <2>11, ZenonT(60) DEF Divided, t, Take
  <2>13. learnt' # <<>>
    BY <2>1
  <2> QED
    BY <1>2, <2>1, <2>12, <2>13 DEF InHand, FetchResource
<1>3. CASE FinishBlock
  BY <1>3 DEF InHand, Divided, Take, FinishBlock
<1>4. CASE LockBlock
  BY <1>4 DEF InHand, Divided, Take, LockBlock
<1>5. CASE CommitArticle
  BY <1>5 DEF InHand, Divided, Take, CommitArticle
<1>6. CASE UNCHANGED <<fields, pumps, learnt>>
  BY <1>6 DEF InHand, Divided, Take
<1> QED
  BY <1>1, <1>2, <1>3, <1>4, <1>5, <1>6
  DEF Next, Relay, Pump, Announce, Subscribe, ConnectPublisher, ConnectionLost,
      OnMessage, StoreTask, StoreBlock, FetchBlockFails, CommitRace

LEMMA BalanceStep ==
  ASSUME IInv, [Next]_vars
  PROVE  Balance'
<1> USE DEF IInv
<1>1. finishes \in [Blocks -> Nat] /\ takes \in [Blocks -> Nat]
  BY DEF TypeOK
<1>2. CASE FinishBlock
  <2>1. SUFFICES ASSUME NEW b \in Blocks
                 PROVE  finishes'[b] + Owed(b)' <= takes'[b]
    BY DEF Balance
  <2>2. finishes[b] + Owed(b) <= takes[b] /\ takes' = takes /\ Owed(b)' = 0
    BY <1>2 DEF Balance, Owed, FinishBlock
  <2>3. finishes'[b] <= finishes[b] + Owed(b) /\ finishes'[b] \in Nat
    BY <1>1, <1>2 DEF Owed, FinishBlock
  <2>4. finishes[b] \in Nat /\ takes[b] \in Nat /\ Owed(b) \in Nat
    BY <1>1 DEF Owed
  <2> QED
    BY <2>2, <2>3, <2>4
<1>3. CASE FetchBlock
  <2>1. SUFFICES ASSUME NEW b \in Blocks
                 PROVE  finishes'[b] + Owed(b)' <= takes'[b]
    BY DEF Balance
  <2>2. finishes[b] + Owed(b) <= takes[b] /\ finishes' = finishes /\ Owed(b) \in 0..1
    BY <1>3 DEF Balance, Owed, FetchBlock
  <2>3. finishes[b] \in Nat /\ takes[b] \in Nat
    BY <1>1
  <2>4. CASE b = gBlockCID
    <3>1. takes'[b] = takes[b] + 1 /\ Owed(b)' \in 0..1
      BY <1>1, <1>3, <2>4 DEF FetchBlock, Owed
    <3> QED
      BY <2>2, <2>3, <3>1
  <2>5. CASE b # gBlockCID
    <3>1. takes'[b] = takes[b] /\ Owed(b)' = 0
      BY <1>1, <1>3, <2>5 DEF FetchBlock, Owed
    <3> QED
      BY <2>2, <2>3, <3>1
  <2> QED
    BY <2>4, <2>5
<1>4. CASE FetchResource
  <2>1. \A b \in Blocks : Owed(b)' = Owed(b)
    BY <1>4 DEF FetchResource, Owed
  <2> QED
    BY <1>4, <2>1 DEF Balance, FetchResource
<1>5. CASE UNCHANGED <<fields, finishes, takes>>
  BY <1>5 DEF Balance, Owed
<1> QED
  BY <1>2, <1>3, <1>4, <1>5
  DEF Next, Relay, Pump, Announce, Subscribe, ConnectPublisher, ConnectionLost,
      OnMessage, StoreTask, StoreBlock, LockBlock, CommitArticle, FetchBlockFails, CommitRace

LEMMA ResultsStep ==
  ASSUME IInv, [Next]_vars
  PROVE  Results'
<1> USE DEF IInv
<1>1. CASE FetchBlock
  <2>1. publisher' = publisher /\ learnt' = <<>> /\ upAtTake' = (publisher = "up")
    BY <1>1 DEF FetchBlock
  <2>2. upAtTake' => publisher' = "up"
    BY <2>1
  <2> QED
    BY <2>1, <2>2 DEF Results
<1>2. CASE FetchResource
  <2>1. SUFFICES ASSUME upAtTake
                 PROVE  /\ publisher' = "up"
                        /\ \A i \in 1..Len(learnt') : learnt'[i] \in HasWords =>
                             learnt'[i] \in published' \cup missed' \/ content' = learnt'[i]
    BY <1>2 DEF Results, FetchResource
  <2>2. PICK l, r :
          l \in Nat /\ l = Len(learnt) /\ learnt' = Append(learnt, r)
          /\ (content' = r \/ missed' = missed \cup {r}) /\ missed \subseteq missed'
          /\ published' = published /\ publisher' = publisher
    <3>1. Len(learnt) \in Nat
      BY DEF TypeOK
    <3> QED
      BY <1>2, <3>1 DEF FetchResource
  <2>3. \A i \in 1..Len(learnt) : learnt[i] \in HasWords => learnt[i] \in published \cup missed
    BY <1>2, <2>1 DEF Results, FetchResource
  <2>4. /\ Len(learnt') = l + 1 /\ learnt'[l + 1] = r
        /\ \A i \in 1..l : learnt'[i] = learnt[i]
    BY <2>2 DEF TypeOK
  <2>5. \A i \in 1..l + 1 : i \in 1..l \/ i = l + 1
    BY <2>2
  <2> QED
    BY <2>1, <2>2, <2>3, <2>4, <2>5 DEF Results
<1>3. CASE CommitArticle
  BY <1>3 DEF Results, CommitArticle
<1>4. CASE FinishBlock \/ LockBlock
  BY <1>4 DEF Results, FinishBlock, LockBlock
<1>5. CASE ConnectPublisher
  BY <1>5 DEF Results, ConnectPublisher
<1>6. CASE UNCHANGED <<pumps, publisher, learnt, perBlock>>
  BY <1>6 DEF Results
<1> QED
  BY <1>1, <1>2, <1>3, <1>4, <1>5, <1>6
  DEF Next, Relay, Pump, Announce, Subscribe, ConnectionLost,
      OnMessage, StoreTask, StoreBlock, FetchBlockFails, CommitRace

(* The invariant is inductive.                                             *)
THEOREM Invariance == Spec => []IInv
<1>1. IInv /\ [Next]_vars => IInv'
  BY TypeStep, TasksStep, InHandStep, BalanceStep, ResultsStep DEF IInv
<1> QED
  BY <1>1, InitIInv, PTL DEF Spec

(* The variables keep their types.                                         *)
THEOREM TypeCorrect == Spec => []TypeOK
<1>1. IInv => TypeOK
  BY DEF IInv
<1> QED
  BY <1>1, Invariance, PTL

(* A block is reported at most once each time it is taken (isRunBlock_).   *)
THEOREM ReportedOncePerTake == Spec => []FinishedOncePerTake
<1>1. IInv => FinishedOncePerTake
  <2>1. SUFFICES ASSUME IInv, NEW b \in Blocks PROVE finishes[b] <= takes[b]
    BY DEF FinishedOncePerTake
  <2>2. finishes[b] \in Nat /\ takes[b] \in Nat /\ Owed(b) \in Nat
    BY <2>1 DEF IInv, TypeOK, Owed
  <2>3. finishes[b] + Owed(b) <= takes[b]
    BY <2>1 DEF IInv, Balance
  <2> QED
    BY <2>2, <2>3
<1> QED
  BY <1>1, Invariance, PTL

(* A task is only lost when a block is taken between the two critical      *)
(* sections of onMessage.                                                  *)
THEOREM TaskKept == Spec => []TaskLostOnlyBySplit
<1>1. IInv => TaskLostOnlyBySplit
  BY DEF IInv, Tasks
<1> QED
  BY <1>1, Invariance, PTL

(* Only FinishBlock reports, with nothing of the block left.               *)
LEMMA ReportStep ==
  ASSUME IInv, [Next]_vars, finishes' # finishes
  PROVE  /\ FinishBlock /\ blockCID # None /\ blockCID \in Blocks
         /\ Len(learnt) = Len(Take(blockCID)) /\ Len(learnt) > 0 /\ Divided
<1>1. FinishBlock
  BY DEF Next, Relay, Pump, Announce, Subscribe, ConnectPublisher, ConnectionLost, OnMessage,
         StoreTask, StoreBlock, LockBlock, FetchBlock, FetchResource, CommitArticle, FetchBlockFails, CommitRace
<1>2. blockCID # None /\ blockCID \in Blocks /\ Divided /\ learnt # <<>> /\ resoureCIDs = <<>>
      /\ learnt \in Seq(AllResources)
  BY <1>1 DEF IInv, TypeOK, InHand, FinishBlock
<1>3. Len(learnt) \in Nat \ {0}
  BY <1>2, EmptySeq
<1>4. Len(learnt) = Len(Take(blockCID))
  BY <1>2, <1>3 DEF Divided
<1> QED
  BY <1>1, <1>2, <1>3, <1>4

(* A report says what was done: every resource taken of the block has been *)
(* learnt, once and the last one first.                                    *)
THEOREM ReportMeansDone == Spec => FinishMeansDone
<1> DEFINE Done == finishes' # finishes =>
                     LET n == Len(learnt)
                     IN /\ n = Len(Take(blockCID)) /\ n > 0
                        /\ \A i \in 1..n : learnt[i] = Take(blockCID)[n + 1 - i]
<1>1. ASSUME IInv, [Next]_vars PROVE Done
  BY <1>1, ReportStep DEF Divided
<1> QED
  BY <1>1, Invariance, PTL DEF Spec, FinishMeansDone

(* The word lists of a block are published before its report.              *)
THEOREM PublishedBeforeReport == Spec => ResultsBeforeReport
<1> DEFINE Published == finishes' # finishes /\ upAtTake =>
                          \A i \in 1..Len(learnt) :
                            learnt[i] \in HasWords => learnt[i] \in published \cup missed
<1>1. ASSUME IInv, [Next]_vars PROVE Published
  BY <1>1, ReportStep DEF IInv, Results, FinishBlock
<1> QED
  BY <1>1, Invariance, PTL DEF Spec, ResultsBeforeReport
=============================================================================
