------------------------ MODULE TrainService_proofs ------------------------
(***************************************************************************)
(* Proofs about TrainService, for any articles, workers, languages, cache  *)
(* size and number of crashes.                                             *)
(***************************************************************************)
EXTENDS TrainService, FiniteSetTheorems, WellFoundedInduction, TLAPS

USE DEF vars, dbs, threads, saver, workers, network, counters, history

(* An upload names an article and one of its chunks.                       *)
LEMMA UploadShape ==
  ASSUME NEW m \in Uploads
  PROVE  /\ m.url \in Urls
         /\ m = [url |-> m.url, chunk |-> m.chunk]
         /\ m.chunk \in 1..Len(Article[m.url])
         /\ Counts(m) \in [Words -> Nat]
BY TrainAssumption, SMTT(60) DEF Uploads, Counts

(* Each chunk of an article is an upload.                                  *)
LEMMA UploadOf ==
  ASSUME NEW u \in Urls, NEW c \in 1..Len(Article[u])
  PROVE  [url |-> u, chunk |-> c] \in Uploads
BY DEF Uploads

(* The bounds are numbers, and so is the length of an article.             *)
LEMMA Bounds ==
  /\ Len(Langs) \in Nat
  /\ MaxFaults \in Nat /\ MaxCrashes \in Nat
  /\ MaxInFlight \in Nat /\ MaxInFlight > 0 /\ MaxSaves \in Nat
  /\ None \notin Urls
  /\ \A u \in Urls : LangOf[u] \in LangSet /\ Len(Article[u]) \in Nat
BY TrainAssumption

(* gets() returns entries of the database it reads.                        *)
LEMMA GetsSubset ==
  ASSUME NEW S, NEW max PROVE Gets(S, max) \subseteq S
BY DEF Gets

(* START_DB makes and opens at least one storage, and those of a language  *)
(* are among them.                                                         *)
LEMMA Places ==
  /\ Storages \in Nat /\ Storages > 0
  /\ \A l \in LangSet : {DoneAt(l), TodoAt(l), DictAt(l)} \subseteq 1..Storages
<1>1. Len(Langs) \in Nat /\ Len(Langs) > 0
  BY TrainAssumption
<1>2. ASSUME NEW l \in LangSet PROVE IndexOf(l) \in 1..Len(Langs)
  BY DEF LangSet, IndexOf
<1>3. ASSUME NEW l \in LangSet PROVE {DoneAt(l), TodoAt(l), DictAt(l)} \subseteq 1..Storages
  <2>1. PICK i \in 1..Len(Langs) : i = IndexOf(l)
    BY <1>2
  <2>2. {2 * i - 1, 2 * i, 2 * Len(Langs) + i} \subseteq 1..(3 * Len(Langs))
    BY <1>1
  <2> QED
    BY <2>1, <2>2 DEF DoneAt, TodoAt, DictAt, Storages
<1> QED
  BY <1>1, <1>3 DEF Storages

(* The language of the upload that is handled is one of the languages.     *)
LEMMA SaveLangIn ==
  ASSUME TypeOK, savePc # "idle"
  PROVE  /\ SaveLang \in LangSet /\ saveMsg \in Uploads
         /\ {DoneAt(SaveLang), TodoAt(SaveLang), DictAt(SaveLang)} \subseteq 1..Storages
<1>1. saveMsg \in Uploads
  BY DEF TypeOK
<1>2. SaveLang \in LangSet
  BY <1>1, UploadShape, Bounds DEF SaveLang
<1> QED
  BY <1>1, <1>2, Places

(* An upload meets a storage that is made and not open only while START_DB *)
(* opens them, and after a crash.                                          *)
LEMMA Window ==
  ASSUME TypeOK, Opened, Fresh, savePc # "idle", NEW s \in 1..Storages, Made(s), ~Open(s)
  PROVE  crashes # 0 /\ collector = "opening"
<1>1. Storages \in Nat /\ ready \in Nat
  BY Places DEF TypeOK
<1>2. ready < 2 * Storages /\ ready # 0
  BY <1>1 DEF Made, Open
<1> QED
  BY <1>2 DEF Opened, Fresh

(* putWord changes one count, which stays a number.                        *)
LEMMA OneCount ==
  ASSUME dict \in [LangSet -> [Words -> Nat]], NEW k \in LangSet, NEW w \in Words, NEW c \in Nat,
         dict' = [dict EXCEPT ![k][w] = @ + c] \/ dict' = dict
  PROVE  /\ dict' \in [LangSet -> [Words -> Nat]]
         /\ \A l \in LangSet, x \in Words : l # k \/ x # w => dict'[l][x] = dict[l][x]
<1> DEFINE row == [dict[k] EXCEPT ![w] = dict[k][w] + c]
<1>1. dict[k] \in [Words -> Nat] /\ dict[k][w] + c \in Nat
  OBVIOUS
<1>2. row \in [Words -> Nat] /\ \A x \in Words : x # w => row[x] = dict[k][x]
  BY <1>1
<1>3. CASE dict' = [dict EXCEPT ![k][w] = @ + c]
  <2>1. dict' = [dict EXCEPT ![k] = row]
    BY <1>3
  <2>2. dict'[k] = row /\ \A l \in LangSet : l # k => dict'[l] = dict[l]
    BY <2>1
  <2> HIDE DEF row
  <2> QED
    BY <1>2, <2>1, <2>2
<1>4. CASE dict' = dict
  BY <1>4
<1> QED
  BY <1>3, <1>4

(* Every step keeps the types. *)
LEMMA TypeStep ==
  ASSUME TypeOK, Opened, [Next]_vars PROVE TypeOK'
<1> USE DEF TypeOK
<1>1. ASSUME StartDB PROVE TypeOK'
  <2>1. ready + 1 \in 0..(2 * Storages)
    BY <1>1, Places DEF StartDB, Opened
  <2> QED
    BY <1>1, <2>1 DEF StartDB
<1>2. ASSUME FindNothing PROVE TypeOK'
  BY <1>2 DEF FindNothing
<1>3. ASSUME FindTodo PROVE TypeOK'
  <2> DEFINE some == Gets(OfLang(todo, Langs[scan]), CacheMax)
  <2>1. some \subseteq Urls
    BY GetsSubset DEF OfLang
  <2> QED
    BY <1>3, <2>1, Bounds DEF FindTodo
<1>4. ASSUME NEW u \in Urls, CheckDone(u) PROVE TypeOK'
  BY <1>4 DEF CheckDone, IsFirst
<1>5. ASSUME NEW u \in Urls, PushOne(u) PROVE TypeOK'
  BY <1>5 DEF PushOne, IsFirst
<1>6. ASSUME FindDone PROVE TypeOK'
  BY <1>6, Bounds DEF FindDone
<1>7. ASSUME WaitTodo PROVE TypeOK'
  BY <1>7 DEF WaitTodo
<1>8. ASSUME SpuriousWake PROVE TypeOK'
  BY <1>8 DEF SpuriousWake
<1>9. ASSUME NEW w \in Workers, NEW l \in LangSet, FetchEmpty(w, l) PROVE TypeOK'
  BY <1>9 DEF FetchEmpty
<1>10. ASSUME NEW w \in Workers, NEW l \in LangSet, FetchTask(w, l) PROVE TypeOK'
  <2>1. PICK u \in Urls : /\ cache' = cache \ {u}
                           /\ CountAgain(u)
                           /\ \/ /\ job' = [job EXCEPT ![w] = u]
                                 /\ nextChunk' = [nextChunk EXCEPT ![w] = 1]
                                 /\ UNCHANGED faults
                              \/ Fault /\ UNCHANGED workers
    BY <1>10 DEF FetchTask, OfLang
  <2>2. again' \in [Urls -> 0..2]
    BY <2>1 DEF CountAgain
  <2>3. job' \in [Workers -> Urls \cup {None}] /\ nextChunk' \in [Workers -> Nat \ {0}]
    <3>1. job \in [Workers -> Urls \cup {None}] /\ nextChunk \in [Workers -> Nat \ {0}]
      OBVIOUS
    <3>2. /\ job' = [job EXCEPT ![w] = u] \/ job' = job
          /\ nextChunk' = [nextChunk EXCEPT ![w] = 1] \/ nextChunk' = nextChunk
      BY <2>1
    <3> HIDE DEF TypeOK
    <3> QED
      BY <3>1, <3>2
  <2>4. faults' \in 0..MaxFaults
    BY <2>1, Bounds DEF Fault
  <2> QED
    BY <1>10, <2>1, <2>2, <2>3, <2>4 DEF FetchTask
<1>11. ASSUME NEW w \in Workers, NEW l \in LangSet, FetchRace(w, l) PROVE TypeOK'
  <2>1. PICK u \in Urls, v \in Urls :
             /\ toPush' = toPush \ {v}
             /\ \E kept \in SUBSET {u, v} :
                  /\ cache' = (cache \ {u}) \cup kept
                  /\ IF v \in kept THEN UNCHANGED faults ELSE Fault
             /\ CountAgain(u)
             /\ job' = [job EXCEPT ![w] = u]
             /\ nextChunk' = [nextChunk EXCEPT ![w] = 1]
    BY <1>11 DEF FetchRace, OfLang
  <2>2. again' \in [Urls -> 0..2]
    BY <2>1 DEF CountAgain
  <2>3. faults' \in 0..MaxFaults
    BY <2>1, Bounds DEF Fault
  <2>4. cache' \subseteq Urls /\ toPush' \subseteq Urls
    BY <2>1
  <2>5. job' \in [Workers -> Urls \cup {None}] /\ nextChunk' \in [Workers -> Nat \ {0}]
    BY <2>1
  <2> QED
    BY <1>11, <2>2, <2>3, <2>4, <2>5 DEF FetchRace
<1>12. ASSUME NEW w \in Workers, CommitChunk(w) PROVE TypeOK'
  <2>1. uploads' \in [Uploads -> 0..MaxInFlight]
    <3> DEFINE m == [url |-> job[w], chunk |-> nextChunk[w]]
    <3>1. uploads \in [Uploads -> 0..MaxInFlight]
      OBVIOUS
    <3>2. uploads' = [uploads EXCEPT ![m] = IF @ < MaxInFlight THEN @ + 1 ELSE @] \/ uploads' = uploads
      BY <1>12 DEF CommitChunk
    <3> HIDE DEF TypeOK, m
    <3> QED
      BY <3>1, <3>2, Bounds
  <2>2. faults' \in 0..MaxFaults
    BY <1>12, Bounds DEF CommitChunk, Fault
  <2>3. nextChunk' \in [Workers -> Nat \ {0}]
    BY <1>12 DEF CommitChunk
  <2> QED
    BY <1>12, <2>1, <2>2, <2>3 DEF CommitChunk
<1>13. ASSUME NEW w \in Workers, CommitEnd(w) PROVE TypeOK'
  BY <1>13 DEF CommitEnd
<1>14. ASSUME NEW w \in Workers, KillWorker(w) PROVE TypeOK'
  <2>1. faults' \in 0..MaxFaults
    BY <1>14, Bounds DEF KillWorker, Fault
  <2>2. job' \in [Workers -> Urls \cup {None}] /\ nextChunk' \in [Workers -> Nat \ {0}]
    BY <1>14 DEF KillWorker
  <2> QED
    BY <1>14, <2>1, <2>2 DEF KillWorker
<1>15. ASSUME NEW m \in Uploads, SaveTask(m) PROVE TypeOK'
  <2>1. uploads' \in [Uploads -> 0..MaxInFlight]
    <3>1. uploads[m] \in 0..MaxInFlight /\ uploads[m] > 0
      BY <1>15 DEF SaveTask
    <3>2. uploads' = uploads \/ uploads' = [uploads EXCEPT ![m] = @ - 1]
      BY <1>15 DEF SaveTask
    <3>3. uploads[m] - 1 \in 0..MaxInFlight
      BY <3>1, Bounds
    <3> QED
      BY <3>2, <3>3
  <2>3. saved' \in [Uploads -> 0..MaxSaves]
    <3>1. saved' = [saved EXCEPT ![m] = @ + 1]
      BY <1>15 DEF SaveTask
    <3>2. saved[m] + 1 \in 0..MaxSaves
      BY <1>15, Bounds DEF SaveTask
    <3> QED
      BY <3>1, <3>2
  <2>2. faults' \in 0..MaxFaults
    <3>1. faults' = faults \/ (faults < MaxFaults /\ faults' = faults + 1)
      BY <1>15 DEF SaveTask, Fault
    <3> QED
      BY <3>1, Bounds
  <2> QED
    BY <1>15, <2>1, <2>2, <2>3 DEF SaveTask
<1>16. ASSUME Die PROVE TypeOK'
  <2>1. uploads' \in [Uploads -> 0..MaxInFlight]
    BY <1>16, Bounds DEF Die
  <2>2. crashes' \in 0..MaxCrashes
    BY <1>16, Bounds DEF Die
  <2>3. 0 \in 0..(2 * Storages)
    BY Places
  <2> QED
    BY <1>16, <2>1, <2>2, <2>3, Bounds DEF Die
<1>17. ASSUME MarkDone PROVE TypeOK'
  BY <1>17, UploadShape DEF MarkDone
<1>18. ASSUME MarkRemove PROVE TypeOK'
  BY <1>18, UploadShape DEF MarkRemove
<1>19. ASSUME NEW w \in Words, PutWord(w) PROVE TypeOK'
  <2>1. saveMsg \in Uploads
    BY <1>19 DEF PutWord
  <2> DEFINE l == LangOf[saveMsg.url]
  <2>2. l \in LangSet /\ Counts(saveMsg)[w] \in Nat
    BY <2>1, UploadShape, Bounds
  <2>3. dict' = [dict EXCEPT ![l][w] = @ + Counts(saveMsg)[w]] \/ dict' = dict
    BY <1>19 DEF PutWord, Added, SaveLang
  <2>4. dict' \in [LangSet -> [Words -> Nat]]
    BY <2>2, <2>3, OneCount
  <2> QED
    BY <1>19, <2>4 DEF PutWord
<1>20. ASSUME SaveReply PROVE TypeOK'
  BY <1>20 DEF SaveReply
<1>21. CASE Crash \/ NullStorage
  BY <1>16, <1>21 DEF Crash, NullStorage
<1>22. ASSUME Restart PROVE TypeOK'
  BY <1>22 DEF Restart
<1>23. CASE UNCHANGED vars
  BY <1>23
<1> QED
  BY <1>1, <1>2, <1>3, <1>4, <1>5, <1>6, <1>7, <1>8, <1>9, <1>10, <1>11, <1>12, <1>13, <1>14, <1>15, <1>17, <1>18, <1>19, <1>20, <1>21, <1>22, <1>23 DEF Next, Collect, Save

(* The threads that hand articles out start when all storages are open,    *)
(* and before the first crash there is no upload until then.               *)
LEMMA OpenStep ==
  ASSUME TypeOK, Opened, Fresh, Refill, [Next]_vars PROVE Opened' /\ Fresh'
<1>0. Storages \in Nat /\ Storages > 0 /\ ready \in 0..(2 * Storages) /\ crashes \in Nat
  BY Places, Bounds DEF TypeOK
<1>1. ASSUME UNCHANGED <<ready, crashes>>,
             collector' = collector \/ {collector, collector'} \subseteq {"finding", "loading", "waiting"},
             (crashes = 0 /\ ready < 2 * Storages) => UNCHANGED <<job, uploads, savePc>>
      PROVE  Opened' /\ Fresh'
  <2>1. Opened'
    BY <1>1 DEF Opened
  <2>2. Fresh'
    BY <1>1 DEF Fresh
  <2> QED
    BY <2>1, <2>2
<1>2. CASE StartDB
  <2>1. ready < 2 * Storages /\ ready' = ready + 1
    BY <1>2 DEF StartDB, Opened
  <2>2. Opened'
    BY <1>0, <1>2, <2>1 DEF StartDB, Opened
  <2>3. Fresh'
    BY <1>2, <2>1 DEF StartDB, Fresh
  <2> QED
    BY <2>2, <2>3
<1>3. CASE FindNothing \/ FindTodo \/ FindDone \/ WaitTodo \/ SpuriousWake
  BY <1>1, <1>3 DEF FindNothing, FindTodo, FindDone, WaitTodo, SpuriousWake
<1>4. ASSUME NEW u \in Urls, CheckDone(u) \/ PushOne(u) PROVE Opened' /\ Fresh'
  BY <1>1, <1>4 DEF CheckDone, PushOne
<1>5. ASSUME NEW w \in Workers, NEW l \in LangSet, FetchEmpty(w, l) PROVE Opened' /\ Fresh'
  BY <1>1, <1>5 DEF FetchEmpty
<1>6. ASSUME NEW w \in Workers, NEW l \in LangSet, FetchTask(w, l) \/ FetchRace(w, l)
      PROVE  Opened' /\ Fresh'
  <2>1. cache # {} /\ UNCHANGED <<ready, crashes, collector>>
    BY <1>6 DEF FetchTask, FetchRace, OfLang
  <2>2. collector \notin {"down", "opening"}
    BY <2>1 DEF Refill
  <2>3. ~(ready < 2 * Storages)
    BY <2>2 DEF Opened
  <2> QED
    BY <1>1, <2>1, <2>3
<1>7. ASSUME NEW w \in Workers, CommitChunk(w) \/ CommitEnd(w) \/ KillWorker(w)
      PROVE  Opened' /\ Fresh'
  <2>1. job[w] # None /\ UNCHANGED <<ready, crashes, collector>>
    BY <1>7 DEF CommitChunk, CommitEnd, KillWorker
  <2>2. ~(crashes = 0 /\ ready < 2 * Storages)
    BY <2>1 DEF Fresh
  <2> QED
    BY <1>1, <2>1, <2>2
<1>8. ASSUME NEW m \in Uploads, SaveTask(m) PROVE Opened' /\ Fresh'
  <2>1. uploads[m] > 0 /\ UNCHANGED <<ready, crashes, collector>>
    BY <1>8 DEF SaveTask
  <2>2. ~(crashes = 0 /\ ready < 2 * Storages)
    BY <2>1 DEF Fresh
  <2> QED
    BY <1>1, <2>1, <2>2
<1>9. ASSUME savePc # "idle", UNCHANGED threads, UNCHANGED crashes PROVE Opened' /\ Fresh'
  <2>1. ~(crashes = 0 /\ ready < 2 * Storages)
    BY <1>9 DEF Fresh
  <2> QED
    BY <1>1, <1>9, <2>1
<1>10. CASE MarkDone \/ MarkRemove \/ SaveReply
  BY <1>9, <1>10 DEF MarkDone, MarkRemove, SaveReply
<1>11. ASSUME NEW w \in Words, PutWord(w) PROVE Opened' /\ Fresh'
  BY <1>9, <1>11 DEF PutWord
<1>12. CASE Crash \/ NullStorage
  <2>1. crashes' = crashes + 1 /\ collector' = "down" /\ ready' = 0
    BY <1>12 DEF Crash, NullStorage, Die
  <2> QED
    BY <1>0, <2>1 DEF Opened, Fresh
<1>13. CASE Restart
  <2>1. ready = 0 /\ collector' = "opening" /\ UNCHANGED <<ready, crashes, job, uploads, savePc>>
    BY <1>13 DEF Restart, Opened
  <2> QED
    BY <1>0, <2>1 DEF Opened, Fresh
<1>14. CASE UNCHANGED vars
  BY <1>1, <1>14
<1> QED
  BY <1>2, <1>3, <1>4, <1>5, <1>6, <1>7, <1>8, <1>10, <1>11, <1>12, <1>13, <1>14
  DEF Next, Collect, Save

(* Every step keeps the whole invariant. *)
LEMMA InvStep ==
  ASSUME IInv, [Next]_vars PROVE IInv'
<1> USE DEF IInv
<1>0. TypeOK' /\ Opened' /\ Fresh'
  BY TypeStep, OpenStep
<1>1. ASSUME StartDB PROVE IInv'
  BY <1>0, <1>1 DEF StartDB, Queued, Refill, AgainCounted, Marking, NoTaskLost, DoneAtBootHidden, CountedAreDone
<1>2. ASSUME FindNothing PROVE IInv'
  BY <1>0, <1>2 DEF FindNothing, Queued, Refill, AgainCounted, Marking, NoTaskLost, DoneAtBootHidden, CountedAreDone
<1>3. ASSUME FindTodo PROVE IInv'
  <2>1. Queued'
    BY <1>3, GetsSubset DEF FindTodo, OfLang, Queued, TypeOK
  <2>2. Refill'
    BY <1>3, GetsSubset DEF FindTodo, OfLang, Refill, TypeOK
  <2>3. AgainCounted'
    BY <1>3, GetsSubset DEF FindTodo, OfLang, AgainCounted, Refill, TypeOK
  <2>4. Marking' /\ NoTaskLost' /\ DoneAtBootHidden'
    BY <1>3, GetsSubset DEF FindTodo, OfLang, Marking, NoTaskLost, DoneAtBootHidden, Refill, TypeOK
  <2>5. CountedAreDone'
    BY <1>3, GetsSubset DEF FindTodo, OfLang, CountedAreDone, Marking, TypeOK
  <2> QED
    BY <1>0, <2>1, <2>2, <2>3, <2>4, <2>5
<1>4. ASSUME NEW u \in Urls, CheckDone(u) PROVE IInv'
  <2>1. Queued'
    BY <1>4 DEF CheckDone, IsFirst, Queued, TypeOK
  <2>2. Refill'
    BY <1>4 DEF CheckDone, IsFirst, Refill, TypeOK
  <2>3. AgainCounted'
    BY <1>4 DEF CheckDone, IsFirst, AgainCounted, Refill, TypeOK
  <2>4. Marking' /\ NoTaskLost' /\ DoneAtBootHidden'
    BY <1>4 DEF CheckDone, IsFirst, Marking, NoTaskLost, DoneAtBootHidden, Refill, TypeOK
  <2>5. CountedAreDone'
    BY <1>4 DEF CheckDone, IsFirst, CountedAreDone, Marking, TypeOK
  <2> QED
    BY <1>0, <2>1, <2>2, <2>3, <2>4, <2>5
<1>5. ASSUME NEW u \in Urls, PushOne(u) PROVE IInv'
  <2>1. Queued'
    BY <1>5 DEF PushOne, IsFirst, Queued, TypeOK
  <2>2. Refill'
    BY <1>5 DEF PushOne, IsFirst, Refill, TypeOK
  <2>3. AgainCounted'
    BY <1>5 DEF PushOne, IsFirst, AgainCounted, Refill, TypeOK
  <2>4. Marking' /\ NoTaskLost' /\ DoneAtBootHidden'
    BY <1>5 DEF PushOne, IsFirst, Marking, NoTaskLost, DoneAtBootHidden, Refill, TypeOK
  <2>5. CountedAreDone'
    BY <1>5 DEF PushOne, IsFirst, CountedAreDone, Marking, TypeOK
  <2> QED
    BY <1>0, <2>1, <2>2, <2>3, <2>4, <2>5
<1>6. ASSUME FindDone PROVE IInv'
  BY <1>0, <1>6 DEF FindDone, Queued, Refill, AgainCounted, Marking, NoTaskLost, DoneAtBootHidden, CountedAreDone
<1>7. ASSUME WaitTodo PROVE IInv'
  BY <1>0, <1>7 DEF WaitTodo, Queued, Refill, AgainCounted, Marking, NoTaskLost, DoneAtBootHidden, CountedAreDone
<1>8. ASSUME SpuriousWake PROVE IInv'
  BY <1>0, <1>8 DEF SpuriousWake, Queued, Refill, AgainCounted, Marking, NoTaskLost, DoneAtBootHidden, CountedAreDone
<1>9. ASSUME NEW w \in Workers, NEW l \in LangSet, FetchEmpty(w, l) PROVE IInv'
  BY <1>0, <1>9 DEF FetchEmpty, Queued, Refill, AgainCounted, Marking, NoTaskLost, DoneAtBootHidden, CountedAreDone
<1>10. ASSUME NEW w \in Workers, NEW l \in LangSet, FetchTask(w, l) PROVE IInv'
  <2>1. Queued'
    <3>1. PICK u \in cache : cache' = cache \ {u} /\ (job' = [job EXCEPT ![w] = u] \/ job' = job)
      BY <1>10 DEF FetchTask, OfLang
    <3>2. UNCHANGED <<todo, toPush, toCheck, uploads, savePc, saveMsg>>
      BY <1>10 DEF FetchTask
    <3>3. ASSUME NEW v \in Workers, job'[v] # None PROVE job'[v] \in Todo0
      BY <3>1, <3>3 DEF Queued, TypeOK
    <3> QED
      BY <3>1, <3>2, <3>3 DEF Queued
  <2>2. Refill'
    BY <1>10 DEF FetchTask, CountAgain, Fault, OfLang, TodoUnlocked, Refill, TypeOK
  <2>3. AgainCounted'
    <3>1. PICK v \in cache : cache' = cache \ {v} /\ CountAgain(v)
      BY <1>10 DEF FetchTask, OfLang
    <3>2. Filtered => toCheck = {} /\ toCheck' = {}
      BY <1>10 DEF FetchTask, TodoUnlocked, Refill
    <3>3. done' = done /\ v \in Urls
      BY <1>10, <3>1 DEF FetchTask, TypeOK
    <3>4. ASSUME Filtered, NEW u \in Urls
          PROVE  again'[u] <= 1 /\ (again'[u] = 1 => u \in done' /\ u \notin cache' \ toCheck')
      BY <3>1, <3>2, <3>3, <3>4, SMTT(60) DEF CountAgain, AgainCounted, TypeOK
    <3> QED
      BY <3>4 DEF AgainCounted
  <2>4. Marking' /\ NoTaskLost' /\ DoneAtBootHidden'
    BY <1>10 DEF FetchTask, CountAgain, Fault, OfLang, TodoUnlocked, Marking, NoTaskLost, DoneAtBootHidden, Refill, TypeOK
  <2>5. CountedAreDone'
    BY <1>10 DEF FetchTask, CountAgain, Fault, OfLang, TodoUnlocked, CountedAreDone, Marking, TypeOK
  <2> QED
    BY <1>0, <2>1, <2>2, <2>3, <2>4, <2>5
<1>11. ASSUME NEW w \in Workers, NEW l \in LangSet, FetchRace(w, l) PROVE IInv'
  <2>1. Queued'
    BY <1>11 DEF FetchRace, CountAgain, OfLang, Queued, TypeOK
  <2>2. Refill'
    BY <1>11 DEF FetchRace, CountAgain, OfLang, Refill, TypeOK
  <2>3. AgainCounted'
    BY <1>11 DEF FetchRace, CountAgain, OfLang, AgainCounted, Refill, TypeOK
  <2>4. Marking' /\ NoTaskLost' /\ DoneAtBootHidden'
    BY <1>11 DEF FetchRace, CountAgain, OfLang, Marking, NoTaskLost, DoneAtBootHidden, Refill, TypeOK
  <2>5. CountedAreDone'
    BY <1>11 DEF FetchRace, CountAgain, OfLang, CountedAreDone, Marking, TypeOK
  <2> QED
    BY <1>0, <2>1, <2>2, <2>3, <2>4, <2>5
<1>12. ASSUME NEW w \in Workers, CommitChunk(w) PROVE IInv'
  <2>1. Queued'
    <3> DEFINE m == [url |-> job[w], chunk |-> nextChunk[w]]
    <3>1. job[w] \in Todo0 /\ m.url = job[w]
      BY <1>12 DEF CommitChunk, Queued
    <3>2. uploads' = uploads \/ uploads' = [uploads EXCEPT ![m] = IF @ < MaxInFlight THEN @ + 1 ELSE @]
      BY <1>12 DEF CommitChunk
    <3>3. \A n \in Uploads : uploads'[n] > 0 => n.url \in Todo0
      BY <3>1, <3>2 DEF Queued, TypeOK
    <3> QED
      BY <1>12, <3>3 DEF CommitChunk, Queued
  <2>2. Refill'
    BY <1>12, UploadOf DEF CommitChunk, Fault, Refill, TypeOK
  <2>3. AgainCounted'
    BY <1>12, UploadOf DEF CommitChunk, Fault, AgainCounted, Refill, TypeOK
  <2>4. Marking' /\ NoTaskLost' /\ DoneAtBootHidden'
    BY <1>12, UploadOf DEF CommitChunk, Fault, Marking, NoTaskLost, DoneAtBootHidden, Refill, TypeOK
  <2>5. CountedAreDone'
    BY <1>12, UploadOf DEF CommitChunk, Fault, CountedAreDone, Marking, TypeOK
  <2> QED
    BY <1>0, <2>1, <2>2, <2>3, <2>4, <2>5
<1>13. ASSUME NEW w \in Workers, CommitEnd(w) PROVE IInv'
  BY <1>0, <1>13 DEF CommitEnd, Queued, Refill, AgainCounted, Marking, NoTaskLost, DoneAtBootHidden, CountedAreDone
<1>14. ASSUME NEW w \in Workers, KillWorker(w) PROVE IInv'
  BY <1>0, <1>14 DEF KillWorker, Fault, Queued, Refill, AgainCounted, Marking, NoTaskLost, DoneAtBootHidden, CountedAreDone
<1>15. ASSUME NEW m \in Uploads, SaveTask(m) PROVE IInv'
  <2>1. Queued'
    BY <1>15, UploadShape DEF SaveTask, Fault, Queued, TypeOK
  <2>2. Refill'
    BY <1>15, UploadShape DEF SaveTask, Fault, Refill, TypeOK
  <2>3. AgainCounted'
    BY <1>15, UploadShape DEF SaveTask, Fault, AgainCounted, Refill, TypeOK
  <2>4. Marking' /\ NoTaskLost' /\ DoneAtBootHidden'
    BY <1>15, UploadShape DEF SaveTask, Fault, Marking, NoTaskLost, DoneAtBootHidden, Refill, TypeOK
  <2>5. CountedAreDone'
    BY <1>15, UploadShape DEF SaveTask, Fault, CountedAreDone, Marking, TypeOK
  <2> QED
    BY <1>0, <2>1, <2>2, <2>3, <2>4, <2>5
<1>16. ASSUME Die PROVE IInv'
  <2>1. Queued'
    BY <1>16 DEF Die, Queued, TypeOK
  <2>2. Refill'
    BY <1>16 DEF Die, Refill, TypeOK
  <2>3. AgainCounted'
    BY <1>16 DEF Die, AgainCounted, Refill, TypeOK
  <2>4. Marking' /\ DoneAtBootHidden'
    BY <1>16 DEF Die, Marking, DoneAtBootHidden, Refill, TypeOK
  <2>5. NoTaskLost'
    BY <1>16, Bounds DEF Die, NoTaskLost, TypeOK
  <2>6. CountedAreDone'
    BY <1>16 DEF Die, CountedAreDone, Marking, TypeOK
  <2> QED
    BY <1>0, <2>1, <2>2, <2>3, <2>4, <2>5, <2>6
<1>17. ASSUME MarkDone PROVE IInv'
  <2> DEFINE u == saveMsg.url
             s == DoneAt(SaveLang)
  <2>1. /\ savePc = "mark" /\ savePc' = "remove" /\ Made(s) /\ s \in 1..Storages
        /\ UNCHANGED <<todo, dict, threads, saveMsg, saveWords, workers, network, counters,
                       again, doneAtBoot>>
    BY <1>17, SaveLangIn DEF MarkDone
  <2>2. \/ done' = done \cup {u} /\ missed' = missed \ {u}
        \/ crashes # 0 /\ done' = done /\ missed' = missed \cup ({u} \ done)
    <3>1. CASE Open(s)
      BY <1>17, <3>1 DEF MarkDone
    <3>2. CASE ~Open(s)
      <4>1. crashes # 0
        BY <2>1, <3>2, Window
      <4> QED
        BY <1>17, <3>2, <4>1 DEF MarkDone
    <3> QED
      BY <3>1, <3>2
  <2>3. done \subseteq done' /\ done \cup missed \cup {u} = done' \cup missed'
    BY <2>2
  <2>4. missed' \cap done' = {}
    BY <2>2 DEF Marking
  <2>5. Queued' /\ Refill'
    BY <2>1 DEF Queued, Refill
  <2>6. AgainCounted'
    BY <2>1, <2>3 DEF AgainCounted
  <2>7. Marking'
    BY <2>1, <2>3, <2>4 DEF Marking, Counts
  <2>8. NoTaskLost'
    BY <2>1, <2>2, <2>3 DEF NoTaskLost
  <2>9. DoneAtBootHidden'
    BY <2>1 DEF DoneAtBootHidden
  <2>10. CountedAreDone'
    BY <2>1, <2>3 DEF CountedAreDone, Counts
  <2> QED
    BY <1>0, <2>5, <2>6, <2>7, <2>8, <2>9, <2>10
<1>18. ASSUME MarkRemove PROVE IInv'
  <2>1. Queued'
    BY <1>18 DEF MarkRemove, Queued, TypeOK
  <2>2. Refill'
    BY <1>18 DEF MarkRemove, Refill, TypeOK
  <2>3. AgainCounted'
    BY <1>18 DEF MarkRemove, AgainCounted, Refill, TypeOK
  <2>4. Marking' /\ DoneAtBootHidden'
    BY <1>18 DEF MarkRemove, Marking, DoneAtBootHidden, Refill, TypeOK
  <2>6. NoTaskLost'
    <3>1. todo \subseteq todo' \cup {saveMsg.url} /\ UNCHANGED <<done, missed, crashes>>
      BY <1>18 DEF MarkRemove
    <3>2. saveMsg.url \in done \cup missed
      BY <1>18 DEF MarkRemove, Marking
    <3> QED
      BY <3>1, <3>2 DEF NoTaskLost
  <2>5. CountedAreDone'
    BY <1>18 DEF MarkRemove, CountedAreDone, Marking, TypeOK
  <2> QED
    BY <1>0, <2>1, <2>2, <2>3, <2>4, <2>5, <2>6
<1>19. ASSUME NEW w \in Words, PutWord(w) PROVE IInv'
  <2>1. Queued'
    BY <1>19, UploadShape DEF PutWord, Queued, TypeOK
  <2>2. Refill'
    BY <1>19, UploadShape DEF PutWord, Refill, TypeOK
  <2>3. AgainCounted'
    BY <1>19, UploadShape DEF PutWord, AgainCounted, Refill, TypeOK
  <2>4. Marking' /\ NoTaskLost' /\ DoneAtBootHidden'
    BY <1>19, UploadShape DEF PutWord, Marking, NoTaskLost, DoneAtBootHidden, Refill, TypeOK
  <2>5. CountedAreDone'
    <3>1. saveMsg \in Uploads /\ saveMsg.url \in done \cup missed /\ Counts(saveMsg)[w] > 0
      BY <1>19 DEF PutWord, TypeOK, Marking
    <3> DEFINE k == LangOf[saveMsg.url]
    <3>2. /\ dict' = [dict EXCEPT ![k][w] = @ + Counts(saveMsg)[w]] \/ dict' = dict
          /\ done' = done /\ missed' = missed
      BY <1>19 DEF PutWord, Added, SaveLang
    <3>3. ASSUME NEW l \in LangSet, NEW x \in Words, dict'[l][x] > 0
          PROVE  \E m \in Uploads :
                   m.url \in done' \cup missed' /\ LangOf[m.url] = l /\ Counts(m)[x] > 0
      <4>1. CASE l = k /\ x = w
        BY <3>1, <3>2, <4>1
      <4>2. CASE l # k \/ x # w
        <5>1. dict \in [LangSet -> [Words -> Nat]] /\ k \in LangSet /\ Counts(saveMsg)[w] \in Nat
          <6>1. dict \in [LangSet -> [Words -> Nat]]
            BY DEF TypeOK
          <6>2. k \in LangSet /\ Counts(saveMsg)[w] \in Nat
            BY <3>1, UploadShape, Bounds
          <6> QED
            BY <6>1, <6>2
        <5>2. dict'[l][x] = dict[l][x]
          BY <3>2, <4>2, <5>1, OneCount
        <5> QED
          BY <3>2, <3>3, <5>2 DEF CountedAreDone
      <4> QED
        BY <4>1, <4>2
    <3> QED
      BY <3>3 DEF CountedAreDone, Counts
  <2> QED
    BY <1>0, <2>1, <2>2, <2>3, <2>4, <2>5
<1>20. ASSUME SaveReply PROVE IInv'
  BY <1>0, <1>20 DEF SaveReply, Queued, Refill, AgainCounted, Marking, NoTaskLost, DoneAtBootHidden, CountedAreDone
<1>21. CASE Crash \/ NullStorage
  BY <1>16, <1>21 DEF Crash, NullStorage
<1>22. ASSUME Restart PROVE IInv'
  BY <1>0, <1>22 DEF Restart, Queued, Refill, AgainCounted, Marking, NoTaskLost, DoneAtBootHidden, CountedAreDone
<1>23. CASE UNCHANGED vars
  BY <1>0, <1>23 DEF Queued, Refill, AgainCounted, Marking, NoTaskLost, DoneAtBootHidden, CountedAreDone
<1> QED
  BY <1>1, <1>2, <1>3, <1>4, <1>5, <1>6, <1>7, <1>8, <1>9, <1>10, <1>11, <1>12, <1>13, <1>14, <1>15, <1>17, <1>18, <1>19, <1>20, <1>21, <1>22, <1>23 DEF Next, Collect, Save

(* The first state satisfies the invariant. *)
LEMMA InitInv == Init => IInv
<1> SUFFICES ASSUME Init PROVE IInv
  OBVIOUS
<1>1. TypeOK
  <2>1. 0 \in 0..(2 * Storages)
    BY Places
  <2> QED
    BY <2>1, TrainAssumption, Bounds DEF Init, TypeOK
<1>2. Queued /\ Refill /\ NoTaskLost /\ AgainCounted /\ Marking /\ DoneAtBootHidden
  BY TrainAssumption
  DEF Init, Queued, Refill, NoTaskLost, AgainCounted, Marking, DoneAtBootHidden
<1>3. CountedAreDone
  BY DEF Init, CountedAreDone
<1>4. Opened /\ Fresh
  <2>1. 0 < 2 * Storages
    BY Places
  <2> QED
    BY <2>1 DEF Init, Opened, Fresh
<1> QED
  BY <1>1, <1>2, <1>3, <1>4 DEF IInv

(* The inductive invariant holds in every behaviour: types, what refers to *)
(* queued articles, the state of the refill, the order of marking.          *)
THEOREM Invariance == Spec => []IInv
<1>1. IInv /\ [Next]_vars => IInv'
  BY InvStep
<1> QED
  BY <1>1, InitInv, PTL DEF Spec

(* The variables of the service keep their types. *)
THEOREM TypeCorrect == Spec => []TypeOK
<1>1. IInv => TypeOK
  BY DEF IInv
<1> QED
  BY <1>1, Invariance, PTL

(* No interleaving and no crash loses a queued article: markOstrich adds   *)
(* to done before it removes from todo, and nothing else empties todo.     *)
(* The exception is an article whose add met a done database that was not  *)
(* open yet, and that needs a crash before it.                             *)
THEOREM NothingLost == Spec => []NoTaskLost
<1>1. IInv => NoTaskLost
  BY DEF IInv
<1> QED
  BY <1>1, Invariance, PTL

(* With the lock and the done filter of the ostrich refill an article is   *)
(* handed out at most once after it was marked done.                       *)
THEOREM HandedOutAgainAtMostOnce == Spec => []AgainAtMostOnce
<1>1. IInv => AgainAtMostOnce
  BY DEF IInv, AgainCounted, AgainAtMostOnce
<1> QED
  BY <1>1, Invariance, PTL

(* An article that was done when the service started is never visible to   *)
(* the fetch thread.                                                       *)
THEOREM BootDoneHidden == Spec => []DoneAtBootHidden
<1>1. IInv => DoneAtBootHidden
  BY DEF IInv
<1> QED
  BY <1>1, Invariance, PTL

(* Words are only counted for articles that are marked done, or whose mark *)
(* was dropped by a done database that was not open yet.                   *)
THEOREM CountedOnlyDone == Spec => []CountedAreDone
<1>1. IInv => CountedAreDone
  BY DEF IInv
<1> QED
  BY <1>1, Invariance, PTL

-----------------------------------------------------------------------------
(* Each step of the ostrich service is a step of the task pool or leaves   *)
(* the pool as it is.                                                      *)
LEMMA PoolStep ==
  ASSUME Filtered, IInv, IInv', [Next]_vars
  PROVE  [Pool!PNext]_(Pool!pvars)
<1> DEFINE Same == UNCHANGED <<todo \ done, done, missed, Phase, again>>
<1> USE DEF Pool!pvars
<1>0. ASSUME UNCHANGED <<collector, crashes>> PROVE Phase' = Phase
  BY <1>0 DEF Phase
<1>1. ASSUME NEW u \in Urls, CheckDone(u) PROVE Same
  BY <1>0, <1>1 DEF CheckDone
<1>2. ASSUME NEW w \in Workers, NEW l \in LangSet, FetchTask(w, l)
      PROVE  [Pool!PNext]_(Pool!pvars)
  <2>1. PICK v \in Urls : CountAgain(v)
    BY <1>2 DEF FetchTask, OfLang, IInv, TypeOK
  <2>2. UNCHANGED <<todo, done, missed, Phase>>
    BY <1>0, <1>2 DEF FetchTask
  <2>3. CASE v \notin done
    BY <2>1, <2>2, <2>3 DEF CountAgain, IInv, TypeOK
  <2>4. CASE v \in done
    <3>1. again[v] \in 0..1 /\ again \in [Urls -> 0..2]
      <4>1. again \in [Urls -> 0..2]
        BY DEF IInv, TypeOK
      <4>2. again[v] <= 1
        BY DEF IInv, AgainCounted
      <4> QED
        BY <4>1, <4>2
    <3>2. again' = [again EXCEPT ![v] = @ + 1]
      <4>1. again' = [again EXCEPT ![v] = IF v \in done /\ @ < 2 THEN @ + 1 ELSE @]
        BY <2>1 DEF CountAgain
      <4>2. again[v] < 2 /\ v \in DOMAIN again
        BY <3>1
      <4> QED
        BY <2>4, <4>1, <4>2
    <3>3. again'[v] <= 1
      BY DEF IInv, AgainCounted
    <3>4. again[v] = 0
      BY <3>1, <3>2, <3>3
    <3>5. again' = [again EXCEPT ![v] = 1]
      BY <3>2, <3>4
    <3>6. Pool!HandOutAgain(v)
      BY <2>2, <2>4, <3>4, <3>5 DEF Pool!HandOutAgain
    <3> QED
      BY <3>6 DEF Pool!PNext
  <2> QED
    BY <2>3, <2>4
<1>3. CASE MarkDone
  <2> DEFINE u == saveMsg.url
             s == DoneAt(SaveLang)
  <2>1. u \in Urls /\ u \in todo \cup done \cup missed
    BY <1>3, TrainAssumption DEF MarkDone, IInv, Queued, NoTaskLost
  <2>2. UNCHANGED <<todo, Phase, again>>
    BY <1>0, <1>3 DEF MarkDone
  <2>3. CASE Open(s)
    <3>1. done' = done \cup {u} /\ missed' = missed \ {u}
      BY <1>3, <2>3 DEF MarkDone
    <3>2. CASE u \in done
      <4>1. u \notin missed
        BY <3>2 DEF IInv, Marking
      <4> QED
        BY <2>2, <3>1, <3>2, <4>1
    <3>3. CASE u \notin done
      <4>1. Pool!Finish(u)
        BY <2>1, <2>2, <3>1, <3>3 DEF Pool!Finish
      <4> QED
        BY <2>1, <4>1 DEF Pool!PNext
    <3> QED
      BY <3>2, <3>3
  <2>4. CASE ~Open(s)
    <3>1. done' = done /\ missed' = missed \cup ({u} \ done)
      BY <1>3, <2>4 DEF MarkDone
    <3>2. CASE u \in done
      BY <2>2, <3>1, <3>2
    <3>3. CASE u \notin done
      <4>1. savePc # "idle" /\ Made(s) /\ s \in 1..Storages
        BY <1>3, SaveLangIn DEF MarkDone, IInv
      <4>2. crashes # 0 /\ collector = "opening"
        BY <2>4, <4>1, Window DEF IInv
      <4>3. Phase = "restarting"
        BY <4>2 DEF Phase
      <4>4. Pool!Miss(u)
        BY <2>2, <3>1, <3>3, <4>3 DEF Pool!Miss
      <4> QED
        BY <2>1, <4>4 DEF Pool!PNext
    <3> QED
      BY <3>2, <3>3
  <2> QED
    BY <2>3, <2>4
<1>4. CASE MarkRemove
  <2> DEFINE u == saveMsg.url
  <2>1. UNCHANGED <<done, missed, Phase, again>> /\ (todo' = todo \ {u} \/ todo' = todo)
    BY <1>0, <1>4 DEF MarkRemove
  <2>2. u \in done \cup missed /\ u \in Urls
    BY <1>4, TrainAssumption DEF MarkRemove, IInv, Marking, Queued
  <2>3. CASE u \in done \/ todo' = todo
    BY <2>1, <2>3
  <2>4. CASE u \in missed /\ todo' = todo \ {u}
    <3>1. Pool!Drop(u)
      BY <2>1, <2>4 DEF Pool!Drop
    <3> QED
      BY <2>2, <3>1 DEF Pool!PNext
  <2> QED
    BY <2>1, <2>2, <2>3, <2>4
<1>5. ASSUME NEW w \in Workers, NEW l \in LangSet, FetchRace(w, l) PROVE FALSE
  BY <1>5 DEF FetchRace
<1>6. CASE FindNothing \/ FindTodo \/ FindDone \/ WaitTodo \/ SpuriousWake
  BY <1>6 DEF FindNothing, FindTodo, FindDone, WaitTodo, SpuriousWake, Phase
<1>7. ASSUME NEW u \in Urls, PushOne(u) PROVE Same
  BY <1>0, <1>7 DEF PushOne
<1>8. ASSUME NEW w \in Workers, NEW l \in LangSet, FetchEmpty(w, l) PROVE Same
  BY <1>8 DEF FetchEmpty, Phase
<1>9. ASSUME NEW w \in Workers, CommitChunk(w) \/ CommitEnd(w) \/ KillWorker(w) PROVE Same
  BY <1>0, <1>9 DEF CommitChunk, CommitEnd, KillWorker
<1>10. ASSUME NEW m \in Uploads, SaveTask(m) PROVE Same
  BY <1>0, <1>10 DEF SaveTask
<1>11. ASSUME NEW w \in Words, PutWord(w) PROVE Same
  BY <1>0, <1>11 DEF PutWord
<1>12. CASE SaveReply \/ UNCHANGED vars
  BY <1>0, <1>12 DEF SaveReply
<1>13. CASE Restart
  BY <1>13 DEF Restart, Phase
<1>14. CASE StartDB
  <2>1. UNCHANGED <<todo, done, missed, again>>
    BY <1>14 DEF StartDB
  <2>2. Phase # "serving" /\ Phase' \in {Phase, "serving"}
    BY <1>14 DEF StartDB, Phase
  <2>3. CASE Phase' = "serving"
    BY <2>1, <2>2, <2>3 DEF Pool!Serve, Pool!PNext
  <2> QED
    BY <2>1, <2>2, <2>3
<1>15. CASE Crash \/ NullStorage
  <2>1. UNCHANGED <<todo, done, missed, again>>
    BY <1>15 DEF Crash, NullStorage, Die
  <2>2. crashes' = crashes + 1 /\ collector' = "down" /\ crashes \in Nat
    BY <1>15, Bounds DEF Crash, NullStorage, Die, IInv, TypeOK
  <2>3. Phase' = "restarting"
    BY <2>2 DEF Phase
  <2>4. CASE Phase # "restarting"
    BY <2>1, <2>3, <2>4 DEF Pool!Fail, Pool!PNext
  <2> QED
    BY <2>1, <2>3, <2>4
<1> QED
  BY <1>1, <1>2, <1>3, <1>4, <1>5, <1>6, <1>7, <1>8, <1>9, <1>10, <1>11, <1>12, <1>13, <1>14, <1>15
  DEF Next, Collect, Save

(* The ostrich service implements the task pool: each queued article is    *)
(* finished once and handed out at most once more after that; only while   *)
(* it restarts may the service miss that an article was finished.          *)
THEOREM OstrichIsTaskPool == Filtered => (Spec => PoolSpec)
<1> SUFFICES ASSUME Filtered PROVE Spec => PoolSpec
  OBVIOUS
<1>1. Init => Pool!PInit
  BY DEF Init, Pool!PInit, Phase
<1>2. IInv /\ IInv' /\ [Next]_vars => [Pool!PNext]_(Pool!pvars)
  BY PoolStep
<1> QED
  BY <1>1, <1>2, Invariance, PTL DEF Spec, PoolSpec, Pool!PSpec

-----------------------------------------------------------------------------
(* Sums over finite sets *)

(* A set of natural numbers that is not empty has a least element.         *)
LEMMA LeastNatural ==
  ASSUME NEW T, T \subseteq Nat, T # {}
  PROVE  \E n \in T : \A m \in T : n <= m
<1> DEFINE R == OpToRel(<, Nat)
<1>1. IsWellFoundedOn(R, Nat)
  BY NatLessThanWellFounded
<1>2. PICK n \in T : \A m \in T : ~ (<<m, n>> \in R)
  <2> HIDE DEF R
  <2> QED BY <1>1, WFMin
<1>3. ASSUME NEW m \in T PROVE n <= m
  <2>1. n \in Nat /\ m \in Nat
    OBVIOUS
  <2>2. ~ (<<m, n>> \in R)
    BY <1>2
  <2>3. ~ (m < n)
    BY <2>1, <2>2 DEF OpToRel
  <2> QED BY <2>1, <2>3
<1> QED BY <1>2, <1>3

(* Some element is taken out of a set that is not empty.                   *)
LEMMA SomeOut ==
  ASSUME NEW S, IsFiniteSet(S), NEW T \in SUBSET S, T # {}
  PROVE  /\ Some(T) \in T /\ T \ {Some(T)} \in SUBSET S
         /\ Cardinality(T) \in Nat /\ Cardinality(T \ {Some(T)}) \in Nat
         /\ Cardinality(T \ {Some(T)}) + 1 = Cardinality(T)
<1>1. PICK x : x = Some(T)
  OBVIOUS
<1>2. x \in T
  BY <1>1 DEF Some
<1>3. IsFiniteSet(T)
  BY FS_Subset
<1>4. IsFiniteSet(T \ {x}) /\ Cardinality(T \ {x}) = Cardinality(T) - 1
  BY <1>2, <1>3, FS_RemoveElement
<1>5. Cardinality(T) \in Nat /\ Cardinality(T \ {x}) \in Nat
  BY <1>3, <1>4, FS_CardinalityType
<1> QED BY <1>1, <1>2, <1>4, <1>5

(* Induction over the subsets of a finite set, in the order Some takes     *)
(* their elements out, for a property given as a set.                      *)
LEMMA SubsetInduction ==
  ASSUME NEW S, IsFiniteSet(S), NEW P, {} \in P,
         \A T \in SUBSET S : T # {} /\ T \ {Some(T)} \in P => T \in P
  PROVE  SUBSET S \subseteq P
<1> SUFFICES ASSUME (SUBSET S) \ P # {} PROVE FALSE
  OBVIOUS
<1> DEFINE N == {Cardinality(T) : T \in (SUBSET S) \ P}
<1>1. N \subseteq Nat /\ N # {}
  <2>1. \A T \in SUBSET S : Cardinality(T) \in Nat
    BY FS_Subset, FS_CardinalityType
  <2> QED BY <2>1
<1>2. PICK n \in N : \A m \in N : n <= m
  <2> HIDE DEF N
  <2> QED BY <1>1, LeastNatural
<1>3. PICK T \in (SUBSET S) \ P : n = Cardinality(T)
  BY <1>2
<1>4. T # {}
  OBVIOUS
<1>5. /\ T \ {Some(T)} \in SUBSET S /\ Cardinality(T) \in Nat /\ Cardinality(T \ {Some(T)}) \in Nat
      /\ Cardinality(T \ {Some(T)}) + 1 = Cardinality(T)
  BY <1>3, <1>4, SomeOut
<1>6. T \ {Some(T)} \in P
  <2> SUFFICES ASSUME T \ {Some(T)} \notin P PROVE FALSE
    OBVIOUS
  <2>1. Cardinality(T \ {Some(T)}) \in N
    BY <1>5
  <2>2. Cardinality(T) <= Cardinality(T \ {Some(T)})
    BY <1>2, <1>3, <2>1
  <2> QED BY <1>5, <2>2
<1> QED BY <1>3, <1>4, <1>6

(* What the function in SumOver(f, S) says of each subset.                 *)
SumStep(f, u, T) == IF T = {} THEN 0 ELSE f[Some(T)] + u[T \ {Some(T)}]
IsSum(f, S, u) == \A T \in SUBSET S : u[T] = SumStep(f, u, T)

(* There is one.                                                           *)
LEMMA SumExists ==
  ASSUME NEW S, IsFiniteSet(S), NEW f \in [S -> Nat]
  PROVE  \E u \in [SUBSET S -> Nat] : IsSum(f, S, u)
<1> DEFINE Upto(n) == {T \in SUBSET S : Cardinality(T) <= n}
           Good(n) == \E u \in [SUBSET S -> Nat] : \A T \in Upto(n) : u[T] = SumStep(f, u, T)
<1>1. Good(0)
  <2>1. PICK u : u = [T \in SUBSET S |-> 0]
    OBVIOUS
  <2>2. \A T \in Upto(0) : T = {}
    <3> SUFFICES ASSUME NEW T \in SUBSET S, Cardinality(T) <= 0 PROVE T = {}
      OBVIOUS
    <3>1. IsFiniteSet(T) /\ Cardinality(T) \in Nat
      BY FS_Subset, FS_CardinalityType
    <3>2. Cardinality(T) = 0
      BY <3>1
    <3> QED BY <3>1, <3>2, FS_EmptySet
  <2>3. u \in [SUBSET S -> Nat] /\ \A T \in Upto(0) : u[T] = SumStep(f, u, T)
    BY <2>1, <2>2 DEF SumStep
  <2> QED BY <2>3
<1>2. ASSUME NEW n \in Nat, Good(n) PROVE Good(n + 1)
  <2>1. PICK u \in [SUBSET S -> Nat] : \A T \in Upto(n) : u[T] = SumStep(f, u, T)
    BY <1>2
  <2>2. PICK v : v = [T \in SUBSET S |-> IF Cardinality(T) <= n THEN u[T] ELSE SumStep(f, u, T)]
    OBVIOUS
  <2>3. ASSUME NEW T \in SUBSET S PROVE SumStep(f, u, T) \in Nat
    <3>1. CASE T = {}
      BY <3>1 DEF SumStep
    <3>2. CASE T # {}
      <4>1. Some(T) \in S /\ T \ {Some(T)} \in SUBSET S
        BY <3>2, SomeOut
      <4>2. f[Some(T)] \in Nat /\ u[T \ {Some(T)}] \in Nat
        BY <4>1
      <4> QED BY <3>2, <4>2 DEF SumStep
    <3> QED BY <3>1, <3>2
  <2>4. v \in [SUBSET S -> Nat]
    BY <2>2, <2>3
  <2>5. ASSUME NEW T \in SUBSET S, Cardinality(T) <= n + 1 PROVE v[T] = SumStep(f, v, T)
    <3>1. v[T] = SumStep(f, u, T)
      BY <2>1, <2>2
    <3>2. T # {} => v[T \ {Some(T)}] = u[T \ {Some(T)}]
      <4> SUFFICES ASSUME T # {} PROVE v[T \ {Some(T)}] = u[T \ {Some(T)}]
        OBVIOUS
      <4>1. /\ T \ {Some(T)} \in SUBSET S /\ Cardinality(T) \in Nat /\ Cardinality(T \ {Some(T)}) \in Nat
            /\ Cardinality(T \ {Some(T)}) + 1 = Cardinality(T)
        BY SomeOut
      <4>2. Cardinality(T \ {Some(T)}) <= n
        BY <2>5, <4>1
      <4> QED BY <2>2, <4>1, <4>2
    <3> QED BY <3>1, <3>2 DEF SumStep
  <2> QED BY <2>4, <2>5
<1>3. ASSUME NEW n \in Nat PROVE Good(n)
  <2> DEFINE N == {m \in Nat : ~ Good(m)}
  <2> HIDE DEF Good
  <2> SUFFICES ASSUME N # {} PROVE FALSE
    OBVIOUS
  <2>1. PICK m \in N : \A k \in N : m <= k
    <3>1. N \subseteq Nat
      OBVIOUS
    <3> HIDE DEF N
    <3> QED BY <3>1, LeastNatural
  <2>2. m # 0
    BY <1>1
  <2>3. m - 1 \in Nat /\ ~ (m <= m - 1) /\ (m - 1) + 1 = m
    BY <2>2
  <2>4. Good(m - 1)
    BY <2>1, <2>3
  <2> QED BY <1>2, <2>3, <2>4
<1>4. Cardinality(S) \in Nat /\ \A T \in SUBSET S : Cardinality(T) <= Cardinality(S)
  BY FS_CardinalityType, FS_Subset
<1>5. Good(Cardinality(S))
  BY <1>3, <1>4
<1> QED BY <1>4, <1>5 DEF IsSum

LEMMA SumUnique ==
  ASSUME NEW S, IsFiniteSet(S), NEW f, NEW u, NEW v, IsSum(f, S, u), IsSum(f, S, v)
  PROVE  \A T \in SUBSET S : u[T] = v[T]
<1> DEFINE P == {T \in SUBSET S : u[T] = v[T]}
<1>1. {} \in P
  BY DEF IsSum, SumStep
<1>2. ASSUME NEW T \in SUBSET S, T # {}, T \ {Some(T)} \in P PROVE T \in P
  BY <1>2 DEF IsSum, SumStep
<1>3. SUBSET S \subseteq P
  <2> HIDE DEF P
  <2> QED BY <1>1, <1>2, SubsetInduction
<1> QED BY <1>3

LEMMA SumIs ==
  ASSUME NEW S, IsFiniteSet(S), NEW f \in [S -> Nat]
  PROVE  \E u \in [SUBSET S -> Nat] : IsSum(f, S, u) /\ SumOver(f, S) = u[S]
<1>1. PICK u \in [SUBSET S -> Nat] : IsSum(f, S, u)
  BY SumExists
<1> DEFINE Body(w) == [T \in SUBSET S |-> SumStep(f, w, T)]
           v == CHOOSE w : w = Body(w)
<1>2. u = Body(u)
  BY <1>1 DEF IsSum
<1>3. v = Body(v)
  BY <1>2
<1>4. IsSum(f, S, v)
  <2>1. ASSUME NEW T \in SUBSET S PROVE v[T] = SumStep(f, v, T)
    <3> DEFINE b == Body(v)
    <3>1. b[T] = SumStep(f, v, T)
      OBVIOUS
    <3> HIDE DEF v
    <3> QED BY <1>3, <3>1
  <2> QED BY <2>1 DEF IsSum
<1>5. SumOver(f, S) = v[S]
  BY DEF SumOver, SumStep
<1>6. u[S] = v[S]
  <2> HIDE DEF v
  <2>1. S \in SUBSET S
    OBVIOUS
  <2> QED BY <1>1, <1>4, <2>1, SumUnique
<1> QED BY <1>1, <1>5, <1>6

LEMMA SumOfNothing ==
  ASSUME NEW S, IsFiniteSet(S), NEW f \in [S -> Nat], \A x \in S : f[x] = 0
  PROVE  SumOver(f, S) = 0
<1>1. PICK u \in [SUBSET S -> Nat] : IsSum(f, S, u) /\ SumOver(f, S) = u[S]
  BY SumIs
<1> DEFINE P == {T \in SUBSET S : u[T] = 0}
<1>2. {} \in P
  BY <1>1 DEF IsSum, SumStep
<1>3. ASSUME NEW T \in SUBSET S, T # {}, T \ {Some(T)} \in P PROVE T \in P
  <2>1. Some(T) \in S
    BY <1>3, SomeOut
  <2>2. u[T] = f[Some(T)] + u[T \ {Some(T)}]
    BY <1>1, <1>3 DEF IsSum, SumStep
  <2> QED BY <1>3, <2>1, <2>2
<1>4. SUBSET S \subseteq P
  <2> HIDE DEF P
  <2> QED BY <1>2, <1>3, SubsetInduction
<1> QED BY <1>1, <1>4

(* One value grows, and the sum with it.                                   *)
LEMMA SumGrows ==
  ASSUME NEW S, IsFiniteSet(S), NEW f \in [S -> Nat], NEW g \in [S -> Nat], NEW m \in S, NEW k \in Nat,
         g[m] = f[m] + k, \A x \in S \ {m} : g[x] = f[x]
  PROVE  SumOver(g, S) = SumOver(f, S) + k
<1>1. PICK u \in [SUBSET S -> Nat] : IsSum(f, S, u) /\ SumOver(f, S) = u[S]
  BY SumIs
<1>2. PICK v \in [SUBSET S -> Nat] : IsSum(g, S, v) /\ SumOver(g, S) = v[S]
  BY SumIs
<1> DEFINE P == {T \in SUBSET S : v[T] = u[T] + (IF m \in T THEN k ELSE 0)}
<1>3. {} \in P
  <2>1. {} \in SUBSET S /\ m \notin {}
    OBVIOUS
  <2>2. u[{}] = 0 /\ v[{}] = 0
    BY <1>1, <1>2, <2>1 DEF IsSum, SumStep
  <2> QED BY <2>1, <2>2
<1>4. ASSUME NEW T \in SUBSET S, T # {}, T \ {Some(T)} \in P PROVE T \in P
  <2>1. PICK x : x = Some(T)
    OBVIOUS
  <2>2. PICK R : R = T \ {x}
    OBVIOUS
  <2>3. x \in T /\ x \in S /\ R \in SUBSET S
    BY <1>4, <2>1, <2>2, SomeOut
  <2>4. u[T] = f[x] + u[R] /\ v[T] = g[x] + v[R]
    BY <1>1, <1>2, <1>4, <2>1, <2>2 DEF IsSum, SumStep
  <2>5. v[R] = u[R] + (IF m \in R THEN k ELSE 0)
    BY <1>4, <2>1, <2>2
  <2>6. u[R] \in Nat /\ f[x] \in Nat
    BY <2>3
  <2>7. CASE x = m
    BY <2>2, <2>3, <2>4, <2>5, <2>6, <2>7
  <2>8. CASE x # m
    <3>1. m \in R <=> m \in T
      BY <2>2, <2>8
    <3>2. g[x] = f[x]
      BY <2>3, <2>8
    <3> QED BY <2>4, <2>5, <2>6, <3>1, <3>2
  <2> QED BY <2>7, <2>8
<1>5. SUBSET S \subseteq P
  <2> HIDE DEF P
  <2> QED BY <1>3, <1>4, SubsetInduction
<1> QED BY <1>1, <1>2, <1>5

-----------------------------------------------------------------------------
(* The counts of the dictionary *)

(* There are finitely many uploads.                                        *)
LEMMA UploadsFinite == IsFiniteSet(Uploads)
<1> DEFINE Of(u) == {[url |-> u, chunk |-> c] : c \in 1..Len(Article[u])}
           All == {Of(u) : u \in Urls}
<1>1. ASSUME NEW u \in Urls PROVE IsFiniteSet(Of(u))
  <2> DEFINE f == [c \in 1..Len(Article[u]) |-> [url |-> u, chunk |-> c]]
  <2>1. IsFiniteSet(1..Len(Article[u]))
    BY Bounds, FS_Interval, SMTT(60)
  <2>2. f \in Surjection(1..Len(Article[u]), Of(u))
    BY DEF Surjection
  <2> HIDE DEF f, Of
  <2> QED BY <2>1, <2>2, FS_Surjection
<1>2. IsFiniteSet(All)
  <2> HIDE DEF Of
  <2> DEFINE f == [u \in Urls |-> Of(u)]
  <2>1. IsFiniteSet(Urls)
    BY TrainAssumption
  <2>2. f \in Surjection(Urls, All)
    BY DEF Surjection
  <2> HIDE DEF f, All
  <2> QED BY <2>1, <2>2, FS_Surjection
<1>3. IsFiniteSet(UNION All)
  <2>1. \A T \in All : IsFiniteSet(T)
    <3> HIDE DEF Of
    <3> QED BY <1>1
  <2> HIDE DEF All
  <2> QED BY <1>2, <2>1, FS_UNION
<1> QED BY <1>3 DEF Uploads

LEMMA CountType ==
  ASSUME NEW m \in Uploads, NEW l, NEW w \in Words
  PROVE  CountOf(m, l, w) \in Nat
BY UploadShape DEF CountOf

(* What has been received, while nothing more is.                          *)
Terms(l, w) == [m \in Uploads |-> saved[m] * CountOf(m, l, w)]

LEMMA TermsType ==
  ASSUME TypeOK, NEW l, NEW w \in Words
  PROVE  Terms(l, w) \in [Uploads -> Nat]
<1> SUFFICES ASSUME NEW m \in Uploads PROVE saved[m] * CountOf(m, l, w) \in Nat
  BY DEF Terms
<1>1. saved[m] \in Nat
  BY Bounds DEF TypeOK
<1>2. CountOf(m, l, w) \in Nat
  BY CountType
<1> QED BY <1>1, <1>2

LEMMA ReceivedType ==
  ASSUME TypeOK, NEW l, NEW w \in Words
  PROVE  Received(l, w) \in Nat
<1>1. PICK u \in [SUBSET Uploads -> Nat] : SumOver(Terms(l, w), Uploads) = u[Uploads]
  BY UploadsFinite, TermsType, SumIs
<1>2. Received(l, w) = u[Uploads]
  BY <1>1 DEF Received, Terms
<1> QED BY <1>2

LEMMA OutstandingType ==
  ASSUME TypeOK, NEW l, NEW w \in Words
  PROVE  Outstanding(l, w) \in Nat
BY CountType DEF Outstanding, TypeOK

(* An upload that is received is owed to the dictionary.                   *)
LEMMA ReceivedGrows ==
  ASSUME TypeOK, TypeOK', NEW m \in Uploads, saved' = [saved EXCEPT ![m] = @ + 1], NEW l, NEW w \in Words
  PROVE  Received(l, w)' = Received(l, w) + CountOf(m, l, w)
<1> DEFINE f == Terms(l, w)
           g == [n \in Uploads |-> saved'[n] * CountOf(n, l, w)]
           k == CountOf(m, l, w)
<1>1. f \in [Uploads -> Nat] /\ k \in Nat
  BY TermsType, CountType
<1>2. \A n \in Uploads \ {m} : g[n] = f[n]
  <2>1. \A n \in Uploads \ {m} : saved'[n] = saved[n]
    BY DEF TypeOK
  <2> QED BY <2>1 DEF Terms
<1>3. g[m] = f[m] + k
  <2>1. saved'[m] = saved[m] + 1 /\ saved[m] \in Nat
    BY Bounds DEF TypeOK
  <2>2. (saved[m] + 1) * k = saved[m] * k + k
    BY <1>1, <2>1
  <2>3. g[m] = saved'[m] * k /\ f[m] = saved[m] * k
    BY DEF Terms
  <2> QED BY <2>1, <2>2, <2>3
<1>4. g \in [Uploads -> Nat]
  <2>1. \A n \in Uploads : g[n] \in Nat
    BY <1>1, <1>2, <1>3
  <2> QED BY <2>1
<1>5. SumOver(g, Uploads) = SumOver(f, Uploads) + k
  <2> HIDE DEF f, g, k
  <2> QED BY <1>1, <1>2, <1>3, <1>4, UploadsFinite, SumGrows
<1>6. Received(l, w) = SumOver(f, Uploads)
  BY DEF Received, Terms
<1>7. Received(l, w)' = SumOver(g, Uploads)
  BY DEF Received, CountOf, Counts
<1> QED BY <1>5, <1>6, <1>7

(* The counts stay exact in every step.                                    *)
LEMMA DictStep ==
  ASSUME TypeOK, Opened, Fresh, DictExact, [Next]_vars PROVE DictExact'
<1>0. TypeOK'
  BY TypeStep
<1> DEFINE Balance(l, w) ==
             /\ dict[l][w] + Outstanding(l, w) <= Received(l, w)
             /\ crashes = 0 => dict[l][w] + Outstanding(l, w) = Received(l, w)
<1>a. ASSUME NEW l \in LangSet, NEW w \in Words
      PROVE  /\ Balance(l, w)
             /\ dict[l][w] \in Nat /\ Outstanding(l, w) \in Nat /\ Received(l, w) \in Nat
             /\ crashes \in Nat
  <2>1. Balance(l, w)
    BY DEF DictExact
  <2>2. dict[l][w] \in Nat /\ crashes \in Nat
    BY Bounds DEF TypeOK
  <2> QED BY <2>1, <2>2, OutstandingType, ReceivedType
<1>b. ASSUME \A l \in LangSet, w \in Words : Balance(l, w)' PROVE DictExact'
  BY <1>b DEF DictExact
<1>c. ASSUME UNCHANGED <<dict, saved, crashes>>,
             \A l \in LangSet, w \in Words : Outstanding(l, w)' = Outstanding(l, w)
      PROVE  DictExact'
  <2> SUFFICES ASSUME NEW l \in LangSet, NEW w \in Words PROVE Balance(l, w)'
    BY <1>b
  <2>1. Received(l, w)' = Received(l, w)
    BY <1>c DEF Received, CountOf, Counts
  <2>2. Outstanding(l, w)' = Outstanding(l, w) /\ dict'[l][w] = dict[l][w] /\ crashes' = crashes
    BY <1>c
  <2> QED BY <1>a, <2>1, <2>2
<1>1. ASSUME UNCHANGED <<dict, saved, crashes, saver>> PROVE DictExact'
  BY <1>1, <1>c DEF Outstanding, CountOf, Counts
<1>2. ASSUME NEW m \in Uploads, SaveTask(m) PROVE DictExact'
  <2> SUFFICES ASSUME NEW l \in LangSet, NEW w \in Words PROVE Balance(l, w)'
    BY <1>b
  <2>1. /\ savePc = "idle" /\ savePc' = "mark" /\ saveMsg' = m
        /\ saveWords' = {x \in Words : Counts(m)[x] > 0}
        /\ saved' = [saved EXCEPT ![m] = @ + 1] /\ dict' = dict /\ crashes' = crashes
    BY <1>2 DEF SaveTask
  <2>2. Received(l, w)' = Received(l, w) + CountOf(m, l, w)
    BY <1>0, <2>1, ReceivedGrows
  <2>3. Outstanding(l, w) = 0
    BY <2>1 DEF Outstanding
  <2>4. Outstanding(l, w)' = CountOf(m, l, w)
    <3>1. w \notin saveWords' => CountOf(m, l, w) = 0
      BY <2>1, UploadShape DEF CountOf
    <3>2. Outstanding(l, w)' = IF w \in saveWords' THEN CountOf(m, l, w) ELSE 0
      BY <2>1 DEF Outstanding, CountOf, Counts
    <3> QED BY <3>1, <3>2
  <2>5. CountOf(m, l, w) \in Nat
    BY CountType
  <2> QED BY <1>a, <2>1, <2>2, <2>3, <2>4, <2>5
<1>3. ASSUME MarkDone \/ MarkRemove PROVE DictExact'
  <2>1. /\ UNCHANGED <<dict, saved, crashes, saveMsg, saveWords>>
        /\ savePc # "idle" /\ savePc' # "idle"
    BY <1>3 DEF MarkDone, MarkRemove
  <2> QED BY <2>1, <1>c DEF Outstanding, CountOf, Counts
<1>4. ASSUME NEW x \in Words, PutWord(x) PROVE DictExact'
  <2> SUFFICES ASSUME NEW l \in LangSet, NEW w \in Words PROVE Balance(l, w)'
    BY <1>b
  <2>1. /\ savePc = "words" /\ x \in saveWords
        /\ saveWords' = saveWords \ {x} /\ UNCHANGED <<savePc, saveMsg, saved, crashes>>
    BY <1>4 DEF PutWord
  <2>6. \/ dict' = [dict EXCEPT ![LangOf[saveMsg.url]][x] = @ + Counts(saveMsg)[x]]
        \/ crashes # 0 /\ dict' = dict
    <3> DEFINE s == DictAt(SaveLang)
    <3>1. CASE Open(s)
      BY <1>4, <3>1 DEF PutWord, Added, SaveLang
    <3>2. CASE ~Open(s)
      <4>1. Made(s) /\ s \in 1..Storages /\ savePc # "idle" /\ dict' = dict
        BY <1>4, <3>2, SaveLangIn DEF PutWord
      <4>2. crashes # 0
        BY <3>2, <4>1, Window
      <4> QED
        BY <4>1, <4>2
    <3> QED
      BY <3>1, <3>2
  <2>2. Received(l, w)' = Received(l, w)
    BY <2>1 DEF Received, CountOf, Counts
  <2>3. saveMsg \in Uploads
    BY <2>1 DEF TypeOK
  <2>4. CASE w = x
    <3>1. Outstanding(l, w) = CountOf(saveMsg, l, w) /\ Outstanding(l, w)' = 0
      BY <2>1, <2>4 DEF Outstanding
    <3>2. \/ dict'[l][w] = dict[l][w] + CountOf(saveMsg, l, w)
          \/ crashes # 0 /\ dict'[l][w] = dict[l][w]
      <4>1. CASE l = LangOf[saveMsg.url]
        BY <2>4, <2>6, <4>1 DEF CountOf, TypeOK
      <4>2. CASE l # LangOf[saveMsg.url]
        <5>1. dict'[l][w] = dict[l][w]
          BY <2>6, <4>2 DEF TypeOK
        <5> QED BY <1>a, <4>2, <5>1 DEF CountOf
      <4> QED BY <4>1, <4>2
    <3>3. CountOf(saveMsg, l, w) \in Nat
      BY <2>3, CountType
    <3> QED BY <1>a, <2>1, <2>2, <3>1, <3>2, <3>3
  <2>5. CASE w # x
    <3>1. Outstanding(l, w)' = Outstanding(l, w)
      BY <2>1, <2>5 DEF Outstanding, CountOf, Counts
    <3>2. dict'[l][w] = dict[l][w]
      <4>1. /\ dict \in [LangSet -> [Words -> Nat]] /\ LangOf[saveMsg.url] \in LangSet
            /\ Counts(saveMsg)[x] \in Nat
        BY <2>3, UploadShape, Bounds DEF TypeOK
      <4> QED BY <2>5, <2>6, <4>1, OneCount
    <3> QED BY <1>a, <2>1, <2>2, <3>1, <3>2
  <2> QED BY <2>4, <2>5
<1>5. ASSUME SaveReply PROVE DictExact'
  <2>1. UNCHANGED <<dict, saved, crashes>> /\ saveWords = {} /\ savePc' = "idle"
    BY <1>5 DEF SaveReply
  <2> QED BY <2>1, <1>c DEF Outstanding
<1>6. ASSUME Die PROVE DictExact'
  <2> SUFFICES ASSUME NEW l \in LangSet, NEW w \in Words PROVE Balance(l, w)'
    BY <1>b
  <2>1. Received(l, w)' = Received(l, w)
    BY <1>6 DEF Die, Received, CountOf, Counts
  <2>2. Outstanding(l, w)' = 0 /\ crashes' = crashes + 1 /\ dict'[l][w] = dict[l][w]
    BY <1>6 DEF Die, Outstanding
  <2> QED BY <1>a, <2>1, <2>2
<1>7. CASE Crash \/ NullStorage
  BY <1>6, <1>7 DEF Crash, NullStorage
<1>8. CASE StartDB
  BY <1>1, <1>8 DEF StartDB
<1>9. CASE FindNothing \/ FindTodo \/ FindDone \/ WaitTodo \/ SpuriousWake \/ Restart \/ UNCHANGED vars
  BY <1>1, <1>9 DEF FindNothing, FindTodo, FindDone, WaitTodo, SpuriousWake, Restart
<1>10. ASSUME NEW u \in Urls, CheckDone(u) \/ PushOne(u) PROVE DictExact'
  BY <1>1, <1>10 DEF CheckDone, PushOne
<1>11. ASSUME NEW w \in Workers, NEW l \in LangSet, FetchEmpty(w, l) \/ FetchTask(w, l) \/ FetchRace(w, l)
       PROVE  DictExact'
  BY <1>1, <1>11 DEF FetchEmpty, FetchTask, FetchRace
<1>12. ASSUME NEW w \in Workers, CommitChunk(w) \/ CommitEnd(w) \/ KillWorker(w) PROVE DictExact'
  BY <1>1, <1>12 DEF CommitChunk, CommitEnd, KillWorker
<1> QED
  BY <1>2, <1>3, <1>4, <1>5, <1>7, <1>8, <1>9, <1>10, <1>11, <1>12 DEF Next, Collect, Save

LEMMA InitDict == Init => DictExact
<1> SUFFICES ASSUME Init, NEW l \in LangSet, NEW w \in Words
             PROVE  /\ dict[l][w] + Outstanding(l, w) <= Received(l, w)
                    /\ crashes = 0 => dict[l][w] + Outstanding(l, w) = Received(l, w)
  BY DEF DictExact
<1>1. dict[l][w] = 0 /\ Outstanding(l, w) = 0
  BY DEF Init, Outstanding
<1>2. \A m \in Uploads : Terms(l, w)[m] = 0
  <2> SUFFICES ASSUME NEW m \in Uploads PROVE saved[m] * CountOf(m, l, w) = 0
    BY DEF Terms
  <2>1. saved[m] = 0 /\ CountOf(m, l, w) \in Nat
    BY CountType DEF Init
  <2> QED BY <2>1
<1>3. Terms(l, w) \in [Uploads -> Nat]
  BY <1>2 DEF Terms
<1>4. Received(l, w) = 0
  <2>1. SumOver(Terms(l, w), Uploads) = 0
    BY <1>2, <1>3, UploadsFinite, SumOfNothing
  <2> QED BY <2>1 DEF Received, Terms
<1> QED BY <1>1, <1>4

(* The dictionary holds what was received, upload by upload and word by    *)
(* word, however often an upload is duplicated; only a crash loses counts, *)
(* or the opening of the databases after it.                               *)
THEOREM DictionaryExact == Spec => []DictExact
<1>1. Init => IInv /\ DictExact
  BY InitInv, InitDict
<1>2. IInv /\ DictExact /\ [Next]_vars => IInv' /\ DictExact'
  <2>1. IInv => TypeOK /\ Opened /\ Fresh
    BY DEF IInv
  <2> QED
    BY <2>1, InvStep, DictStep
<1> QED BY <1>1, <1>2, PTL DEF Spec
=============================================================================
