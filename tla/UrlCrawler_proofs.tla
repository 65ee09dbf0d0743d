-------------------------- MODULE UrlCrawler_proofs --------------------------
(***************************************************************************)
(* Proofs about UrlCrawler, for any pages, links, languages, cache size    *)
(* and number of crashes.                                                  *)
(***************************************************************************)
EXTENDS UrlCrawler, FiniteSetTheorems, SequenceTheorems, TLAPS

USE DEF vars, dbs, collect, crawler, receiver, mailbox, write, history

(* An upload names a page and carries a list of pages. *)
LEMMA TextShape ==
  ASSUME NEW m \in Texts
  PROVE  m.url \in Urls /\ m.links \in Seq(Urls)
<1>1. m.url \in Urls /\ m.links \in LinkLists
  BY DEF Texts
<1>2. CASE m.links = <<>>
  BY <1>1, <1>2
<1>3. CASE m.links # <<>>
  <2>1. PICK u \in Urls : m.links \in {Batches[u][i] : i \in 1..Len(Batches[u])}
    <3> DEFINE B(v) == {Batches[v][i] : i \in 1..Len(Batches[v])}
    <3>1. m.links \in UNION {B(v) : v \in Urls}
      BY <1>1, <1>3, Zenon DEF LinkLists
    <3> QED
      BY <3>1, Zenon
  <2>2. Batches[u] \in Seq(Seq(Urls))
    BY CrawlerAssumption
  <2>3. \A i \in 1..Len(Batches[u]) : Batches[u][i] \in Seq(Urls)
    BY <2>2
  <2> QED
    BY <1>1, <2>1, <2>3
<1> QED
  BY <1>2, <1>3

(* A text with the url of one upload and the links of another is a text. *)
LEMMA MixedText ==
  ASSUME NEW m \in Texts, NEW n \in Texts
  PROVE  [url |-> m.url, links |-> n.links] \in Texts
BY DEF Texts

(* The uploads of a page are lists of links. *)
LEMMA BatchesShape ==
  ASSUME NEW u \in Urls
  PROVE  Batches[u] \in Seq(LinkLists) /\ Batches[u] # <<>>
<1>1. Batches[u] \in Seq(Seq(Urls)) /\ Batches[u] # <<>>
  BY CrawlerAssumption
<1>2. ASSUME NEW i \in 1..Len(Batches[u]) PROVE Batches[u][i] \in LinkLists
  BY <1>2 DEF LinkLists
<1> DEFINE n == Len(Batches[u])
<1>3. Batches[u] \in [1..n -> Seq(Urls)] /\ n \in Nat
  BY <1>1, LenProperties
<1>4. Batches[u] \in [1..n -> LinkLists]
  BY <1>2, <1>3
<1> HIDE DEF n
<1>5. Batches[u] \in UNION {[1..k -> LinkLists] : k \in Nat}
  BY <1>3, <1>4, Zenon
<1>6. Batches[u] \in Seq(LinkLists)
  BY <1>5, SeqDef, Zenon
<1> QED
  BY <1>1, <1>6

(* The constants in the form the steps need. *)
LEMMA Bounds ==
  /\ Len(Langs) \in Nat
  /\ MaxFaults \in Nat /\ MaxCrashes \in Nat
  /\ None \notin Urls /\ None \notin Texts /\ Torn \notin Texts /\ Torn # None
  /\ \A i \in 1..Len(Langs) : Seed[Langs[i]] \in Urls
  /\ IsFiniteSet(Urls)
<1>1. \A i \in 1..Len(Langs) : Langs[i] \in LangSet
  BY DEF LangSet
<1>2. Seed \in [LangSet -> Urls] /\ Len(Langs) \in Nat
  BY CrawlerAssumption
<1>3. MaxFaults \in Nat /\ MaxCrashes \in Nat /\ IsFiniteSet(Urls)
  BY CrawlerAssumption
<1>4. None \notin Urls /\ None \notin Texts /\ Torn \notin Texts /\ Torn # None
  BY CrawlerAssumption
<1> QED
  BY <1>1, <1>2, <1>3, <1>4

(* At least one storage is made and opened, and those of a page's language *)
(* are among them.                                                         *)
LEMMA Places ==
  /\ Storages \in Nat /\ Storages > 0
  /\ \A u \in Urls : {MasterAt(u), TodoAt(u)} \subseteq 1..Storages
<1>1. Len(Langs) \in Nat /\ Len(Langs) > 0 /\ LangOf \in [Urls -> LangSet]
  BY CrawlerAssumption
<1>2. ASSUME NEW u \in Urls PROVE {MasterAt(u), TodoAt(u)} \subseteq 1..Storages
  <2>1. IndexOf(LangOf[u]) \in 1..Len(Langs)
    <3>1. LangOf[u] \in LangSet
      BY <1>1
    <3> QED
      BY <3>1 DEF LangSet, IndexOf
  <2>2. PICK i \in 1..Len(Langs) : i = IndexOf(LangOf[u])
    BY <2>1
  <2>3. {2 * i - 1, 2 * i} \subseteq 1..(2 * Len(Langs))
    BY <1>1
  <2> QED
    BY <2>2, <2>3 DEF MasterAt, TodoAt, Storages
<1> QED
  BY <1>1, <1>2 DEF Storages

(* The writer, with an upload in its hands, meets a storage that is made   *)
(* and not open only while they are being opened, and after a crash.       *)
LEMMA Window ==
  ASSUME TypeOK, Opened, Fresh, writer \in {"mark", "remove", "links", "add"},
         NEW i \in 1..Storages, Made(i), ~Open(i)
  PROVE  crashes # 0 /\ collector = "opening"
<1>1. Storages \in Nat /\ ready \in Nat
  BY Places DEF TypeOK
<1>2. ready < 2 * Storages /\ ready # 0
  BY <1>1 DEF Made, Open
<1> QED
  BY <1>2 DEF Opened, Fresh

(* Every step keeps the types. *)
LEMMA TypeStep ==
  ASSUME TypeOK, Opened, [Next]_vars PROVE TypeOK'
<1> USE DEF TypeOK
<1>1. ASSUME StartDB PROVE TypeOK'
  <2>1. ready + 1 \in 0..(2 * Storages)
    BY <1>1, Places DEF StartDB, Opened
  <2> QED
    BY <1>1, <2>1 DEF StartDB
<1>2. ASSUME FindNothing PROVE TypeOK'
  BY <1>2, Bounds DEF FindNothing
<1>3. ASSUME FindTodo PROVE TypeOK'
  BY <1>3, Bounds DEF FindTodo, Gets, OfLang
<1>4. ASSUME NEW u \in Urls, PushOne(u) PROVE TypeOK'
  BY <1>4 DEF PushOne
<1>5. ASSUME FindDone PROVE TypeOK'
  BY <1>5, Bounds DEF FindDone
<1>6. ASSUME WaitTodo \/ SpuriousWake PROVE TypeOK'
  BY <1>6, Bounds, SMTT(60) DEF WaitTodo, SpuriousWake
<1>7. ASSUME NEW l \in LangSet, FetchEmpty(l) PROVE TypeOK'
  BY <1>7, Bounds DEF FetchEmpty
<1>8. ASSUME NEW u \in Urls, Download(u)
      PROVE  page' \in Urls /\ rest' \in Seq(LinkLists) /\ rest' # <<>> /\ faults' \in 0..MaxFaults
  <2>1. <<>> \in LinkLists
    BY DEF LinkLists
  <2>2. << <<>> >> \in Seq(LinkLists) /\ << <<>> >> # <<>>
    BY <2>1
  <2>3. CASE rest' = Batches[u] /\ UNCHANGED faults
    BY <1>8, <2>3, BatchesShape DEF Download
  <2>4. CASE rest' = << <<>> >> /\ Fault
    BY <1>8, <2>2, <2>4, Bounds DEF Download, Fault
  <2> QED
    BY <1>8, <2>3, <2>4 DEF Download
<1>9. ASSUME NEW l \in LangSet, FetchTask(l) PROVE TypeOK'
  <2>1. PICK u \in Urls : cache' = cache \ {u} /\ (Download(u) \/ (Fault /\ UNCHANGED crawler))
    BY <1>9 DEF FetchTask, OfLang
  <2>2. CASE Download(u)
    BY <1>8, <1>9, <2>1, <2>2, Bounds DEF FetchTask
  <2>3. CASE Fault /\ UNCHANGED crawler
    BY <1>9, <2>1, <2>3, Bounds DEF FetchTask, Fault
  <2> QED
    BY <2>1, <2>2, <2>3
<1>10. ASSUME NEW l \in LangSet, FetchRace(l) PROVE TypeOK'
  <2>1. PICK u \in Urls, v \in Urls :
             /\ toPush' = toPush \ {v}
             /\ \/ \E kept \in {{v}, {u, v}} : cache' = (cache \ {u}) \cup kept /\ Download(u)
                \/ /\ \E kept \in {{}, {u}} : cache' = (cache \ {u}) \cup kept
                   /\ page' = u /\ rest' = Batches[u] /\ Fault
    BY <1>10 DEF FetchRace, OfLang
  <2>2. cache' \subseteq Urls /\ toPush' \subseteq Urls
    BY <2>1
  <2>3. page' \in Urls /\ rest' \in Seq(LinkLists) /\ rest' # <<>> /\ faults' \in 0..MaxFaults
    <3>1. CASE Download(u)
      BY <1>8, <3>1
    <3>2. CASE page' = u /\ rest' = Batches[u] /\ Fault
      BY <3>2, BatchesShape, Bounds DEF Fault
    <3> QED
      BY <2>1, <3>1, <3>2
  <2> QED
    BY <1>10, <2>2, <2>3, Bounds DEF FetchRace
<1>11. ASSUME Up PROVE TypeOK'
  <2>1. page \in Urls /\ rest \in Seq(LinkLists) /\ rest # <<>>
    BY <1>11 DEF Up
  <2>2. Head(rest) \in LinkLists /\ Tail(rest) \in Seq(LinkLists)
    BY <2>1
  <2>3. [url |-> page, links |-> Head(rest)] \in Texts
    BY <2>1, <2>2 DEF Texts
  <2>4. IF page' = None THEN rest' = <<>>
        ELSE page' \in Urls /\ rest' \in Seq(LinkLists) /\ rest' # <<>>
    BY <1>11, <2>1, <2>2, Bounds DEF Up
  <2>5. uploads' \subseteq Texts /\ faults' \in 0..MaxFaults
    BY <1>11, <2>3, Bounds, SMTT(60) DEF Up, Fault
  <2> QED
    BY <1>11, <2>4, <2>5, ZenonT(60) DEF Up
<1>12. ASSUME KillCrawler PROVE TypeOK'
  BY <1>12, Bounds DEF KillCrawler, Fault
<1>13. ASSUME NEW m \in Texts, Receive(m) PROVE TypeOK'
  BY <1>13, Bounds DEF Receive, Fault
<1>14. ASSUME StoreTask PROVE TypeOK'
  BY <1>14 DEF StoreTask
<1>15. ASSUME SetFlag PROVE TypeOK'
  BY <1>15 DEF SetFlag
<1>16. ASSUME Notify PROVE TypeOK'
  BY <1>16 DEF Notify
<1>17. ASSUME WaitTask \/ SpuriousTask PROVE TypeOK'
  BY <1>17 DEF WaitTask, SpuriousTask
<1>18. ASSUME ReadTask PROVE TypeOK'
  <2>1. TaskReads \subseteq Texts \cup {Torn, None}
    BY MixedText DEF TaskReads
  <2> QED
    BY <1>18, <2>1 DEF ReadTask
<1>19. ASSUME ClearFlag PROVE TypeOK'
  BY <1>19 DEF ClearFlag
<1>20. ASSUME MarkMaster PROVE TypeOK'
  BY <1>20, TextShape DEF MarkMaster
<1>21. ASSUME MarkRemove PROVE TypeOK'
  <2>1. text \in Texts /\ text.links \in Seq(Urls \cup {None})
    BY <1>21, TextShape DEF MarkRemove
  <2>2. tokens' \in Seq(Urls \cup {None}) /\ tokens' # <<>>
    BY <1>21, <2>1 DEF MarkRemove
  <2>3. todo' \subseteq Urls /\ missed' \subseteq Urls
    BY <1>21, <2>1, TextShape DEF MarkRemove
  <2> QED
    BY <1>21, <2>1, <2>2, <2>3 DEF MarkRemove
<1>22. ASSUME LookLink \/ AddLink PROVE TypeOK'
  <2>1. /\ tokens \in Seq(Urls \cup {None}) /\ tokens # <<>> /\ text \in Texts
        /\ writer = "add" => Head(tokens) # None
    BY <1>22 DEF LookLink, AddLink
  <2>2. Head(tokens) \in Urls \cup {None} /\ Tail(tokens) \in Seq(Urls \cup {None})
    BY <2>1
  <2>3. todo' \subseteq Urls /\ missed' \subseteq Urls
    BY <1>22, <2>1, <2>2 DEF LookLink, AddLink
  <2>4. ASSUME NextToken
        PROVE  /\ writer' \in {"starting", "links"}
               /\ text' \in IF writer' = "starting" THEN {None} ELSE Texts
               /\ IF writer' = "links" THEN tokens' \in Seq(Urls \cup {None}) /\ tokens' # <<>>
                  ELSE tokens' = <<>>
    BY <2>1, <2>2, <2>4 DEF NextToken
  <2>5. UNCHANGED <<master, collect, crawler, uploads, receiver, mailbox, faults, crashes>>
    BY <1>22 DEF LookLink, AddLink
  <2>6. NextToken \/ (writer' = "add" /\ UNCHANGED <<text, tokens>> /\ Head(tokens) # None)
    BY <1>22 DEF LookLink, AddLink
  <2>7. CASE NextToken
    BY <2>3, <2>4, <2>5, <2>7
  <2>8. CASE writer' = "add" /\ UNCHANGED <<text, tokens>> /\ Head(tokens) # None
    BY <2>1, <2>3, <2>5, <2>8
  <2> QED
    BY <2>6, <2>7, <2>8
<1>23. ASSUME Crash \/ NullStorage PROVE TypeOK'
  <2>1. Die
    BY <1>23 DEF Crash, NullStorage
  <2>2. uploads' \subseteq Texts /\ crashes' \in 0..MaxCrashes
    BY <2>1, Bounds DEF Die
  <2>3. scan' \in 1..(Len(Langs) + 1)
    BY <2>1, Bounds DEF Die
  <2>4. UNCHANGED <<dbs, crawler, faults, missed>> /\ ready' \in 0..(2 * Storages)
    BY <2>1, Places DEF Die
  <2>5. collector' = "down" /\ cache' = {} /\ toPush' = {} /\ recvPc' = "idle"
        /\ recvText' = None /\ gTask' = None /\ gNewTaskFlag' = FALSE
        /\ writer' = "starting" /\ text' = None /\ tokens' = <<>>
    BY <2>1 DEF Die
  <2> QED
    BY <2>2, <2>3, <2>4, <2>5
<1>24. ASSUME Restart PROVE TypeOK'
  BY <1>24 DEF Restart
<1>25. CASE UNCHANGED vars
  BY <1>25
<1> QED
  BY <1>1, <1>2, <1>3, <1>4, <1>5, <1>6, <1>7, <1>9, <1>10, <1>11, <1>12, <1>13, <1>14, <1>15, <1>16, <1>17, <1>18, <1>19, <1>20, <1>21, <1>22, <1>23, <1>24, <1>25
  DEF Next, Collect, Fetch, Save, Write

(* A step that is neither the writer's work on an upload nor a crash.      *)
Aside ==
  /\ UNCHANGED <<todo, master, missed, crashes>>
  /\ \/ UNCHANGED <<text, tokens, writer>>
     \/ {writer, writer'} \cap {"remove", "links", "add"} = {}

(* Only the writer changes the databases. *)
LEMMA WriterStep ==
  ASSUME [Next]_vars
  PROVE  MarkMaster \/ MarkRemove \/ LookLink \/ AddLink \/ Die \/ Aside
<1>1. CASE Collect \/ SpuriousWake \/ Restart
  BY <1>1 DEF Aside, Collect, StartDB, FindNothing, FindTodo, PushOne, FindDone, WaitTodo, SpuriousWake, Restart
<1>2. CASE \E l \in LangSet : Fetch(l)
  BY <1>2 DEF Aside, Fetch, FetchEmpty, FetchTask, FetchRace
<1>3. CASE Up \/ KillCrawler \/ \E m \in Texts : Receive(m)
  BY <1>3 DEF Aside, Up, KillCrawler, Receive
<1>4. CASE Save
  BY <1>4 DEF Aside, Save, StoreTask, SetFlag, Notify
<1>5. CASE WaitTask \/ SpuriousTask \/ ReadTask \/ ClearFlag
  BY <1>5 DEF Aside, WaitTask, SpuriousTask, ReadTask, ClearFlag
<1>6. CASE Crash \/ NullStorage
  BY <1>6 DEF Crash, NullStorage
<1>7. CASE UNCHANGED vars
  BY <1>7 DEF Aside
<1> QED
  BY <1>1, <1>2, <1>3, <1>4, <1>5, <1>6, <1>7 DEF Next, Write

(* Until the databases are open for the first time nothing is uploaded.    *)
LEMMA OpenStep ==
  ASSUME TypeOK, Opened, Fresh, Next
  PROVE  Opened' /\ Fresh'
<1>0. Storages \in Nat /\ Storages > 0 /\ ready \in 0..(2 * Storages) /\ crashes \in Nat
  BY Places, Bounds DEF TypeOK
<1>1. ASSUME UNCHANGED <<collector, ready, crashes>>,
             collector = "opening" => crashes # 0,
             collector \in {"down", "opening"} => UNCHANGED <<cache, toPush>>
      PROVE  Opened' /\ Fresh'
  BY <1>1 DEF Opened, Fresh
<1>2. CASE StartDB
  <2>1. ready < 2 * Storages /\ ready' = ready + 1
    BY <1>2 DEF StartDB, Opened
  <2>2. Opened'
    BY <1>0, <1>2, <2>1 DEF StartDB, Opened
  <2>3. Fresh'
    BY <1>2 DEF StartDB, Fresh
  <2> QED
    BY <2>2, <2>3
<1>3. ASSUME UNCHANGED <<ready, crashes>>,
             {collector, collector'} \subseteq {"finding", "loading", "waiting"}
      PROVE  Opened' /\ Fresh'
  BY <1>3 DEF Opened, Fresh
<1>4. CASE FindNothing \/ FindTodo \/ FindDone \/ WaitTodo \/ SpuriousWake
  BY <1>3, <1>4 DEF FindNothing, FindTodo, FindDone, WaitTodo, SpuriousWake
<1>5. ASSUME NEW u \in Urls, PushOne(u) PROVE Opened' /\ Fresh'
  BY <1>3, <1>5 DEF PushOne
<1>6. ASSUME NEW l \in LangSet, FetchEmpty(l) PROVE Opened' /\ Fresh'
  <2>1. CASE collector = "waiting"
    BY <1>3, <1>6, <2>1 DEF FetchEmpty
  <2>2. CASE collector # "waiting"
    BY <1>6, <2>2 DEF FetchEmpty, Opened, Fresh
  <2> QED
    BY <2>1, <2>2
<1>7. ASSUME NEW l \in LangSet, FetchTask(l) \/ FetchRace(l) PROVE Opened' /\ Fresh'
  <2>1. cache # {} /\ UNCHANGED <<collector, ready, crashes>>
    BY <1>7 DEF FetchTask, FetchRace, OfLang
  <2>2. collector \notin {"down", "opening"}
    BY <2>1 DEF Opened
  <2> QED
    BY <1>1, <2>1, <2>2
<1>8. CASE Up \/ KillCrawler \/ \E m \in Texts : Receive(m)
  <2>1. UNCHANGED <<collect, crashes>> /\ (page # None \/ uploads # {})
    BY <1>8 DEF Up, KillCrawler, Receive
  <2> QED
    BY <1>1, <2>1 DEF Fresh
<1>9. CASE Save
  <2>1. UNCHANGED <<collect, crashes>> /\ recvPc # "idle"
    BY <1>9 DEF Save, StoreTask, SetFlag, Notify
  <2> QED
    BY <1>1, <2>1 DEF Fresh
<1>10. CASE WaitTask \/ SpuriousTask
  BY <1>10 DEF WaitTask, SpuriousTask, Opened, Fresh
<1>11. CASE ReadTask
  <2>1. UNCHANGED <<collect, crashes, page, uploads, recvPc, gTask>>
        /\ \E t \in TaskReads : writer' = IF t = None THEN "starting" ELSE "taken"
    BY <1>11 DEF ReadTask
  <2>2. Opened'
    BY <2>1 DEF Opened
  <2>3. recvPc = "idle" /\ gTask = None => TaskReads = {None}
    BY DEF TaskReads
  <2>4. Fresh'
    BY <2>1, <2>3 DEF Fresh
  <2> QED
    BY <2>2, <2>4
<1>12. CASE ClearFlag \/ MarkMaster \/ MarkRemove \/ LookLink \/ AddLink
  <2>1. UNCHANGED <<collect, crashes>> /\ writer \notin {"starting", "waiting", "woken"}
    BY <1>12 DEF ClearFlag, MarkMaster, MarkRemove, LookLink, AddLink
  <2> QED
    BY <1>1, <2>1 DEF Fresh
<1>13. CASE Crash \/ NullStorage
  <2>1. /\ crashes' = crashes + 1 /\ collector' = "down" /\ ready' = 0
        /\ cache' = {} /\ toPush' = {}
    BY <1>13 DEF Crash, NullStorage, Die
  <2> QED
    BY <1>0, <2>1 DEF Opened, Fresh
<1>14. CASE Restart
  <2>1. /\ ready = 0 /\ crashes > 0 /\ collector' = "opening"
        /\ UNCHANGED <<ready, crashes>> /\ cache' = cache /\ toPush' = toPush
    BY <1>14 DEF Restart, Opened
  <2>2. cache = {} /\ toPush = {}
    BY <1>14 DEF Restart, Opened
  <2> QED
    BY <1>0, <2>1, <2>2 DEF Opened, Fresh
<1> QED
  BY <1>2, <1>4, <1>5, <1>6, <1>7, <1>8, <1>9, <1>10, <1>11, <1>12, <1>13, <1>14
  DEF Next, Collect, Fetch, Write

(* What markCrawler does: the url is in master, or it is missed; and then  *)
(* a crash came before.                                                    *)
LEMMA MasterMarked ==
  ASSUME TypeOK, Opened, Fresh, MarkMaster
  PROVE  \/ master' = master \cup {text.url} /\ missed' = missed \ {text.url}
         \/ master' = master /\ missed' = missed \cup {text.url} /\ crashes # 0
<1>1. writer = "mark" /\ Made(MasterAt(text.url)) /\ MasterAt(text.url) \in 1..Storages
  BY TextShape, Places DEF MarkMaster, TypeOK
<1>2. CASE Open(MasterAt(text.url))
  BY <1>2 DEF MarkMaster
<1>3. CASE ~Open(MasterAt(text.url))
  <2>1. crashes # 0
    BY <1>1, <1>3, Window
  <2> QED
    BY <1>3, <2>1 DEF MarkMaster
<1> QED
  BY <1>2, <1>3

LEMMA TodoMarked ==
  ASSUME TypeOK, Opened, Fresh, MarkRemove
  PROVE  \/ todo' = todo \ {text.url} /\ missed' = missed
         \/ todo' = todo /\ missed' = missed \cup {text.url} /\ crashes # 0
<1>1. writer = "remove" /\ Made(TodoAt(text.url)) /\ TodoAt(text.url) \in 1..Storages
  BY TextShape, Places DEF MarkRemove, TypeOK
<1>2. CASE Open(TodoAt(text.url))
  BY <1>2 DEF MarkRemove
<1>3. CASE ~Open(TodoAt(text.url))
  <2>1. crashes # 0
    BY <1>1, <1>3, Window
  <2> QED
    BY <1>3, <2>1 DEF MarkRemove
<1> QED
  BY <1>2, <1>3

(* What newCrawler does to the databases: the look-up nothing, the add one *)
(* link.                                                                   *)
LEMMA LinkLooked ==
  ASSUME TypeOK, Opened, Fresh, LookLink
  PROVE  /\ UNCHANGED <<todo, master>>
         /\ \/ missed' = missed
            \/ missed' = missed \cup {Head(tokens)} /\ crashes # 0
         /\ \/ NextToken /\ Head(tokens) \in master \cup {None}
            \/ /\ writer' = "add" /\ UNCHANGED <<text, tokens>>
               /\ Head(tokens) \in master => Head(tokens) \in missed'
<1>1. writer = "links" /\ tokens \in Seq(Urls \cup {None}) /\ tokens # <<>>
  BY DEF LookLink, TypeOK
<1>2. Head(tokens) \in Urls \cup {None}
  BY <1>1
<1>3. UNCHANGED <<todo, master>>
  BY DEF LookLink
<1>4. CASE Head(tokens) = None \/ Open(MasterAt(Head(tokens)))
  BY <1>3, <1>4 DEF LookLink
<1>5. CASE Head(tokens) # None /\ ~Open(MasterAt(Head(tokens)))
  <2>1. Made(MasterAt(Head(tokens))) /\ MasterAt(Head(tokens)) \in 1..Storages
    BY <1>2, <1>5, Places DEF LookLink
  <2>2. crashes # 0
    BY <1>1, <1>5, <2>1, Window
  <2>3. missed' = missed \cup {Head(tokens)} /\ writer' = "add" /\ UNCHANGED <<text, tokens>>
    BY <1>5 DEF LookLink
  <2> QED
    BY <1>3, <2>2, <2>3
<1> QED
  BY <1>4, <1>5

LEMMA LinkAdded ==
  ASSUME TypeOK, Opened, Fresh, AddLink
  PROVE  /\ UNCHANGED master
         /\ \/ todo' = todo \cup {Head(tokens)} /\ missed' = missed
            \/ todo' = todo /\ missed' = missed \cup {Head(tokens)} /\ crashes # 0
         /\ NextToken
<1>1. writer = "add" /\ Head(tokens) \in Urls
  BY DEF AddLink, TypeOK
<1>2. CASE Open(TodoAt(Head(tokens)))
  BY <1>2 DEF AddLink
<1>3. CASE ~Open(TodoAt(Head(tokens)))
  <2>1. Made(TodoAt(Head(tokens))) /\ TodoAt(Head(tokens)) \in 1..Storages
    BY <1>1, Places DEF AddLink
  <2>2. crashes # 0
    BY <1>1, <1>3, <2>1, Window
  <2> QED
    BY <1>3, <2>2 DEF AddLink
<1> QED
  BY <1>2, <1>3

(* A url being marked is in master, or missed, until it is out of todo.    *)
LEMMA MarkedStep ==
  ASSUME TypeOK, Opened, Fresh, Marked, [Next]_vars
  PROVE  Marked'
<1>1. CASE MarkMaster
  <2>1. text' = text
    BY <1>1 DEF MarkMaster
  <2> QED
    BY <1>1, <2>1, MasterMarked DEF Marked
<1>2. CASE MarkRemove \/ Die
  BY <1>2 DEF MarkRemove, Die, Marked
<1>3. CASE LookLink \/ AddLink
  BY <1>3 DEF LookLink, AddLink, NextToken, Marked
<1>4. CASE Aside
  BY <1>4 DEF Aside, Marked
<1> QED
  BY <1>1, <1>2, <1>3, <1>4, WriterStep

(* A link about to be added is not in master, or missed.                   *)
LEMMA AddingStep ==
  ASSUME TypeOK, Opened, Fresh, Adding, [Next]_vars
  PROVE  Adding'
<1>1. CASE MarkMaster \/ MarkRemove \/ Die
  BY <1>1 DEF MarkMaster, MarkRemove, Die, Adding
<1>2. CASE LookLink
  BY <1>2, LinkLooked DEF NextToken, Adding
<1>3. CASE AddLink
  BY <1>3 DEF AddLink, NextToken, Adding
<1>4. CASE Aside
  BY <1>4 DEF Aside, Adding
<1> QED
  BY <1>1, <1>2, <1>3, <1>4, WriterStep

(* Every step keeps crawled urls out of todo, up to one per crash, but for *)
(* what a storage not yet open missed.                                     *)
LEMMA OnceStep ==
  ASSUME TypeOK, Opened, Fresh, CrawledOnce, Adding, [Next]_vars
  PROVE  CrawledOnce'
<1> DEFINE Both == (todo \cap master) \ (Marking \cup missed)
           Both1 == (todo' \cap master') \ (Marking' \cup missed')
<1>1. IsFiniteSet(Both) /\ Cardinality(Both) \in Nat
  BY Bounds, FS_Subset, FS_CardinalityType DEF TypeOK
<1>2. crashes \in Nat
  BY Bounds DEF TypeOK
<1>3. ASSUME Both1 \subseteq Both, crashes' = crashes, missed' = missed \/ crashes # 0 \/ missed' \subseteq missed
      PROVE  CrawledOnce'
  <2>1. Cardinality(Both1) \in Nat /\ Cardinality(Both1) <= Cardinality(Both)
    BY <1>1, <1>3, FS_Subset, FS_CardinalityType
  <2>2. Cardinality(Both) <= crashes
    BY DEF CrawledOnce
  <2>3. Cardinality(Both1) <= crashes'
    <3> HIDE DEF Both, Both1
    <3> QED
      BY <1>1, <1>2, <1>3, <2>1, <2>2
  <2>4. crashes' = 0 => missed' = {}
    BY <1>3 DEF CrawledOnce
  <2> QED
    BY <2>3, <2>4 DEF CrawledOnce
<1>4. CASE MarkMaster
  <2>1. Marking = {} /\ Marking' = {text.url} /\ UNCHANGED <<todo, crashes>>
    BY <1>4 DEF MarkMaster, Marking
  <2>2. Both1 \subseteq Both
    BY <1>4, <2>1, MasterMarked
  <2> QED
    BY <1>3, <1>4, <2>1, <2>2, MasterMarked
<1>5. CASE MarkRemove
  <2>1. Marking = {text.url} /\ Marking' = {} /\ UNCHANGED <<master, crashes>>
    BY <1>5 DEF MarkRemove, Marking
  <2>2. Both1 \subseteq Both
    BY <1>5, <2>1, TodoMarked
  <2> QED
    BY <1>3, <1>5, <2>1, <2>2, TodoMarked
<1>6. CASE LookLink
  <2>1. Marking = {} /\ Marking' = {} /\ UNCHANGED crashes
    BY <1>6 DEF LookLink, NextToken, Marking
  <2>2. Both1 \subseteq Both
    BY <1>6, <2>1, LinkLooked
  <2> QED
    BY <1>3, <1>6, <2>1, <2>2, LinkLooked
<1>7. CASE AddLink
  <2>1. Marking = {} /\ Marking' = {} /\ UNCHANGED crashes
    BY <1>7 DEF AddLink, NextToken, Marking
  <2>2. Head(tokens) \in master => Head(tokens) \in missed
    BY <1>7 DEF AddLink, Adding
  <2>3. Both1 \subseteq Both
    BY <1>7, <2>1, <2>2, LinkAdded
  <2> QED
    BY <1>3, <1>7, <2>1, <2>3, LinkAdded
<1>8. CASE Die
  <2>1. crashes' = crashes + 1 /\ Both1 = (todo \cap master) \ missed
    BY <1>8 DEF Die, Marking
  <2>2. Both1 \subseteq Both \cup {text.url}
    BY <2>1 DEF Marking
  <2>3. Cardinality(Both \cup {text.url}) <= Cardinality(Both) + 1
        /\ IsFiniteSet(Both \cup {text.url}) /\ Cardinality(Both \cup {text.url}) \in Nat
    <3> HIDE DEF Both
    <3>1. IsFiniteSet(Both \cup {text.url})
          /\ Cardinality(Both \cup {text.url}) =
               IF text.url \in Both THEN Cardinality(Both) ELSE Cardinality(Both) + 1
      BY <1>1, FS_AddElement
    <3> QED
      BY <1>1, <3>1
  <2>4. Cardinality(Both1) \in Nat /\ Cardinality(Both1) <= Cardinality(Both \cup {text.url})
    BY <2>2, <2>3, FS_Subset, FS_CardinalityType
  <2>5. Cardinality(Both) <= crashes
    BY DEF CrawledOnce
  <2>6. Cardinality(Both1) <= crashes' /\ crashes' # 0
    <3> HIDE DEF Both, Both1
    <3> QED
      BY <1>1, <1>2, <2>1, <2>3, <2>4, <2>5
  <2> QED
    BY <2>6 DEF CrawledOnce
<1>9. CASE Aside
  <2>1. Marking' = Marking
    BY <1>9 DEF Aside, Marking
  <2> QED
    BY <1>3, <1>9, <2>1 DEF Aside
<1> QED
  BY <1>4, <1>5, <1>6, <1>7, <1>8, <1>9, WriterStep

(* The links of a text with the empty token in front. *)
LEMMA LinksShape ==
  ASSUME text \in Texts
  PROVE  /\ Links \in Seq(Urls \cup {None})
         /\ Len(Links) = Len(text.links) + 1 /\ Len(text.links) \in Nat
         /\ Links[1] = None
         /\ \A i \in 1..Len(text.links) : Links[i + 1] = text.links[i]
BY TextShape DEF Links

(* One more token: the links handled so far are known, and so is this one. *)
LEMMA LinkStep ==
  ASSUME TypeOK, Opened, Fresh, Splitting, NextToken, writer \in {"links", "add"},
         todo \cup master \cup missed \cup {Head(tokens)} \subseteq todo' \cup master' \cup missed' \cup {None}
  PROVE  /\ Splitting'
         /\ Tail(tokens) = <<>> =>
              \A i \in 1..Len(text.links) : text.links[i] \in todo' \cup master' \cup missed'
<1>1. text \in Texts /\ tokens \in Seq(Urls \cup {None}) /\ tokens # <<>>
  BY DEF TypeOK
<1>2. Len(Links) \in Nat /\ Len(tokens) \in Nat /\ Len(tokens) >= 1 /\ Handled \in Nat
      /\ Handled = Len(Links) - Len(tokens)
  BY <1>1, LinksShape DEF Splitting, Handled
<1>3. Head(tokens) = Links[Handled + 1]
  BY <1>1, <1>2 DEF Splitting
<1> DEFINE Known == todo' \cup master' \cup missed' \cup {None}
<1>4. \A i \in 1..(Handled + 1) : Links[i] \in Known
  <2>1. ASSUME NEW i \in 1..(Handled + 1) PROVE Links[i] \in Known
    <3>1. CASE i = Handled + 1
      BY <1>3, <3>1
    <3>2. CASE i # Handled + 1
      <4>1. i \in 1..Handled
        BY <1>2, <3>2
      <4>2. Links[i] \in todo \cup master \cup missed \cup {None}
        BY <4>1 DEF Splitting
      <4> QED
        BY <4>2
    <3> QED
      BY <3>1, <3>2
  <2> QED
    BY <2>1
<1>5. ASSUME writer' \in {"links", "add"} PROVE Splitting'
  <2>1. tokens' = Tail(tokens) /\ text' = text /\ Links' = Links
    BY <1>5 DEF NextToken, Links
  <2>2. Handled' = Handled + 1 /\ Len(tokens') = Len(tokens) - 1
    BY <1>1, <1>2, <2>1 DEF Handled
  <2>3. \A i \in 1..Len(tokens') : tokens'[i] = Links'[Handled' + i]
    BY <1>1, <1>2, <2>1, <2>2 DEF Splitting
  <2>4. Handled' \in Nat /\ \A i \in 1..Handled' : Links'[i] \in Known
    BY <1>2, <1>4, <2>1, <2>2
  <2> QED
    BY <2>3, <2>4 DEF Splitting
<1>6. ASSUME Tail(tokens) = <<>>
      PROVE  \A i \in 1..Len(text.links) : text.links[i] \in todo' \cup master' \cup missed'
  <2>1. Len(tokens) = 1
    <3>1. Len(Tail(tokens)) = Len(tokens) - 1
      BY <1>1, HeadTailProperties
    <3>2. Len(Tail(tokens)) = 0
      BY <1>6, EmptySeq
    <3> QED
      BY <1>2, <3>1, <3>2
  <2>2. Handled + 1 = Len(text.links) + 1
    BY <1>1, <1>2, <2>1, LinksShape
  <2>3. ASSUME NEW i \in 1..Len(text.links)
        PROVE  text.links[i] \in todo' \cup master' \cup missed'
    <3>1. text.links[i] \in Urls /\ i + 1 \in 1..(Handled + 1)
      BY <1>1, <2>2, TextShape
    <3>2. Links[i + 1] = text.links[i]
      BY <1>1, LinksShape
    <3> QED
      BY <1>4, <3>1, <3>2, Bounds
  <2> QED
    BY <2>3
<1> QED
  BY <1>5, <1>6 DEF Splitting

(* The bookkeeping is kept while the same links are left.                  *)
LEMMA SplitSame ==
  ASSUME Splitting, UNCHANGED <<text, tokens>>, {writer, writer'} \subseteq {"links", "add"},
         UNCHANGED <<todo, master>>, missed \subseteq missed'
  PROVE  Splitting'
<1>1. Links' = Links /\ Handled' = Handled
  BY DEF Links, Handled
<1> QED
  BY <1>1 DEF Splitting

(* Every step keeps the bookkeeping of the links. *)
LEMMA SplitStep ==
  ASSUME TypeOK, Opened, Fresh, Splitting, [Next]_vars
  PROVE  Splitting'
<1>1. CASE MarkRemove
  <2>1. text \in Texts /\ text' = text /\ tokens' = Links /\ Links' = Links
    BY <1>1 DEF MarkRemove, TypeOK, Links
  <2>2. Handled' = 0
    BY <2>1, LinksShape DEF Handled
  <2> QED
    BY <2>1, <2>2, LinksShape DEF Splitting
<1>2. CASE LookLink
  <2>1. UNCHANGED <<todo, master>> /\ missed \subseteq missed' /\ writer = "links"
    BY <1>2, LinkLooked DEF LookLink
  <2>2. CASE NextToken /\ Head(tokens) \in master \cup {None}
    BY <2>1, <2>2, LinkStep
  <2>3. CASE writer' = "add" /\ UNCHANGED <<text, tokens>>
    BY <2>1, <2>3, SplitSame
  <2> QED
    BY <1>2, <2>2, <2>3, LinkLooked
<1>3. CASE AddLink
  <2>1. writer = "add"
    BY <1>3 DEF AddLink
  <2> QED
    BY <1>3, <2>1, LinkAdded, LinkStep
<1>4. CASE MarkMaster \/ Die
  BY <1>4 DEF MarkMaster, Die, Splitting
<1>5. CASE Aside
  <2>1. CASE UNCHANGED <<text, tokens, writer>> /\ writer \in {"links", "add"}
    BY <1>5, <2>1, SplitSame DEF Aside
  <2>2. CASE writer' \notin {"links", "add"}
    BY <2>2 DEF Splitting
  <2> QED
    BY <1>5, <2>1, <2>2 DEF Aside
<1> QED
  BY <1>1, <1>2, <1>3, <1>4, <1>5, WriterStep

(* The invariant holds in every state: IInv is inductive. *)
THEOREM Invariance == Spec => []IInv
<1>1. Init => IInv
  <2> SUFFICES ASSUME Init PROVE IInv
    OBVIOUS
  <2>1. TypeOK
    <3>1. /\ scan \in 1..(Len(Langs) + 1) /\ ready \in 0..(2 * Storages)
          /\ faults \in 0..MaxFaults /\ crashes \in 0..MaxCrashes
      BY Bounds, Places DEF Init
    <3>2. page = None /\ rest = <<>> /\ writer = "starting" /\ tokens = <<>> /\ text = None
      BY DEF Init
    <3> QED
      BY <3>1, <3>2 DEF Init, TypeOK
  <2>2. CrawledOnce
    BY FS_EmptySet DEF Init, CrawledOnce, Marking
  <2>3. Opened /\ Fresh
    <3>1. 0 < 2 * Storages
      BY Places
    <3> QED
      BY <3>1 DEF Init, Opened, Fresh
  <2> QED
    BY <2>1, <2>2, <2>3 DEF Init, IInv, Splitting, Marked, Adding
<1>2. IInv /\ [Next]_vars => IInv'
  <2> SUFFICES ASSUME IInv, [Next]_vars PROVE IInv'
    OBVIOUS
  <2>1. CASE Next
    BY <2>1, TypeStep, OpenStep, OnceStep, SplitStep, MarkedStep, AddingStep DEF IInv
  <2>2. CASE UNCHANGED vars
    <3>1. Opened' /\ Fresh'
      BY <2>2 DEF IInv, Opened, Fresh
    <3> QED
      BY <2>2, <3>1, TypeStep, OnceStep, SplitStep, MarkedStep, AddingStep DEF IInv
  <2> QED
    BY <2>1, <2>2
<1> QED
  BY <1>1, <1>2, PTL DEF Spec

(* The variables of the crawler service keep their types. *)
THEOREM TypeCorrect == Spec => []TypeOK
<1>1. IInv => TypeOK
  BY DEF IInv
<1> QED
  BY <1>1, Invariance, PTL

(* At most one url per crash is both crawled and still to be crawled, but  *)
(* for those that met a database not open yet, after a crash.              *)
THEOREM NothingCrawledTwice == Spec => []CrawledOnce
<1>1. IInv => CrawledOnce
  BY DEF IInv
<1> QED
  BY <1>1, Invariance, PTL

(* No step, and no crash, forgets a url, but for one whose mark met a      *)
(* master database that was not open yet, after a crash.                   *)
THEOREM NothingForgotten == Spec => KnownStaysKnown
<1> DEFINE Kept == todo \cup master \subseteq todo' \cup master' \cup missed'
<1>1. ASSUME IInv, [Next]_vars PROVE [Kept]_vars
  <2> USE DEF IInv
  <2>1. CASE MarkMaster
    <3>1. todo' = todo
      BY <2>1 DEF MarkMaster
    <3> QED
      BY <1>1, <2>1, <3>1, MasterMarked
  <2>2. CASE MarkRemove
    <3>1. master' = master /\ text.url \in master \cup missed
      BY <1>1, <2>2 DEF MarkRemove, Marked
    <3> QED
      BY <1>1, <2>2, <3>1, TodoMarked
  <2>3. CASE LookLink \/ AddLink
    BY <1>1, <2>3, LinkLooked, LinkAdded
  <2>4. CASE Die \/ Aside
    BY <2>4 DEF Die, Aside
  <2> QED
    BY <1>1, <2>1, <2>2, <2>3, <2>4, WriterStep
<1> QED
  BY <1>1, Invariance, PTL DEF Spec, KnownStaysKnown

(* An upload that is neither given up nor cut short by a crash leaves all  *)
(* its links known, but for those that met a database not open yet.        *)
THEOREM LinksKept == Spec => CompletedLinksKnown
<1> DEFINE Kept == writer' = "starting" /\ writer \in {"links", "add"} /\ ~gNewTaskFlag /\ Running' =>
                     \A i \in 1..Len(text.links) : text.links[i] \in todo' \cup master' \cup missed'
<1>1. ASSUME IInv, [Next]_vars PROVE [Kept]_vars
  <2> USE DEF IInv
  <2>1. ASSUME NextToken, writer \in {"links", "add"},
               todo \cup master \cup missed \cup {Head(tokens)} \subseteq todo' \cup master' \cup missed' \cup {None}
        PROVE  Kept
    <3>1. CASE Tail(tokens) = <<>>
      BY <1>1, <2>1, <3>1, LinkStep
    <3>2. CASE Tail(tokens) # <<>>
      BY <2>1, <3>2 DEF NextToken
    <3> QED
      BY <3>1, <3>2
  <2>2. CASE LookLink
    <3>1. UNCHANGED <<todo, master>> /\ missed \subseteq missed' /\ writer = "links"
      BY <1>1, <2>2, LinkLooked DEF LookLink
    <3>2. CASE NextToken /\ Head(tokens) \in master \cup {None}
      BY <2>1, <3>1, <3>2
    <3> QED
      BY <1>1, <2>2, <3>2, LinkLooked
  <2>3. CASE AddLink
    <3>1. writer = "add"
      BY <2>3 DEF AddLink
    <3> QED
      BY <1>1, <2>1, <2>3, <3>1, LinkAdded
  <2>4. CASE MarkMaster \/ MarkRemove \/ Die
    BY <2>4 DEF MarkMaster, MarkRemove, Die, Running
  <2>5. CASE Aside
    BY <2>5 DEF Aside
  <2> QED
    BY <1>1, <2>2, <2>3, <2>4, <2>5, WriterStep
<1> QED
  BY <1>1, Invariance, PTL DEF Spec, CompletedLinksKnown
=============================================================================
