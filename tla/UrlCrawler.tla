----------------------------- MODULE UrlCrawler -----------------------------
(***************************************************************************)
(* The url crawler service (tools/service_crawler.cpp) and its one crawler *)
(* (tools/crawler.cpp).  A fetch thread hands out urls, a collect thread   *)
(* refills the cache of urls (and seeds it when there is nothing to do), a *)
(* save thread puts each upload into the one-place mailbox gTask, and a    *)
(* writer thread takes it out, marks the page crawled and adds its links   *)
(* to todo, giving up the rest of them when a newer upload is announced.   *)
(* Todo and Master are leveldb databases and survive a crash.              *)
(*                                                                         *)
(* Links stay in the language of their page (the filter of the relay's     *)
(* task sees to it); a link is filed under its own language here, also the *)
(* one a torn text pairs with a page of the other language.                *)
(***************************************************************************)
EXTENDS Naturals, Sequences, FiniteSets

CONSTANTS
  Urls,         \* the pages, each in one language
  Langs,        \* the languages in the order findTodoURLs visits them
  LangOf,       \* the language of each page
  Key,          \* the order of the pages in leveldb (sha1 of the url)
  Seed,         \* for each language the page pushed when todo is empty
  Batches,      \* for each page its uploads: a sequence of sequences of links
  CacheMax,     \* iConstPathCacheMax
  None,         \* no page, no text, the empty token of a split
  Torn,         \* a text that does not parse
  MaxFaults,    \* bound: lost or duplicated datagrams, failed downloads, kills,
                \* torn pops
  MaxCrashes    \* bound: crashes of the service

LangSet == {Langs[i] : i \in 1..Len(Langs)}

(* A page without links is uploaded as one empty batch, and so is a page   *)
(* whose download failed: wget leaves an empty file behind.                *)
LinkLists == (UNION {{Batches[u][i] : i \in 1..Len(Batches[u])} : u \in Urls}) \cup {<<>>}
Texts == [url : Urls, links : LinkLists]

ASSUME CrawlerAssumption ==
  /\ IsFiniteSet(Urls)
  /\ Langs \in Seq(STRING) /\ Langs # <<>>
  /\ LangOf \in [Urls -> LangSet]
  /\ Key \in [Urls -> Nat]
  /\ \A u, v \in Urls : Key[u] = Key[v] => u = v
  /\ Seed \in [LangSet -> Urls]
  /\ \A l \in LangSet : LangOf[Seed[l]] = l
  /\ Batches \in [Urls -> Seq(Seq(Urls))]
  /\ \A u \in Urls : Batches[u] # <<>>
  /\ \A u \in Urls : \A i \in 1..Len(Batches[u]) : \A j \in 1..Len(Batches[u][i]) :
       LangOf[Batches[u][i][j]] = LangOf[u]
  /\ None \notin Urls \cup Texts /\ Torn \notin Texts /\ Torn # None
  /\ CacheMax \in Nat \ {0}
  /\ {MaxFaults, MaxCrashes} \subseteq Nat

VARIABLES
  todo, master,   \* the databases of urls to crawl and of urls crawled
  collector,      \* where the collect thread is
  ready,          \* storages made so far, then storages opened
  scan,           \* the language findTodoURLs is at
  cache,          \* gVectTodoPathCN and gVectTodoPathJA
  toPush,         \* snapshot entries gets() has not pushed yet
  page, rest,     \* the crawler's page and its uploads still to send
  uploads,        \* datagrams on their way to the save thread
  recvPc, recvText,        \* the save thread and the upload it stores
  gTask, gNewTaskFlag,     \* the mailbox and its announcement
  writer, text, tokens,    \* the writer thread, its copy of gTask, its links
  faults, crashes,
  missed          \* history: urls whose last mark, or a look-up or an add since,
                  \* met a storage not yet open

dbs       == <<todo, master>>
collect   == <<collector, ready, scan, cache, toPush>>
crawler   == <<page, rest>>
receiver  == <<recvPc, recvText>>
mailbox   == <<gTask, gNewTaskFlag>>
write     == <<writer, text, tokens>>
history   == <<faults, crashes, missed>>
vars == <<dbs, collect, crawler, uploads, receiver, mailbox, write, history>>

Init ==
  /\ todo = {} /\ master = {}
  /\ collector = "opening" /\ ready = 0
  /\ scan = 1 /\ cache = {} /\ toPush = {}
  /\ page = None /\ rest = <<>>
  /\ uploads = {}
  /\ recvPc = "idle" /\ recvText = None
  /\ gTask = None /\ gNewTaskFlag = FALSE
  /\ writer = "starting" /\ text = None /\ tokens = <<>>
  /\ faults = 0 /\ crashes = 0
  /\ missed = {}

-----------------------------------------------------------------------------
(* Helpers *)

OfLang(S, l) == {u \in S : LangOf[u] = l}
IsLast(u, S) == u \in S /\ \A v \in S : Key[v] <= Key[u]
IsFirst(u, S) == u \in S /\ \A v \in S : Key[u] <= Key[v]

(* URLStorage::gets(max): the first entries in key order.                  *)
Gets(S, max) == {u \in S : Cardinality({v \in S : Key[v] < Key[u]}) < max}

(* The storages in the order url_crawler_collect makes them all, and then  *)
(* opens them.                                                             *)
IndexOf(l) == CHOOSE i \in 1..Len(Langs) : Langs[i] = l
MasterAt(u) == 2 * IndexOf(LangOf[u]) - 1
TodoAt(u) == 2 * IndexOf(LangOf[u])
Storages == 2 * Len(Langs)
(* A storage that is not made is a null pointer; one that is made but not  *)
(* open has nothing in it and silently drops what is added or removed.     *)
Made(i) == ready >= i
Open(i) == ready >= Storages + i

Running == collector # "down"
Fault == faults < MaxFaults /\ faults' = faults + 1

-----------------------------------------------------------------------------
(* The collect thread; nothing here takes a lock *)

(* One more storage is made or opened.                                     *)
StartDB ==
  /\ collector = "opening"
  /\ ready' = ready + 1
  /\ collector' = IF ready' = 2 * Storages THEN "finding" ELSE "opening"
  /\ UNCHANGED <<dbs, scan, cache, toPush, crawler, uploads, receiver, mailbox,
                 write, history>>

FindNothing ==
  /\ collector = "finding"
  /\ scan <= Len(Langs)
  /\ OfLang(cache, Langs[scan]) # {}
  /\ scan' = scan + 1
  /\ UNCHANGED <<dbs, collector, ready, cache, toPush, crawler, uploads,
                 receiver, mailbox, write, history>>

(* gets() reads a snapshot of todo and pushes its entries one by one.      *)
FindTodo ==
  /\ collector = "finding"
  /\ scan <= Len(Langs)
  /\ OfLang(cache, Langs[scan]) = {}
  /\ collector' = "loading"
  /\ toPush' = Gets(OfLang(todo, Langs[scan]), CacheMax)
  /\ UNCHANGED <<dbs, ready, scan, cache, crawler, uploads, receiver, mailbox,
                 write, history>>

(* Faulty variant: gets() is handed a copy of the vector.                  *)
PushOneCopy(u) ==
  /\ collector = "loading"
  /\ IsFirst(u, toPush)
  /\ toPush' = toPush \ {u}
  /\ UNCHANGED <<dbs, collector, ready, scan, cache, crawler, uploads, receiver,
                 mailbox, write, history>>

PushOne(u) ==
  /\ collector = "loading"
  /\ IsFirst(u, toPush)
  /\ toPush' = toPush \ {u}
  /\ cache' = cache \cup {u}
  /\ UNCHANGED <<dbs, collector, ready, scan, crawler, uploads, receiver,
                 mailbox, write, history>>

(* The seed is pushed when the cache is empty, which it also is when the   *)
(* fetch thread has already popped everything that was just pushed.        *)
FindDone ==
  /\ collector = "loading"
  /\ toPush = {}
  /\ collector' = "finding"
  /\ scan' = scan + 1
  /\ cache' = IF OfLang(cache, Langs[scan]) = {} THEN cache \cup {Seed[Langs[scan]]} ELSE cache
  /\ UNCHANGED <<dbs, ready, toPush, crawler, uploads, receiver, mailbox,
                 write, history>>

(* gVectoPathCV.wait(lk): nothing is tested before the thread sleeps.      *)
WaitTodo ==
  /\ collector = "finding"
  /\ scan > Len(Langs)
  /\ collector' = "waiting"
  /\ UNCHANGED <<dbs, ready, scan, cache, toPush, crawler, uploads, receiver,
                 mailbox, write, history>>

SpuriousWake ==
  /\ collector = "waiting"
  /\ collector' = "finding"
  /\ scan' = 1
  /\ UNCHANGED <<dbs, ready, cache, toPush, crawler, uploads, receiver,
                 mailbox, write, history>>

-----------------------------------------------------------------------------
(* The fetch thread, each action one request of the idle crawler *)

FetchEmpty(l) ==
  /\ Running
  /\ page = None
  /\ OfLang(cache, l) = {}
  /\ collector' = IF collector = "waiting" THEN "finding" ELSE collector
  /\ scan' = IF collector = "waiting" THEN 1 ELSE scan
  /\ UNCHANGED <<dbs, ready, cache, toPush, crawler, uploads, receiver,
                 mailbox, write, history>>

(* The crawler takes the page and downloads it, which may fail.            *)
Download(u) ==
  /\ page' = u
  /\ \/ rest' = Batches[u] /\ UNCHANGED faults
     \/ rest' = << <<>> >> /\ Fault

(* The last url of the vector is popped and sent; the reply may be lost.   *)
(* An empty datagram follows every reply: all the relay can take it for is *)
(* an empty answer, which has the crawler ask again.                       *)
FetchTask(l) ==
  /\ Running
  /\ page = None
  /\ \E u \in OfLang(cache, l) :
       /\ IsLast(u, OfLang(cache, l))
       /\ cache' = cache \ {u}
       /\ Download(u) \/ (Fault /\ UNCHANGED crawler)
  /\ UNCHANGED <<dbs, collector, ready, scan, toPush, uploads, receiver,
                 mailbox, write, crashes, missed>>

(* back() and pop_back() race with a push_back() of gets(), which holds no *)
(* lock: the last url u is read and sent, and v, the next to push, arrives *)
(* before the pop or during it.  The pop may take u or v, or undo the push *)
(* besides, or be overwritten.  That v is lost so is a fault, as a lost    *)
(* reply is.                                                               *)
FetchRace(l) ==
  /\ collector = "loading"
  /\ Langs[scan] = l
  /\ page = None
  /\ \E u \in OfLang(cache, l), v \in toPush :
       /\ IsLast(u, OfLang(cache, l)) /\ IsFirst(v, toPush)
       /\ toPush' = toPush \ {v}
       /\ \/ \E kept \in {{v}, {u, v}} : cache' = (cache \ {u}) \cup kept /\ Download(u)
          \/ /\ \E kept \in {{}, {u}} : cache' = (cache \ {u}) \cup kept
             /\ page' = u /\ rest' = Batches[u] /\ Fault
  /\ UNCHANGED <<dbs, collector, ready, scan, uploads, receiver, mailbox,
                 write, crashes, missed>>

-----------------------------------------------------------------------------
(* The crawler *)

(* WikiCrawler::up for the next batch of links; curl's result is ignored.  *)
(* After the last batch the crawler asks for the next url.                 *)
Up ==
  /\ page # None
  /\ \/ uploads' = uploads \cup {[url |-> page, links |-> Head(rest)]} /\ UNCHANGED faults
     \/ UNCHANGED uploads /\ (Fault \/ (~Running /\ UNCHANGED faults))
  /\ rest' = Tail(rest)
  /\ page' = IF Tail(rest) = <<>> THEN None ELSE page
  /\ UNCHANGED <<dbs, collect, receiver, mailbox, write, crashes, missed>>

KillCrawler ==
  /\ page # None
  /\ Fault
  /\ page' = None /\ rest' = <<>>
  /\ UNCHANGED <<dbs, collect, uploads, receiver, mailbox, write, crashes,
                 missed>>

-----------------------------------------------------------------------------
(* The save thread: gTask = text; gNewTaskFlag = true; notify_all() *)

(* An upload arrives; a duplicate of it may still be on its way.           *)
Receive(m) ==
  /\ Running
  /\ recvPc = "idle"
  /\ m \in uploads
  /\ \/ uploads' = uploads \ {m} /\ UNCHANGED faults
     \/ Fault /\ UNCHANGED uploads
  /\ recvPc' = "storing"
  /\ recvText' = m
  /\ UNCHANGED <<dbs, collect, crawler, mailbox, write, crashes, missed>>

StoreTask ==
  /\ recvPc = "storing"
  /\ gTask' = recvText
  /\ recvPc' = "flagging"
  /\ recvText' = None
  /\ UNCHANGED <<dbs, collect, crawler, uploads, gNewTaskFlag, write, history>>

SetFlag ==
  /\ recvPc = "flagging"
  /\ gNewTaskFlag' = TRUE
  /\ recvPc' = "notifying"
  /\ UNCHANGED <<dbs, collect, crawler, uploads, recvText, gTask, write,
                 history>>

(* The save thread does not hold the mutex the writer waits with: a writer *)
(* that is not asleep yet, or is busy, never hears of this upload.         *)
Notify ==
  /\ recvPc = "notifying"
  /\ recvPc' = "idle"
  /\ writer' = IF writer = "waiting" THEN "woken" ELSE writer
  /\ UNCHANGED <<dbs, collect, crawler, uploads, recvText, mailbox, text,
                 tokens, history>>

-----------------------------------------------------------------------------
(* The writer thread *)

(* gTaskCV.wait(lk), entered without a look at gTask or gNewTaskFlag.      *)
WaitTask ==
  /\ writer = "starting"
  /\ Running
  /\ writer' = "waiting"
  /\ UNCHANGED <<dbs, collect, crawler, uploads, receiver, mailbox, text,
                 tokens, history>>

SpuriousTask ==
  /\ writer = "waiting"
  /\ writer' = "woken"
  /\ UNCHANGED <<dbs, collect, crawler, uploads, receiver, mailbox, text,
                 tokens, history>>

(* What a read of gTask may return: while the save thread assigns to it,   *)
(* the old text, the new one, the head of the new one with the tail of the *)
(* old, or rubbish.                                                        *)
TaskReads ==
  IF recvPc # "storing" THEN {gTask}
  ELSE {gTask, recvText, Torn}
       \cup {[url |-> recvText.url, links |-> old.links] : old \in {gTask} \cap Texts}

(* text = gTask, read without gTaskMutex; an empty one is ignored.         *)
ReadTask ==
  /\ writer = "woken"
  /\ \E t \in TaskReads :
       /\ text' = t
       /\ writer' = IF t = None THEN "starting" ELSE "taken"
  /\ UNCHANGED <<dbs, collect, crawler, uploads, receiver, mailbox, tokens,
                 history>>

(* gNewTaskFlag = false, whichever upload it announced; a text that does   *)
(* not parse ends in the exception handler.                                *)
ClearFlag ==
  /\ writer = "taken"
  /\ gNewTaskFlag' = FALSE
  /\ writer' = IF text = Torn THEN "starting" ELSE "mark"
  /\ text' = IF text = Torn THEN None ELSE text
  /\ UNCHANGED <<dbs, collect, crawler, uploads, receiver, gTask, tokens,
                 history>>

(* markCrawler, first half: the url enters master.                         *)
MarkMaster ==
  /\ writer = "mark"
  /\ Made(MasterAt(text.url))
  /\ IF Open(MasterAt(text.url))
     THEN master' = master \cup {text.url} /\ missed' = missed \ {text.url}
     ELSE missed' = missed \cup {text.url} /\ UNCHANGED master
  /\ writer' = "remove"
  /\ UNCHANGED <<todo, collect, crawler, uploads, receiver, mailbox, text,
                 tokens, faults, crashes>>

(* markCrawler, second half: it leaves todo.  The links are split at       *)
(* braces, and the text in front of the first brace is an empty token.     *)
MarkRemove ==
  /\ writer = "remove"
  /\ Made(TodoAt(text.url))
  /\ IF Open(TodoAt(text.url))
     THEN todo' = todo \ {text.url} /\ UNCHANGED missed
     ELSE missed' = missed \cup {text.url} /\ UNCHANGED todo
  /\ writer' = "links"
  /\ tokens' = <<None>> \o text.links
  /\ UNCHANGED <<master, collect, crawler, uploads, receiver, mailbox, text,
                 faults, crashes>>

(* Faulty variant: the loop stops one link too early.                      *)
NextTokenShort ==
  LET last == gNewTaskFlag \/ Len(tokens) <= 2
  IN /\ tokens' = IF last THEN <<>> ELSE Tail(tokens)
     /\ writer' = IF last THEN "starting" ELSE "links"
     /\ text' = IF last THEN None ELSE text

(* The look at gNewTaskFlag after each token, which gives up the rest.     *)
NextToken ==
  LET last == gNewTaskFlag \/ Tail(tokens) = <<>>
  IN /\ tokens' = IF last THEN <<>> ELSE Tail(tokens)
     /\ writer' = IF last THEN "starting" ELSE "links"
     /\ text' = IF last THEN None ELSE text

(* Faulty variant: links already crawled are queued again.                 *)
LookLinkUnchecked ==
  /\ writer = "links"
  /\ Head(tokens) # None => Made(MasterAt(Head(tokens)))
  /\ IF Head(tokens) = None
     THEN NextToken
     ELSE writer' = "add" /\ UNCHANGED <<text, tokens>>
  /\ UNCHANGED <<dbs, collect, crawler, uploads, receiver, mailbox, history>>

(* newCrawler looks the link up in master: an empty token and a link that  *)
(* is crawled are done with.                                               *)
LookLink ==
  /\ writer = "links"
  /\ Head(tokens) # None => Made(MasterAt(Head(tokens)))
  /\ IF Head(tokens) = None \/ (Open(MasterAt(Head(tokens))) /\ Head(tokens) \in master)
     THEN NextToken
     ELSE writer' = "add" /\ UNCHANGED <<text, tokens>>
  /\ missed' = IF Head(tokens) = None \/ Open(MasterAt(Head(tokens))) THEN missed
               ELSE missed \cup {Head(tokens)}
  /\ UNCHANGED <<dbs, collect, crawler, uploads, receiver, mailbox, faults,
                 crashes>>

(* newCrawler adds a link that is not.                                     *)
AddLink ==
  /\ writer = "add"
  /\ Made(TodoAt(Head(tokens)))
  /\ IF Open(TodoAt(Head(tokens)))
     THEN todo' = todo \cup {Head(tokens)} /\ UNCHANGED missed
     ELSE missed' = missed \cup {Head(tokens)} /\ UNCHANGED todo
  /\ NextToken
  /\ UNCHANGED <<master, collect, crawler, uploads, receiver, mailbox, faults,
                 crashes>>

-----------------------------------------------------------------------------
(* Crashes *)

(* The databases and the crawler live on, and any of the datagrams.        *)
Die ==
  /\ crashes < MaxCrashes
  /\ crashes' = crashes + 1
  /\ \E lost \in SUBSET uploads : uploads' = uploads \ lost
  /\ collector' = "down" /\ ready' = 0 /\ scan' = 1 /\ cache' = {} /\ toPush' = {}
  /\ recvPc' = "idle" /\ recvText' = None
  /\ gTask' = None /\ gNewTaskFlag' = FALSE
  /\ writer' = "starting" /\ text' = None /\ tokens' = <<>>
  /\ UNCHANGED <<dbs, crawler, faults, missed>>

Crash == Running /\ Die

(* A text whose next storage is not made yet dereferences a null pointer.  *)
NullStorage ==
  /\ \/ writer = "mark" /\ ~Made(MasterAt(text.url))
     \/ writer = "remove" /\ ~Made(TodoAt(text.url))
     \/ writer = "links" /\ Head(tokens) # None /\ ~Made(MasterAt(Head(tokens)))
     \/ writer = "add" /\ ~Made(TodoAt(Head(tokens)))
  /\ Die

Restart ==
  /\ collector = "down"
  /\ collector' = "opening"
  /\ UNCHANGED <<dbs, ready, scan, cache, toPush, crawler, uploads, receiver,
                 mailbox, write, history>>

-----------------------------------------------------------------------------
Collect ==
  \/ StartDB
  \/ FindNothing \/ FindTodo
  \/ \E u \in Urls : PushOne(u)
  \/ FindDone \/ WaitTodo

Fetch(l) == FetchEmpty(l) \/ FetchTask(l) \/ FetchRace(l)

Save == StoreTask \/ SetFlag \/ Notify

(* Faulty variant: the url leaves todo before it enters master.            *)
WriteRemoveFirst ==
  \/ WaitTask \/ ReadTask \/ ClearFlag
  \/ /\ writer = "mark"
     /\ Open(TodoAt(text.url))
     /\ todo' = todo \ {text.url}
     /\ writer' = "remove"
     /\ UNCHANGED <<master, collect, crawler, uploads, receiver, mailbox, text,
                    tokens, history>>
  \/ /\ writer = "remove"
     /\ master' = master \cup {text.url}
     /\ writer' = "links"
     /\ tokens' = <<None>> \o text.links
     /\ UNCHANGED <<todo, collect, crawler, uploads, receiver, mailbox, text,
                    history>>
  \/ LookLink \/ AddLink

Write == WaitTask \/ ReadTask \/ ClearFlag \/ MarkMaster \/ MarkRemove \/ LookLink \/ AddLink

Next ==
  \/ Collect \/ SpuriousWake
  \/ \E l \in LangSet : Fetch(l)
  \/ Up \/ KillCrawler
  \/ \E m \in Texts : Receive(m)
  \/ Save
  \/ Write \/ SpuriousTask
  \/ Crash \/ NullStorage
  \/ Restart

Spec == Init /\ [][Next]_vars

(* The threads run, the crawler polls for ever and asks for every language *)
(* again and again, no page's datagrams wait for ever, and the operator    *)
(* restarts a service that crashed.                                        *)
Fairness ==
  /\ WF_vars(Collect)
  /\ WF_vars(Save)
  /\ WF_vars(Write)
  /\ WF_vars(Restart)
  /\ WF_vars(Up)
  /\ \A l \in LangSet : SF_vars(Fetch(l))
  /\ \A u \in Urls : SF_vars(\E m \in Texts : m.url = u /\ Receive(m))

FairSpec == Spec /\ Fairness

-----------------------------------------------------------------------------
(* Properties *)

(* Every variable has its type.                                            *)
TypeOK ==
  /\ todo \subseteq Urls /\ master \subseteq Urls
  /\ collector \in {"down", "opening", "finding", "loading", "waiting"}
  /\ ready \in 0..(2 * Storages)
  /\ scan \in 1..(Len(Langs) + 1)
  /\ collector = "loading" => scan <= Len(Langs)
  /\ cache \subseteq Urls /\ toPush \subseteq Urls
  /\ IF page = None THEN rest = <<>>
     ELSE page \in Urls /\ rest \in Seq(LinkLists) /\ rest # <<>>
  /\ uploads \subseteq Texts
  /\ recvPc \in {"idle", "storing", "flagging", "notifying"}
  /\ recvText \in IF recvPc = "storing" THEN Texts ELSE {None}
  /\ gTask \in Texts \cup {None} /\ gNewTaskFlag \in BOOLEAN
  /\ writer \in {"starting", "waiting", "woken", "taken", "mark", "remove", "links", "add"}
  /\ text \in IF writer \in {"starting", "waiting", "woken"} THEN {None}
              ELSE IF writer = "taken" THEN Texts \cup {Torn} ELSE Texts
  /\ IF writer \in {"links", "add"}
     THEN /\ tokens \in Seq(Urls \cup {None}) /\ tokens # <<>>
          /\ writer = "add" => Head(tokens) # None
     ELSE tokens = <<>>
  /\ faults \in 0..MaxFaults /\ crashes \in 0..MaxCrashes
  /\ missed \subseteq Urls

(* No url is ever forgotten, whatever crashes: one that is known, to crawl *)
(* or crawled, stays known (markCrawler adds before it removes), but for   *)
(* one whose mark met a master database not opened yet after a restart.    *)
KnownStaysKnown == [][todo \cup master \subseteq todo' \cup master' \cup missed']_vars

(* A url is to be crawled or crawled, not both: only a crash between the   *)
(* two halves of markCrawler leaves one url in both databases, and the     *)
(* look into master keeps newCrawler from queueing a crawled url again;    *)
(* but for the urls marked or looked up while the databases were being     *)
(* opened after a crash.                                                   *)
Marking == IF writer = "remove" THEN {text.url} ELSE {}
CrawledOnce ==
  /\ Cardinality((todo \cap master) \ (Marking \cup missed)) <= crashes
  /\ crashes = 0 => missed = {}

(* When the writer is through with an upload and neither gave it up nor    *)
(* crashed, all its links are known: links are lost only to gNewTaskFlag,  *)
(* a lost datagram, a crash, or a database not opened yet after it.        *)
CompletedLinksKnown ==
  [][writer' = "starting" /\ writer \in {"links", "add"} /\ ~gNewTaskFlag /\ Running' =>
       \A i \in 1..Len(text.links) : text.links[i] \in todo' \cup master' \cup missed']_vars

(* Why these hold: the tokens are what is left of the links, and the links *)
(* handled so far are known; a link is only added if master has it not.    *)
Links == <<None>> \o text.links
Handled == Len(Links) - Len(tokens)
Splitting ==
  writer \in {"links", "add"} =>
    /\ Handled \in Nat
    /\ \A i \in 1..Len(tokens) : tokens[i] = Links[Handled + i]
    /\ \A i \in 1..Handled : Links[i] \in todo \cup master \cup missed \cup {None}
Marked == writer = "remove" => text.url \in master \cup missed
Adding == writer = "add" /\ Head(tokens) \in master => Head(tokens) \in missed
(* Until the databases are open for the first time nobody has anything to  *)
(* upload.                                                                 *)
Opened ==
  /\ collector = "down" => ready = 0 /\ crashes > 0
  /\ collector = "opening" <=> (collector # "down" /\ ready < 2 * Storages)
  /\ collector \in {"down", "opening"} => cache = {} /\ toPush = {}
Fresh ==
  crashes = 0 /\ collector = "opening" =>
    /\ page = None /\ uploads = {}
    /\ recvPc = "idle" /\ gTask = None
    /\ writer \in {"starting", "waiting", "woken"}
IInv == TypeOK /\ CrawledOnce /\ Splitting /\ Marked /\ Adding /\ Opened /\ Fresh

(* While uploads only arrive when the writer sleeps, every url to crawl is *)
(* crawled, whatever wake-ups the collect thread misses and however the    *)
(* unlocked cache is torn.  Otherwise an upload may be overwritten in the  *)
(* mailbox in every round, and the url stays in todo.                      *)
Spaced == recvPc # "idle" => writer = "waiting"
EveryUrlCrawled == []Spaced => \A u \in Urls : u \in todo ~> u \in master
=============================================================================
