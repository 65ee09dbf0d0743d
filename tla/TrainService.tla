---------------------------- MODULE TrainService ----------------------------
(***************************************************************************)
(* One training service (tools/service_ostrich.cpp, service_parrot.cpp,    *)
(* service_phoenix.cpp): a fetch thread that hands out articles, a collect *)
(* thread that refills the cache of articles to hand out and sleeps on a   *)
(* condition variable, a save thread that marks an article done and adds   *)
(* its words to the dictionary, and the worker processes that learn the    *)
(* articles.  Todo, Done and Dict are leveldb databases and survive a      *)
(* crash; the cache and the threads do not.                                *)
(*                                                                         *)
(* Filtered = TRUE is the ostrich service, whose refill holds gTodoMutex   *)
(* and drops the articles already done; FALSE is parrot and phoenix, whose *)
(* refill takes no lock and checks nothing.                                *)
(***************************************************************************)
EXTENDS Naturals, Sequences, FiniteSets

CONSTANTS
  Urls,         \* the articles, each in one language
  Words,        \* the words of all articles
  Workers,      \* the worker processes
  Langs,        \* the languages in the order findTodo visits them
  LangOf,       \* the language of each article
  Key,          \* the order of the articles in leveldb (sha1 of the url)
  Article,      \* for each url its uploads: a sequence of word counts
  Todo0, Done0, \* the databases when the service first starts
  Filtered,     \* TRUE: ostrich; FALSE: parrot, phoenix
  CacheMax,     \* iConstPathCacheMax
  None,         \* no job
  MaxInFlight,  \* bound: copies of one upload on the way
  MaxSaves,     \* bound: how often one upload is received
  MaxFaults,    \* bound: lost or duplicated datagrams, killed workers, torn pops
  MaxCrashes    \* bound: crashes of the service

LangSet == {Langs[i] : i \in 1..Len(Langs)}

ASSUME TrainAssumption ==
  /\ Langs \in Seq(STRING) /\ Langs # <<>>
  /\ LangOf \in [Urls -> LangSet]
  /\ Key \in [Urls -> Nat]
  /\ \A u, v \in Urls : Key[u] = Key[v] => u = v
  /\ Article \in [Urls -> Seq([Words -> Nat])]
  /\ IsFiniteSet(Urls)
  /\ Todo0 \subseteq Urls
  /\ Done0 \subseteq Urls
  /\ Filtered \in BOOLEAN
  /\ None \notin Urls
  /\ {CacheMax, MaxInFlight, MaxSaves} \subseteq Nat \ {0}
  /\ {MaxFaults, MaxCrashes} \subseteq Nat

VARIABLES
  todo, done,     \* the todo and done databases (of both languages)
  dict,           \* the dictionary databases: language -> word -> count
  collector,      \* where the collect thread is
  ready,          \* how far START_DB is: storages made, then storages opened
  scan,           \* the language findTodo is at
  cache,          \* gOstrichTodoCN and gOstrichTodoJA
  toPush,         \* snapshot entries gets() has not pushed yet (unlocked)
  toCheck,        \* cached entries not yet looked up in done (locked)
  savePc,         \* where the save thread is
  saveMsg,        \* the upload it handles
  saveWords,      \* the words of that upload still to put
  job, nextChunk, \* the worker's article and its next upload
  uploads,        \* datagrams on their way to the save thread
  saved,          \* history: how often each upload was received
  faults, crashes,
  again,          \* history: hand-outs of an article already done (2 = more)
  doneAtBoot,     \* history: the done database when the service started
  missed          \* history: articles whose last mark met a done database not
                  \* yet open, and that are not done

dbs      == <<todo, done, dict>>
threads  == <<collector, ready, scan, cache, toPush, toCheck>>
saver    == <<savePc, saveMsg, saveWords>>
workers  == <<job, nextChunk>>
network  == <<uploads, saved>>
counters == <<faults, crashes>>
history  == <<again, doneAtBoot, missed>>
vars == <<dbs, threads, saver, workers, network, counters, history>>

Uploads == UNION {{[url |-> u, chunk |-> c] : c \in 1..Len(Article[u])} : u \in Urls}
Counts(m) == Article[m.url][m.chunk]

Init ==
  /\ todo = Todo0
  /\ done = Done0
  /\ dict = [l \in LangSet |-> [w \in Words |-> 0]]
  /\ collector = "opening" /\ ready = 0
  /\ scan = 1
  /\ cache = {} /\ toPush = {} /\ toCheck = {}
  /\ savePc = "idle" /\ saveMsg = None /\ saveWords = {}
  /\ job = [w \in Workers |-> None]
  /\ nextChunk = [w \in Workers |-> 1]
  /\ uploads = [m \in Uploads |-> 0]
  /\ saved = [m \in Uploads |-> 0]
  /\ faults = 0 /\ crashes = 0
  /\ again = [u \in Urls |-> 0]
  /\ doneAtBoot = Done0
  /\ missed = {}

-----------------------------------------------------------------------------
(* Helpers *)

OfLang(S, l) == {u \in S : LangOf[u] = l}
IsLast(u, S) == u \in S /\ \A v \in S : Key[v] <= Key[u]
IsFirst(u, S) == u \in S /\ \A v \in S : Key[u] <= Key[v]

(* URLStorage::gets(max): the first entries in key order.                  *)
Gets(S, max) == {u \in S : Cardinality({v \in S : Key[v] < Key[u]}) < max}

(* The storages in the order START_DB makes them all, and then opens them. *)
IndexOf(l) == CHOOSE i \in 1..Len(Langs) : Langs[i] = l
DoneAt(l) == 2 * IndexOf(l) - 1
TodoAt(l) == 2 * IndexOf(l)
DictAt(l) == 2 * Len(Langs) + IndexOf(l)
Storages == 3 * Len(Langs)
(* A storage that is not made is a null pointer; one that is made but not  *)
(* open has nothing in it and silently drops what is added or removed.     *)
Made(s) == ready >= s
Open(s) == ready >= Storages + s
SaveLang == LangOf[saveMsg.url]

Running == collector # "down"
(* Faulty variant: the fetch thread does not take gTodoMutex.              *)
TodoUnlockedAlways == TRUE
(* gTodoMutex is free: only the ostrich refill holds it for several steps. *)
TodoUnlocked == ~(Filtered /\ collector = "loading")
Fault == faults < MaxFaults /\ faults' = faults + 1
CountAgain(u) == again' = [again EXCEPT ![u] = IF u \in done /\ @ < 2 THEN @ + 1 ELSE @]

-----------------------------------------------------------------------------
(* The collect thread *)

(* START_DB: one more storage is made or opened.                           *)
StartDB ==
  /\ collector = "opening"
  /\ ready' = ready + 1
  /\ collector' = IF ready' = 2 * Storages THEN "finding" ELSE "opening"
  /\ UNCHANGED <<dbs, scan, cache, toPush, toCheck, saver, workers, network, counters, history>>

(* TRY_FIND_TASK for a language whose cache is not empty.                  *)
FindNothing ==
  /\ collector = "finding"
  /\ scan <= Len(Langs)
  /\ OfLang(cache, Langs[scan]) # {}
  /\ scan' = scan + 1
  /\ UNCHANGED <<dbs, collector, ready, cache, toPush, toCheck, saver, workers, network,
                 counters, history>>

(* Faulty variant: the ostrich refill without its filter.                  *)
FindTodoUnchecked ==
  /\ collector = "finding"
  /\ scan <= Len(Langs)
  /\ OfLang(cache, Langs[scan]) = {}
  /\ collector' = "loading"
  /\ cache' = cache \cup Gets(OfLang(todo, Langs[scan]), CacheMax)
  /\ toCheck' = {} /\ toPush' = {}
  /\ UNCHANGED <<dbs, ready, scan, saver, workers, network, counters, history>>

(* TRY_FIND_TASK for an empty cache: gets() reads a snapshot of todo.  The *)
(* locked variant has pushed all of it before anyone else can look.        *)
FindTodo ==
  /\ collector = "finding"
  /\ scan <= Len(Langs)
  /\ OfLang(cache, Langs[scan]) = {}
  /\ collector' = "loading"
  /\ LET some == Gets(OfLang(todo, Langs[scan]), CacheMax)
     IN IF Filtered
        THEN cache' = cache \cup some /\ toCheck' = some /\ toPush' = {}
        ELSE toPush' = some /\ toCheck' = {} /\ cache' = cache
  /\ UNCHANGED <<dbs, ready, scan, saver, workers, network, counters, history>>

(* Faulty variants: the filter forgets the cache, or forgets todo.         *)
CheckDoneKeepsCached(u) ==
  /\ collector = "loading"
  /\ IsFirst(u, toCheck)
  /\ toCheck' = toCheck \ {u}
  /\ todo' = todo \ (done \cap {u})
  /\ UNCHANGED <<done, dict, collector, ready, scan, cache, toPush, saver, workers, network,
                 counters, history>>
CheckDoneKeepsTodo(u) ==
  /\ collector = "loading"
  /\ IsFirst(u, toCheck)
  /\ toCheck' = toCheck \ {u}
  /\ cache' = cache \ (done \cap {u})
  /\ UNCHANGED <<dbs, collector, ready, scan, toPush, saver, workers, network, counters,
                 history>>

(* The ostrich filter looks one cached article up in done; one that is     *)
(* there leaves todo and the cache.                                        *)
CheckDone(u) ==
  /\ collector = "loading"
  /\ IsFirst(u, toCheck)
  /\ toCheck' = toCheck \ {u}
  /\ IF u \in done
     THEN todo' = todo \ {u} /\ cache' = cache \ {u}
     ELSE UNCHANGED <<todo, cache>>
  /\ UNCHANGED <<done, dict, collector, ready, scan, toPush, saver, workers, network,
                 counters, history>>

(* Without the lock each push_back of gets() is visible at once.           *)
PushOne(u) ==
  /\ collector = "loading"
  /\ IsFirst(u, toPush)
  /\ toPush' = toPush \ {u}
  /\ cache' = cache \cup {u}
  /\ UNCHANGED <<dbs, collector, ready, scan, toCheck, saver, workers, network, counters,
                 history>>

FindDone ==
  /\ collector = "loading"
  /\ toPush = {} /\ toCheck = {}
  /\ collector' = "finding"
  /\ scan' = scan + 1
  /\ UNCHANGED <<dbs, ready, cache, toPush, toCheck, saver, workers, network, counters, history>>

(* gTodoCV.wait(lk): nothing is tested before the thread goes to sleep.    *)
WaitTodo ==
  /\ collector = "finding"
  /\ scan > Len(Langs)
  /\ collector' = "waiting"
  /\ UNCHANGED <<dbs, ready, scan, cache, toPush, toCheck, saver, workers, network, counters,
                 history>>

(* A condition variable may wake its waiter without a notification.        *)
SpuriousWake ==
  /\ collector = "waiting"
  /\ collector' = "finding"
  /\ scan' = 1
  /\ UNCHANGED <<dbs, ready, cache, toPush, toCheck, saver, workers, network, counters, history>>

-----------------------------------------------------------------------------
(* The fetch thread, each action one request of an idle worker *)

(* Faulty variant: an empty cache notifies nobody.                         *)
FetchEmptySilent(w, l) ==
  /\ Running /\ TodoUnlocked
  /\ job[w] = None
  /\ OfLang(cache, l) = {}
  /\ UNCHANGED vars

(* fetchOstrichTask with an empty cache: notify_all, which only a thread   *)
(* already waiting hears, and an empty reply.                              *)
FetchEmpty(w, l) ==
  /\ Running /\ TodoUnlocked
  /\ job[w] = None
  /\ OfLang(cache, l) = {}
  /\ collector' = IF collector = "waiting" THEN "finding" ELSE collector
  /\ scan' = IF collector = "waiting" THEN 1 ELSE scan
  /\ UNCHANGED <<dbs, ready, cache, toPush, toCheck, saver, workers, network, counters, history>>

(* The last article of the vector is popped and sent; the reply may be     *)
(* lost, and the article is then out of the cache with nobody working.     *)
FetchTask(w, l) ==
  /\ Running /\ TodoUnlocked
  /\ job[w] = None
  /\ \E u \in OfLang(cache, l) :
       /\ IsLast(u, OfLang(cache, l))
       /\ cache' = cache \ {u}
       /\ CountAgain(u)
       /\ \/ /\ job' = [job EXCEPT ![w] = u]
             /\ nextChunk' = [nextChunk EXCEPT ![w] = 1]
             /\ UNCHANGED faults
          \/ Fault /\ UNCHANGED workers
  /\ UNCHANGED <<dbs, collector, ready, scan, toPush, toCheck, saver, network, crashes,
                 doneAtBoot, missed>>

(* Without the lock back() and pop_back() overlap with a push_back() of the*)
(* refill: the last article u is read and sent, and v, the next to push,   *)
(* arrives before the pop or during it.  The pop may take u or v, or undo  *)
(* the push besides, or be overwritten.  That v is lost so is a fault, as  *)
(* a lost reply is.                                                        *)
FetchRace(w, l) ==
  /\ ~Filtered
  /\ collector = "loading"
  /\ Langs[scan] = l
  /\ job[w] = None
  /\ \E u \in OfLang(cache, l), v \in toPush :
       /\ IsLast(u, OfLang(cache, l)) /\ IsFirst(v, toPush)
       /\ toPush' = toPush \ {v}
       /\ \E kept \in SUBSET {u, v} :
            /\ cache' = (cache \ {u}) \cup kept
            /\ IF v \in kept THEN UNCHANGED faults ELSE Fault
       /\ CountAgain(u)
       /\ job' = [job EXCEPT ![w] = u]
       /\ nextChunk' = [nextChunk EXCEPT ![w] = 1]
  /\ UNCHANGED <<dbs, collector, ready, scan, toCheck, saver, network, crashes, doneAtBoot,
                 missed>>

-----------------------------------------------------------------------------
(* The workers *)

(* commitArticle uploads the chunks in order and ignores curl's result (a  *)
(* datagram to a service that is down is lost); after the last one, or     *)
(* when there is none, the worker asks for the next task.                  *)
CommitChunk(w) ==
  /\ job[w] # None
  /\ nextChunk[w] <= Len(Article[job[w]])
  /\ LET m == [url |-> job[w], chunk |-> nextChunk[w]]
     IN \/ /\ uploads' = [uploads EXCEPT ![m] = IF @ < MaxInFlight THEN @ + 1 ELSE @]
           /\ UNCHANGED faults
        \/ (Fault \/ (~Running /\ UNCHANGED faults)) /\ UNCHANGED uploads
  /\ nextChunk' = [nextChunk EXCEPT ![w] = @ + 1]
  /\ UNCHANGED <<dbs, threads, saver, job, saved, crashes, history>>

CommitEnd(w) ==
  /\ job[w] # None
  /\ nextChunk[w] > Len(Article[job[w]])
  /\ job' = [job EXCEPT ![w] = None]
  /\ nextChunk' = [nextChunk EXCEPT ![w] = 1]
  /\ UNCHANGED <<dbs, threads, saver, network, counters, history>>

KillWorker(w) ==
  /\ job[w] # None
  /\ Fault
  /\ job' = [job EXCEPT ![w] = None]
  /\ nextChunk' = [nextChunk EXCEPT ![w] = 1]
  /\ UNCHANGED <<dbs, threads, saver, network, crashes, history>>

-----------------------------------------------------------------------------
(* The save thread *)

(* An upload arrives; a duplicate of it may still be on its way.           *)
SaveTask(m) ==
  /\ Running
  /\ savePc = "idle"
  /\ uploads[m] > 0
  /\ saved[m] < MaxSaves
  /\ \/ uploads' = [uploads EXCEPT ![m] = @ - 1] /\ UNCHANGED faults
     \/ Fault /\ UNCHANGED uploads
  /\ saved' = [saved EXCEPT ![m] = @ + 1]
  /\ savePc' = "mark"
  /\ saveMsg' = m
  /\ saveWords' = {w \in Words : Counts(m)[w] > 0}
  /\ UNCHANGED <<dbs, threads, workers, crashes, history>>

(* markOstrich, first half: the url enters done unless it is there.        *)
MarkDone ==
  /\ savePc = "mark"
  /\ Made(DoneAt(SaveLang))
  /\ IF Open(DoneAt(SaveLang))
     THEN done' = done \cup {saveMsg.url} /\ missed' = missed \ {saveMsg.url}
     ELSE missed' = missed \cup ({saveMsg.url} \ done) /\ UNCHANGED done
  /\ savePc' = "remove"
  /\ UNCHANGED <<todo, dict, threads, saveMsg, saveWords, workers, network, counters, again,
                 doneAtBoot>>

(* markOstrich, second half: the url leaves todo in any case.              *)
MarkRemove ==
  /\ savePc = "remove"
  /\ Made(TodoAt(SaveLang))
  /\ todo' = IF Open(TodoAt(SaveLang)) THEN todo \ {saveMsg.url} ELSE todo
  /\ savePc' = "words"
  /\ UNCHANGED <<done, dict, threads, saveMsg, saveWords, workers, network, counters, history>>

(* The count of a word after its words were added, or put in place of it.  *)
Added(w) == [dict EXCEPT ![SaveLang][w] = @ + Counts(saveMsg)[w]]
Replaced(w) == [dict EXCEPT ![SaveLang][w] = Counts(saveMsg)[w]]

(* Faulty variants: words are put before the mark; the sum is forgotten.   *)
PutWordBeforeMark(w) ==
  /\ savePc \in {"mark", "words"}
  /\ w \in saveWords
  /\ Made(DictAt(SaveLang))
  /\ dict' = IF Open(DictAt(SaveLang)) THEN Added(w) ELSE dict
  /\ saveWords' = saveWords \ {w}
  /\ UNCHANGED <<todo, done, threads, savePc, saveMsg, workers, network, counters, history>>
PutWordOverwrite(w) ==
  /\ savePc = "words"
  /\ w \in saveWords
  /\ Made(DictAt(SaveLang))
  /\ dict' = IF Open(DictAt(SaveLang)) THEN Replaced(w) ELSE dict
  /\ saveWords' = saveWords \ {w}
  /\ UNCHANGED <<todo, done, threads, savePc, saveMsg, workers, network, counters, history>>

(* DictionaryStorage::putWord, whatever markOstrich returned.              *)
PutWord(w) ==
  /\ savePc = "words"
  /\ w \in saveWords
  /\ Made(DictAt(SaveLang))
  /\ dict' = IF Open(DictAt(SaveLang)) THEN Added(w) ELSE dict
  /\ saveWords' = saveWords \ {w}
  /\ UNCHANGED <<todo, done, threads, savePc, saveMsg, workers, network, counters, history>>

(* Faulty variant: the thread goes idle with the old upload in its hands.  *)
SaveReplyStale ==
  /\ savePc = "words"
  /\ saveWords = {}
  /\ savePc' = "idle"
  /\ UNCHANGED <<dbs, threads, saveMsg, saveWords, workers, network, counters, history>>
SaveReply ==
  /\ savePc = "words"
  /\ saveWords = {}
  /\ savePc' = "idle"
  /\ saveMsg' = None
  /\ UNCHANGED <<dbs, threads, saveWords, workers, network, counters, history>>

-----------------------------------------------------------------------------
(* Crashes *)

(* Everything in memory is gone, and any part of the datagrams: those in   *)
(* the socket's queue.  Databases and workers are not touched.             *)
Die ==
  /\ crashes < MaxCrashes
  /\ crashes' = crashes + 1
  /\ \E kept \in SUBSET Uploads :
       uploads' = [m \in Uploads |-> IF m \in kept THEN uploads[m] ELSE 0]
  /\ collector' = "down" /\ ready' = 0 /\ scan' = 1
  /\ cache' = {} /\ toPush' = {} /\ toCheck' = {}
  /\ savePc' = "idle" /\ saveMsg' = None /\ saveWords' = {}
  /\ UNCHANGED <<dbs, workers, saved, faults, history>>

Crash == Running /\ Die

(* An upload whose next storage START_DB has not made yet dereferences a   *)
(* null pointer.                                                           *)
NullStorage ==
  /\ \/ savePc = "mark" /\ ~Made(DoneAt(SaveLang))
     \/ savePc = "remove" /\ ~Made(TodoAt(SaveLang))
     \/ savePc = "words" /\ saveWords # {} /\ ~Made(DictAt(SaveLang))
  /\ Die

(* The operator starts the service again.                                  *)
Restart ==
  /\ collector = "down"
  /\ collector' = "opening"
  /\ doneAtBoot' = done
  /\ UNCHANGED <<dbs, ready, scan, cache, toPush, toCheck, saver, workers, network, counters,
                 again, missed>>

-----------------------------------------------------------------------------
Collect ==
  \/ StartDB
  \/ FindNothing \/ FindTodo
  \/ \E u \in Urls : CheckDone(u) \/ PushOne(u)
  \/ FindDone \/ WaitTodo

(* Faulty variant: the url leaves todo before it enters done.              *)
SaveRemoveFirst ==
  \/ /\ savePc = "mark"
     /\ Made(TodoAt(SaveLang))
     /\ todo' = IF Open(TodoAt(SaveLang)) THEN todo \ {saveMsg.url} ELSE todo
     /\ savePc' = "remove"
     /\ UNCHANGED <<done, dict, threads, saveMsg, saveWords, workers, network, counters, history>>
  \/ /\ savePc = "remove"
     /\ Open(DoneAt(SaveLang))
     /\ done' = done \cup {saveMsg.url}
     /\ savePc' = "words"
     /\ UNCHANGED <<todo, dict, threads, saveMsg, saveWords, workers, network, counters, history>>
  \/ (\E w \in Words : PutWord(w)) \/ SaveReply

Save == MarkDone \/ MarkRemove \/ (\E w \in Words : PutWord(w)) \/ SaveReply

Next ==
  \/ Collect
  \/ SpuriousWake
  \/ \E w \in Workers, l \in LangSet : FetchEmpty(w, l) \/ FetchTask(w, l) \/ FetchRace(w, l)
  \/ \E w \in Workers : CommitChunk(w) \/ CommitEnd(w) \/ KillWorker(w)
  \/ \E m \in Uploads : SaveTask(m)
  \/ Save
  \/ Crash \/ NullStorage
  \/ Restart

Spec == Init /\ [][Next]_vars

(* The threads run; the workers poll for ever (eachTextFromMaster) and     *)
(* every language is asked for again and again; no datagram waits for ever *)
(* in the socket's queue; the operator restarts a crashed service.         *)
Fairness ==
  /\ WF_vars(Collect)
  /\ WF_vars(Save)
  /\ WF_vars(Restart)
  /\ \A w \in Workers : WF_vars(CommitChunk(w) \/ CommitEnd(w))
  /\ \A l \in LangSet :
       SF_vars(\E w \in Workers : FetchEmpty(w, l) \/ FetchTask(w, l) \/ FetchRace(w, l))
  /\ \A m \in Uploads : SF_vars(SaveTask(m))

FairSpec == Spec /\ Fairness

-----------------------------------------------------------------------------
(* Properties *)

(* Every variable has its type.                                            *)
TypeOK ==
  /\ todo \subseteq Urls /\ done \subseteq Urls
  /\ dict \in [LangSet -> [Words -> Nat]]
  /\ collector \in {"down", "opening", "finding", "loading", "waiting"}
  /\ ready \in 0..(2 * Storages)
  /\ scan \in 1..(Len(Langs) + 1)
  /\ collector = "loading" => scan <= Len(Langs)
  /\ cache \subseteq Urls /\ toPush \subseteq Urls /\ toCheck \subseteq Urls
  /\ savePc \in {"idle", "mark", "remove", "words"}
  /\ saveMsg \in IF savePc = "idle" THEN {None} ELSE Uploads
  /\ saveWords \subseteq Words
  /\ job \in [Workers -> Urls \cup {None}]
  /\ nextChunk \in [Workers -> Nat \ {0}]
  /\ uploads \in [Uploads -> 0..MaxInFlight]
  /\ saved \in [Uploads -> 0..MaxSaves]
  /\ faults \in 0..MaxFaults /\ crashes \in 0..MaxCrashes
  /\ again \in [Urls -> 0..2]
  /\ doneAtBoot \subseteq Urls /\ missed \subseteq Urls

(* No article is lost: what was queued is, at every moment and after any   *)
(* crash, still in todo or already in done (markOstrich adds first), but   *)
(* for an article whose own mark met a done database that a restart had    *)
(* made and not opened yet: its add was dropped, and the remove that       *)
(* follows may find todo open.  Before the first crash there is none.      *)
NoTaskLost ==
  /\ Todo0 \subseteq todo \cup done \cup missed
  /\ crashes = 0 => missed = {}

(* The ostrich filter: an article is handed out at most once after it was  *)
(* marked done (the copy cached before that), however the refill, the save *)
(* thread and crashes interleave.                                          *)
AgainAtMostOnce == Filtered => \A u \in Urls : again[u] <= 1

(* The ostrich filter after a crash: an article whose done mark was on     *)
(* disk when the service started never becomes visible to the fetch        *)
(* thread, even if the crash left it in todo.                              *)
DoneAtBootHidden == Filtered => (cache \ toCheck) \cap doneAtBoot = {}

(* A word is only counted for an article that is marked done, so a crash   *)
(* can lose counts but never leave counted words with an unfinished        *)
(* article that would be learnt again; again but for an article whose mark *)
(* was dropped while its databases were being opened.                      *)
CountedAreDone ==
  \A l \in LangSet, w \in Words :
    dict[l][w] > 0 =>
      \E m \in Uploads :
        m.url \in done \cup missed /\ LangOf[m.url] = l /\ Counts(m)[w] > 0

(* The values of f at the members of a finite set, added up.               *)
Some(T) == CHOOSE x \in T : TRUE
SumOver(f, S) ==
  LET sum[T \in SUBSET S] == IF T = {} THEN 0 ELSE f[Some(T)] + sum[T \ {Some(T)}]
  IN sum[S]

(* What the dictionary must hold for a word: every upload received so far, *)
(* less the words of the current upload that are still to be put.          *)
CountOf(m, l, w) == IF LangOf[m.url] = l THEN Counts(m)[w] ELSE 0
Received(l, w) == SumOver([m \in Uploads |-> saved[m] * CountOf(m, l, w)], Uploads)
Outstanding(l, w) ==
  IF savePc # "idle" /\ w \in saveWords THEN CountOf(saveMsg, l, w) ELSE 0

(* The counts are exact: each received upload is counted once per word,    *)
(* and only a crash of the service, or the opening after it, loses counts. *)
DictExact ==
  \A l \in LangSet, w \in Words :
    /\ dict[l][w] + Outstanding(l, w) <= Received(l, w)
    /\ crashes = 0 => dict[l][w] + Outstanding(l, w) = Received(l, w)

(* Why these hold: the inductive invariant of the proofs.                  *)
Queued ==
  /\ todo \cup cache \cup toPush \cup toCheck \subseteq Todo0
  /\ \A w \in Workers : job[w] # None => job[w] \in Todo0
  /\ \A m \in Uploads : uploads[m] > 0 => m.url \in Todo0
  /\ savePc # "idle" => saveMsg.url \in Todo0
Refill ==
  /\ toCheck \subseteq cache
  /\ collector # "loading" => toCheck = {} /\ toPush = {}
  /\ collector \in {"down", "opening"} => cache = {}
  /\ IF Filtered THEN toPush = {} ELSE toCheck = {}
AgainCounted ==
  Filtered =>
    \A u \in Urls :
      /\ again[u] <= 1
      /\ again[u] = 1 => u \in done /\ u \notin cache \ toCheck
Marking ==
  /\ savePc \in {"remove", "words"} => saveMsg.url \in done \cup missed
  /\ savePc # "idle" => \A w \in saveWords : Counts(saveMsg)[w] > 0
  /\ doneAtBoot \subseteq done /\ missed \cap done = {}
(* The threads that use the databases start when all of them are open; and *)
(* before the first crash nobody has anything to upload until then.        *)
Opened ==
  /\ collector = "down" => ready = 0
  /\ collector = "opening" <=> (collector # "down" /\ ready < 2 * Storages)
Fresh ==
  crashes = 0 /\ ready < 2 * Storages =>
    /\ \A w \in Workers : job[w] = None
    /\ \A m \in Uploads : uploads[m] = 0
    /\ savePc = "idle"
IInv == TypeOK /\ Queued /\ Refill /\ NoTaskLost /\ AgainCounted /\ Marking
        /\ DoneAtBootHidden /\ CountedAreDone /\ Opened /\ Fresh

(* Every queued article that yields an upload is eventually marked done: a *)
(* lost wake-up, a lost datagram, a killed worker, a torn pop and, in the  *)
(* run that has crashes, a crash cost a poll and not the article; only one *)
(* whose mark was dropped by the opening of the databases may leave todo   *)
(* otherwise.  An article that yields no upload (parrot and phoenix) is    *)
(* never done, and this holds only while such articles leave a place in    *)
(* the cache.                                                              *)
EveryTaskDone ==
  \A u \in Urls :
    (u \in todo /\ Article[u] # <<>>) ~> (u \in done \/ u \in missed \ todo)

(* An article a crash left in both databases eventually leaves todo        *)
(* (ostrich).                                                              *)
LeftoverRemoved ==
  Filtered => \A u \in Urls : (u \in todo \cap done) ~> (u \notin todo)

(* The service implements the task pool (ostrich).                         *)
Phase == IF collector \in {"finding", "loading", "waiting"} THEN "serving"
         ELSE IF crashes = 0 THEN "starting" ELSE "restarting"
Pool == INSTANCE TaskPool WITH
          pending <- todo \ done, finished <- done, phase <- Phase,
          Pending0 <- Todo0 \ Done0, Finished0 <- Done0
PoolSpec == Pool!PSpec
=============================================================================
