# TLA+ for wai.native.wator

A TLA+ development kept beside the C++ sources: modules that model the
services, the workers and the word learners, TLC configurations that check
them on small instances, and proofs for TLAPS.  Every definition is translated
from the code under `src/`; `PROJECT.json` maps each one to its lines.

Run a check with `tlc -config MCX.cfg MCX` and a proof with
`tlapm X_proofs.tla`, both in this directory.

## 1. The system

wai.native.wator learns the words of Chinese and Japanese from web pages and
answers text with them.  It is a set of small programs that talk through
datagrams on the loopback, through `wget`/`curl` to a web relay that passes
requests on to those datagrams, through redis, and through leveldb databases.

| Component | State | Operations | Talks to |
|---|---|---|---|
| Training services `service_ostrich`, `service_parrot`, `service_phoenix` (`utilities/service_*_{entry,fetch_task,save_task}.cpp`) | leveldb `todo`, `done`, dictionary for each language; the cache of articles `g*TodoCN/JA` | hand out an article; refill the cache; mark an article done and add its words to the dictionary | workers (datagrams); the first free port of a range: 41221-41229 (ostrich), 41224-41243 (parrot), 41244-41253 and 41304-41313 (phoenix), written to a file for the relay |
| Workers `tools/{ostrich,parrot,phoenix}.cpp`, `ipfs-tools/parrot.cpp` (a parrot worker with another address), `watorword/textpump.cpp` | the article in hand | poll, download, learn, upload for ever | the services; the web |
| URL crawler service `service_crawler` (`utilities/url_crawler_*.cpp`) | leveldb `todo`, `master`; the cache of urls; the mailbox `gTask`, `gNewTaskFlag` | hand out a url; refill or seed the cache; store an upload; mark a page crawled and queue its links | the crawler; the first free ports of 41211-41214 and 41216-41219 |
| Crawler process `tools/crawler.cpp`, `wikicrawler.cpp` | the page in hand | poll, download, extract links, upload them in batches | the service; the web |
| Datagram server `utilities/udp_entry.cpp` | one socket, one buffer, one remote endpoint | receive, dispatch, reply | used by every service |
| ipfs learner `ipfs-tools/ostrich.cpp`, `watorword/ipfspump.cpp` | the mailbox `gTask`, `gBlockCID`; the resources of the block in hand | store an announced block; fetch, learn and publish its resources; report it finished | redis channels `wai.relay.*`; ipfs |
| Text cutting `watorword/ctrlclaw.cpp`, `utf8.cpp` | the pieces of one text | cut a text into stretches of multi-byte characters | the learners |
| Ostrich learner `watorword/ostrichword*.cpp` | the counts of one article | count runs of characters, rank and upload them | an ostrich worker, the ipfs learner |
| Parrot cutter `watorword/parrotword*.cpp` | the words found in a stretch, the counts of one article | place known words greedily, count what is left, rank and upload | a parrot worker, the master dictionaries |
| Phoenix and zhizi segmenters `watorword/phoenixword*.cpp`, `zhiziword*.cpp` | the hints, gaps and clusters of a stretch, its selected words; the pairs of one article | split a stretch along the best path; learn pairs of neighbouring words and upload them (phoenix); answer with the words (zhizi) | a phoenix worker, the dialogue service, the master dictionaries |
| Master dictionaries `word_db_master2.cpp`, `tools/castdb.cpp` | two leveldb databases for each dictionary, the master and its cast | open under leveldb's lock, cast counts into weights, look up | parrot, phoenix and zhizi |
| Dialogue service `tools/wai.cpp`, `watorword/redis_entry.cpp`, `api_wai.cpp` | subscriber and publisher thread, the weak pointer `gPublishRef`, the current language `gLang` | subscribe, answer a message, reconnect | redis through the redis client, the zhizi segmenter |
| Redis client `redisclient/src/redisclient/impl/` | the strand, the queues of handlers and commands, the write under way; the state of the parser | connect, subscribe, publish, read, write, parse | the dialogue service and the ipfs learner |
| Text to speech clips, qiangbao and tree segmenters, offline tools, logging, data set scripts, the browser client, vendored nlohmann-json | | | |

The start scripts run one crawler and three workers for each training service,
and the operator starts everything again after a crash.

### What is hard in it

* Threads share caches, mailboxes and storages with locks in some places and
  none in others; condition variables are waited on without a predicate and
  notified without their mutex.
* Every "reliable" step is a datagram, a `curl` or a `wget` whose result
  nobody looks at: requests and uploads get lost, doubled and reordered.
* Databases survive a crash, caches do not, and every move between two
  databases is two separate writes.
* One-place mailboxes are overwritten by whoever comes next.
* Redis connections fail and come back while requests are in the service, and
  two threads share a pointer without a lock.
* Replies carry no names and arrive in pieces of any length.
* A cast that a crash cut short looks like a whole one, and rounding makes rare
  words disappear.
* The learners rest on small index arithmetic: windows, chunks, flags.

`PROJECT.json` lists the hazards one by one, each with the line where it bites
and the properties that would catch it.

### What makes each part correct

* Training services: no article is ever lost; an article is not learnt again
  without end after it is done; every article is done in the end; the counts
  of the dictionary are those of the uploads received.
* URL crawler: no known url is forgotten; no page is queued after it was
  crawled; an upload processed to its end leaves all links of its page known.
* Datagram server: it never loses or multiplies its receives; a request that
  no other overlaps is served right; an old request never reappears.
* ipfs learner: a report means the block was learnt and its results published
  before; results carry the name of their task; every block is reported.
* Learners: what is counted and uploaded is what the text contains; words
  placed never overlap.
* Segmenters: the words selected follow each other without overlap or hole, and
  known text comes out whole.
* Master dictionaries: a loaded dictionary is whole, or a prefix that a crash
  left, with the weights its counts give.
* Redis client: every reply meets the handler of its command, and is handed on
  when it is complete and as it was sent.
* Dialogue service: answers come at most once, in order and in the language in
  force; the subscription comes back after every failure.

## 2. The modules

| Module | Models | Composes |
|---|---|---|
| `TaskPool` | the abstract promise of a training service: pending, finished once, handed out again at most once; what only a restart may miss | |
| `TrainService` | one training service with its fetch, collect and save threads, its databases, its workers and the datagrams between them | refines `TaskPool` |
| `TrainService_proofs` | proofs | `TrainService` |
| `UrlCrawler` | the crawler service, its mailbox and writer thread, and the crawler | |
| `UrlCrawler_proofs` | proofs | `UrlCrawler` |
| `UdpServer` | the datagram server every service shares | |
| `UdpServer_proofs` | proofs | `UdpServer` |
| `IpfsPump` | relay thread, mailbox, pump thread and redis of the ipfs learner | |
| `IpfsPump_proofs` | proofs | `IpfsPump` |
| `OstrichWord` | cutting a text, counting, ranking and uploading | |
| `OstrichWord_proofs` | proofs | `OstrichWord` |
| `ParrotWord` | look-up, greedy placing, cutting out, counting and uploading | |
| `ParrotWord_proofs` | proofs | `ParrotWord` |
| `MasterDict` | the dictionaries of all programs: locks, casts, crashes, replaced masters, look-ups | |
| `PhoenixWord` | the phoenix and zhizi segmenters over these dictionaries | extends `MasterDict` |
| `PhoenixWord_proofs` | proofs about the dictionaries, the selection, known texts and words that stay whole | `PhoenixWord` |
| `RedisParser` | the parser: bytes in pieces to replies | |
| `RedisClient` | asynchronous clients: strand, queues, the write under way, failures | |
| `DialogueService` | subscriber, publisher and users of the dialogue service | extends `RedisClient` |
| `DialogueService_proofs` | proofs about the dialogue service, its clients and their parser | `DialogueService`, `RedisParser` |
| `MC*` | constants for TLC | the module of the same name |

Definitions whose comment begins "Faulty variant" are no part of the system:
each is the form a plausible mistake would give the definition below it, and
putting it in the place of that definition makes TLC report the property
`PROJECT.json` names for it under "mutants".

### How state and actions correspond to the code

**TrainService.**  `Filtered` tells the ostrich service, whose refill holds
`gTodoMutex` and drops articles already done, from parrot and phoenix, whose
refill does neither.  `todo`, `done`, `dict` are the databases; `cache` is
`gOstrichTodoCN` and `gOstrichTodoJA` together.  The collect thread is
`StartDB`, `FindNothing`, `FindTodo`, `CheckDone`/`PushOne`, `FindDone`,
`WaitTodo` (`train_*_collect` with `START_DB` and `TRY_FIND_TASK`), one action
for each access to something shared.  `StartDB` makes or opens one storage:
the code makes all of them and then opens them one by one, and `ready` counts how
far it is (`DoneAt`, `TodoAt`, `DictAt` are the places of the storages in that
order).  The save thread does not wait for it.  An upload that meets a storage
that is not made is the null pointer (`NullStorage`); one that meets a storage
that is made but not open finds nothing in it, and what it adds, removes or puts
is silently dropped (`urlstorage.cpp`, `if (save_)`).  Before the first crash
nobody can have anything to upload then; after it somebody can.  The history
`missed` holds the articles whose last mark met an unopened `done`.  The fetch thread is `FetchEmpty` (the
notification, sent without the mutex of the condition variable, so that it
finds a waiting thread or is lost), `FetchTask` and, for the services without a
lock, `FetchRace`: the last article was read and is sent, and `push_back` adds the
next one before `pop_back` runs or while it does.  The pop may take the one that
was sent, or the new one, which is then never sent; or it may undo the push
besides, or be overwritten by it (`kept` is any subset of the two).  A lost new
entry counts as a fault, as a lost reply does.  The
save thread is `SaveTask`, `MarkDone`, `MarkRemove`, `PutWord` and `SaveReply`,
one action for each database write.  A worker is `CommitChunk`, `CommitEnd` and
`KillWorker`.  `Crash` empties all memory and any part of the datagrams.

**TaskPool.**  `Finish` and `HandOutAgain` are what a service does with an
article; `phase` tells a service that serves from one that starts or restarts.
Only a restarting one may `Miss` the end of an article, and only a missed article
may be dropped from the pool without being finished (`Drop`).  `TrainService`
refines it with `todo \ done` as `pending`.

**UrlCrawler.**  The mailbox is written by `StoreTask`, `SetFlag`, `Notify` and
read by `WaitTask`, `ReadTask`, `ClearFlag`.  `ReadTask` reads `gTask` without
its mutex: while the save thread is storing, the text may be the old one, the
new one, a mixture, or `Torn`, which does not parse.  `MarkMaster` and `MarkRemove`
are `markCrawler`, `LookLink` and `AddLink` `newCrawler`, one action for each
access to a database; `NextToken` gives up the rest when the flag is up, which
also happens when the flag announces the very upload in hand.  `StartDB`,
`ready`, `NullStorage` and `FetchRace` are as in `TrainService`; `missed` holds
the urls whose last mark, or a look-up or an add since, met a storage not yet
open.  The seed is pushed by `FindDone`.

**UdpServer.**  `Start` is each `start_receive`; `Ready` is the reactor reading
the socket into the one buffer; `HandleReceive` is the completion handler with
the call of `func_` and the next receive; `Fail` is a receive that fails and is
not started again; `Reply` is the reply of another thread to the endpoint heard
last.  asio itself is external and modelled from how it is used: one
`io_service`, run by one thread.

**IpfsPump.**  `Subscribe`, `ConnectPublisher` and `ConnectionLost` are the
connections; `OnMessage`, `StoreTask`, `StoreBlock` the two critical sections of
`onMessage`; `LockBlock`, `FetchBlock` and `FetchBlockFails` the download under
`gBlockMutex`; `FetchResource`, `CommitArticle` and `FinishBlock` the loop of
`eachText`; `CommitRace` is their unlocked use of `gPublishRef` while the connect
handler assigns it, which may end the process.  `learnt`, `published`, `missed`, `finishes`, `takes`, `split` and
`overwritten` are history that only the properties read.

**OstrichWord.**  A character is what `parseUTF8` cuts off; `Stops` are those of
one or two bytes and those of the table in `ctrlclaw.hpp`.  `ClawStop`,
`ClawChar` and `ClawEnd` are the loop of `claw` and what is behind it; `Learn`
hands one stretch to `learn`, whose window of preceding characters is moved by
`JoinTo`; `Commit` ranks, uploads and clears.  The loops over the characters of a
stretch, the counts and the entries of a ranking are recursive functions
(`Learnt`, `Ranking`, `Chunks`).  `ipfs` chooses the ranking for
`tools/ostrich.cpp` (text) or `ipfs-tools/ostrich.cpp` (json).

**ParrotWord.**  A hint is a dictionary word at a place of the stretch.
`Learn` is `getRawRank` and `calcPrediction` up to its loop, `Place` one round of
the loop (the flags a word has set stay set when it is turned down),
`CollectWord` is `getWordPredictionOfOne` and `collectWord`.  Positions are in
characters (all words begin and end with one), sizes in bytes; a weight is its
base-2 logarithm, so `weight * 256 ^ (size / min - 1)` is compared exactly.

**MasterDict.**  `OpenMaster`, `TakeCast`, `CreateCast`, `PutCast` and `CastEnd`
are `loadMasterFromDB` for one dictionary after the other, with `castMaster` as
one action for each `Put`; `Holds` is the lock leveldb keeps while a database is
open.  `CastWeight` is the rounding of `std::to_string`.  `forceCast` is never
handed on by the segmenters, so an existing cast is always taken.  `Crash`
forgets what a program holds and leaves the disk; `Deploy` is the operator
replacing a master beside its cast.

**PhoenixWord.**  `kind` chooses between the phoenix worker and the Japanese and
Chinese path of zhizi.  The multimaps of hints are sets with the order `Before`,
by place and then by length.  `RawRank`, `Hints` (with the gaps of `getOutRank`)
and `Clusters` are computed when a stretch is read; `Pick` solves one cluster:
`Paths` are the ways through the graph of words that follow each other,
`PathCost` their cost as the code puts it on the edges, and any best one is
taken.  `Found` looks the words of a path up again, in Japanese by name alone.
`AnswerNothing` is the empty cut, undefined in the code.  `CommitArticle` ranks
and uploads the pairs.

**RedisParser.**  Each case of the switch in `parseChunk` is an action that
takes bytes of the piece received last; `Incompleted` keeps the state on a
stack and `Receive` restores it.  `arrays` is `arraySizes` and `arrayValues`,
`Closing` the loop that ends them.  What a server may send is stated apart from
the parser, as the protocol has it: `IsScalar` and `Says` are the replies of one
line and the bulk strings, `IsArray` an array and its items, `IsBroken` bytes
that are no reply however they go on.  `Texts` is any set of such texts and
`Streams` any set of their sequences in which nothing follows a broken one.

**RedisClient, DialogueService.**  `posted` is the strand, `handlers`, `dataQueued`
and `dataWrited` the queues of `RedisClientImpl`, `taken` how much of the write
the server has taken; reads, writes and posts complete in any order.  `Destroy`
ends a client whose connection failed; the sleep of ten seconds has no state.
`ProcessText`, `LockRef` or `LockNothing`, and `Publish` are `onMessageAPI`; the
publisher's thread runs between them.  `LockRace`, `PublishStale` and
`ProcessTextDies` (the empty cut, see `PhoenixWord`) are undefined, and the
process may die of them, which nothing starts again.

## 3. The runs

| Run | Instance | Checks |
|---|---|---|
| `train_ostrich` | 2 articles in one language, 2 interchangeable workers, cache of 1; 1 fault, 2 crashes | `TypeOK`, `NoTaskLost`, `AgainAtMostOnce`, `DoneAtBootHidden`, `PoolSpec` (refinement of `TaskPool`) |
| `train_ostrich_live` | 3 articles in 2 languages, one in both databases from the start | `EveryTaskDone`, `LeftoverRemoved` |
| `train_parrot` | the refill without lock and filter, an article with a word and one that yields no upload, cache of 2; 1 fault, 2 crashes | `CountedAreDone`, `DictExact`, `EveryTaskDone` |
| `url_crawler` | 2 pages that link to each other, one also to itself, cache of 2; 2 crashes | `CrawledOnce`, `KnownStaysKnown`, `CompletedLinksKnown` |
| `url_crawler_live` | 3 pages, two of them in the cache together, so that the fetch thread races with the refill; 1 fault, which may be a torn pop | `EveryUrlCrawled` |
| `udp_server` | 4 requests of 3 clients and 2 sizes, 2 errors | `TwoReceives`, `AloneIsRight`, `NeverOlder`, `EverythingReceived` |
| `ipfs_pump` | 3 blocks with more resources than the maximum, as many, and none; 5 announcements, one without a block and one for another program; 1 fault | `FinishedOncePerTake`, `TaskLostOnlyBySplit`, `FinishMeansDone`, `ResultsBeforeReport`, `EveryBlockReported` |
| `ostrich_word` | all articles of up to 6 characters over 2 characters and a stop, words of up to 3, threshold 2, chunks of 2 | `PiecesSpell`, `CountsExact`, `RankingExact`, `NothingRepeatedIsLost` |
| `parrot_word` | all stretches of up to 6 characters of 3 and 4 bytes; all dictionaries of 1 or 2 words of 2 or 3 characters, and of 3 nested words up to 6 characters, with a light or a heavy weight | `NoOverlap`, `TurnedDownForHeavier` |
| `phoenix_word` | 7 dictionaries of words and 3 of phrases, 9 stretches of up to 4 characters, all three segmenters; `castdb` beside the worker; 1 crash, 1 replaced master | `WholeOrPrefix`, `Tiled`, `WholeWordStays`, `KnownTextWhole` |
| `redis_parser` | all pairs of 13 replies, 3 of them nested arrays, and each of them before bytes that are none, cut into pieces of up to 5 bytes in every way | `RepliesExact`, `OnlyRubbishFails` |
| `dialogue_service` | 3 requests out of three kinds, 2 failures of either connection | `RepliesMatch`, `AnswersExact`, `SubscribedAgain`, `InHandIsAnswered` |

### Why these bounds are enough

The bounds cap what the environment does (`MaxFaults`, `MaxCrashes`,
`MaxErrors`), what accumulates in the network (`MaxInFlight` copies of one
upload), and history (`MaxSaves`: how often one upload is received;
`MaxStretches`).  One fault reaches every branch for a lost, doubled or failed
step; together with a crash it reaches a crash while a copy is on its way.  One
crash leaves uploads behind that meet the databases while they are opened, and
the second one is the null pointer such an upload may find (`NullStorage`), or a
crash between two writes after a mark that was dropped.  In a liveness run
`MaxSaves` must leave an upload to be received after a crash, or a dropped mark,
undid the effect of the earlier ones; `train_parrot` has 8, which is
enough for every behaviour of the run.  Two articles are
the fewest with an order in the cache and one behind the other; a third one, in
the other language, is needed where the scan over languages matters.  The cache
holds 1 where the refill has to leave articles behind, and 2 where the refill
and the fetch thread have to meet in one vector, or where an article that is
never done keeps a place.  In `ostrich_word` words of 3 characters in texts of 6
pass every edge of the window, and three ranked words pass the first and the
second chunk.  In `parrot_word` the nested dictionaries hold a word as long as the
stretch, all of it but the first character, and the third and fourth: where the
last of these begins last, both others reach beyond the last flag and overlap.  The dictionaries of `phoenix_word` are chosen: words that cross,
words within words, a word and a phrase that round to zero, clusters without a
path and ones that end before their longest hint, and a Japanese stretch whose
words come out in another order.  A piece of 5 bytes ends within or spans every
part of a reply.  Three requests are the fewest with one that names a language,
one without a sentence and one that inherits the language; two failures break
both connections, or one again.  `url_crawler` has no lost datagrams and of the
torn pops only those that lose nothing; `url_crawler_live` has both, and that the
safety properties hold with any number of them is proved.  `url_crawler_live`
runs `SpacedSpec`, whose steps are those of `FairSpec` that keep `Spaced`.  A hole between two words of one path in `phoenix_word` would need
longer texts; `SelectionIsTiled` proves that case too.  Code constants (32, 3, 5, 20, 256) are CONSTANTS of the modules,
so that small values exercise the same arithmetic; the proofs hold for all
values.

`CHECK_DEADLOCK FALSE` is in the configurations in which the system really may
stop: the clients of the datagram server may send nothing more, the ipfs
learner may be terminated, and the dialogue service waits when no user asks and
nothing fails any more.

### Fairness and why the code justifies it

* Threads run (`WF` of each thread's actions): nothing in them blocks but the
  locks modelled.
* Workers and crawlers poll for ever (`eachTextFromMaster`, the loop of
  `crawler.cpp`) and ask for every language: `SF` of the fetch of each language,
  because the cache may be emptied and filled in between.
* A datagram does not wait for ever in the socket of a thread that keeps
  reading: `SF` of its receipt, in the crawler of the receipt of some upload of
  each page.
* The operator starts a crashed service again: `WF(Restart)`.  Nothing forces a
  crash, a fault, a kill or a spurious wake-up.
* Redis connections end in success or failure: `WF` of the connect handlers.
* The dialogue service's threads run and the redis server serves what was
  written: `WF` of each client's steps, of its end and of `onMessageAPI`.  Users
  ask when they like, and only finitely many connections fail in a run
  (`MaxFaults`), else no answer could be promised.

### What the runs show

* An article is not lost by any interleaving of the threads or by a crash
  itself: `markOstrich` adds to `done` before it removes from `todo`.  Lost
  wake-ups cost a poll and no article.  It can be lost by the restart after a
  crash: an upload that is handled between the making and the opening of the
  databases may have its add dropped by `done` and its remove done by `todo`.
  `missed` names these articles, in `NoTaskLost`, `EveryTaskDone`, the task
  pool and `CountedAreDone` (whose words are counted without a mark).  No
  text of the repository says what a restart owes such an upload.
* The crawler has the same window: a page may be forgotten, stay in both
  databases, or lose links there, and only there or by a crash, a lost datagram
  or a newer upload.
* The ostrich refill filters under a lock, and an article is learnt again at
  most once after it was marked done; parrot and phoenix have no such bound.
* A crash can lose counts and never invents any; without a crash the
  dictionary is exactly the sum of the uploads received, copies included: an
  upload that arrives twice is counted twice.
* `EveryTaskDone` excludes articles that yield no upload, which parrot produces
  (all leftovers rare): they stay in `todo` for ever and hold a place in the
  cache.  The property holds while there are fewer of them than places.
* The crawler's `EveryUrlCrawled` is conditional on `[]Spaced`: uploads arrive
  only while the writer sleeps.  Without it a url can starve, its upload being
  overwritten in the mailbox in every round; a link list can be given up for
  the same reason.  Both are what the code does; no text in the repository
  promises otherwise.
* Two overlapping requests may be served wrong by the datagram server (the
  newer one twice, to the newer client, or one that does not parse), but an
  older one never follows a newer one.  After two failed receives it is deaf.
* Results of a block taken before the publisher was connected are dropped, and
  the block is reported all the same; a block without resources is never
  reported; resources past the twentieth are dropped.
* The ostrich upload is exactly what the text alone determines, and dropping
  words that a longer one of the same count contains loses none.
* The parrot placing never overlaps.  Two things one might expect do not hold
  in it, and are not claimed: a word may be turned down although all the words
  that end up placed leave room for it (the flags of a word that was itself
  turned down stay set), and a leftover may lie inside a placed word (cutting
  out replaces every occurrence, also one that straddles another word).
* The words selected by a segmenter tile the stretch; text is missing only where
  a cluster has no path or its graph ends before its longest hint, and then
  only within that cluster.  Text before the first and behind the last hint is
  not looked at.
* A word that no other crosses stays in one piece when it weighs enough; known
  text comes out whole, although every cluster is solved for itself.  In
  Japanese, words that stand twice in a cluster may come out in another order,
  but no character is lost or doubled.
* A crash in the middle of a cast leaves a prefix of the words in key order,
  which every later start takes for the whole; a replaced master keeps the old
  weights.  Both are conditions in `WholeOrPrefix` and `KnownTextWhole`, not
  claims that this is meant.
* A least phrase weight that rounds to zero makes every path infinite: nothing
  is selected, and `pop_back` meets an empty string.
* The parser hands each reply on with its last byte, however the bytes are cut.
* Answers come at most once and in order.  The language of one request, even
  one without a sentence, stays for the next that names none.  Answers are
  dropped while the publisher is away; a request in hand is answered when
  neither connection fails.  The subscription comes back, unless the process
  died of the race on `gPublishRef`.

## 4. The proofs

All theorems are checked by TLAPS, for all values of the constants that
satisfy the modules' named assumptions (`TrainAssumption`, `CrawlerAssumption`,
`UdpAssumption`, `PumpAssumption`, `OstrichAssumption`, `ParrotAssumption`,
`DictAssumption`, `PhoenixAssumption`, `DialogueAssumption`, `ParserAssumption`),
which TLC evaluates in the runs.

Many of them need induction over data.  The library states it with an operator
as a parameter, which the provers cannot instantiate; the proofs use it in
another form: `LeastNatural`, that a set of natural numbers that is not empty has
a least element (from `WFMin`), gives induction for a property that is given as
a set, and with it, that the recursive functions of the models exist
(`LearntExists`, `RankExists`, `ChunksExist`, `FlatExists`, `JoinedExists`,
`LongExists`, `ClosingExists`), so that what their definitions `CHOOSE` satisfies
its equation.

A leaf that names a prover with a time (`SMTT(60)`, `ZenonT(60)`) needs more than
a small part of the time it has otherwise; all others are proved in a sixth of it.

**TrainService_proofs.**  `NoTaskLost`, `AgainAtMostOnce` and the others are not
inductive alone: that a handed out article is counted again at most once needs
to know that a finished article is outside the visible part of the cache once
that happened, that the save thread's upload stems from a queued article, and
that marking adds to `done` first.  `IInv` collects these parts (`TypeOK`,
`Queued`, `Refill`, `NoTaskLost`, `AgainCounted`, `Marking`, `DoneAtBootHidden`,
`CountedAreDone`, `Opened`, `Fresh`).  `Fresh` is why nothing is missed before the
first crash: until the databases are open nobody has an article.  `Window` is
what follows from it, that a save thread that meets an unopened storage runs
after a crash, in a restarting service; it is used for `NoTaskLost`, for the
refinement and for the exact counts.  `InvStep` has one step for each action, and
`Invariance` joins them.  From it follow `TypeCorrect`, `NothingLost`, `HandedOutAgainAtMostOnce`,
`BootDoneHidden`, `CountedOnlyDone` and the refinement `OstrichIsTaskPool`,
which maps `pending` to `todo \ done`; `MarkDone` with an unopened `done` is `Miss`
there, and a remove behind it is `Drop`.  `DictionaryExact` is that, before any
crash, each word's count in the dictionary and what the upload in hand still has
to put to it make up the sum over the uploads received; the sum is a recursive
function over the finite set `Urls`, and one more upload received is one more
summand (by induction over its subsets).

**UrlCrawler_proofs.**  `IInv` is `TypeOK`, `CrawledOnce`, `Splitting` (the tokens
still to handle are a suffix of the links, and those before it are known or
missed), `Marked` (the url being marked entered `master` or is missed), `Adding`
(so is a link that is added although it is crawled), and `Opened` and `Fresh` as
above, with a `Window` of its own.  From it follow `TypeCorrect`, `NothingCrawledTwice`,
`NothingForgotten` and `LinksKept`, the last two as action properties.  The
assumption that links stay in the language of their page is what the filter of
the relay's task sees to.

**OstrichWord_proofs.**  All four properties, along the four passes of the
code.  `IInv` is about the cutting: the pieces, the stops that wait and the
stretch under way spell what was read (`Spelt`), and what may wait at all, so
that stops and stretches take turns (`Waiting`, `TakeTurns`).  `Counted` is about
`learn`: after n pieces the map holds each run of their text as often as it
stands there (`Multi`).  For one more character this is `MultiChar`: the runs
that gain a place are the ones that end with it; and `JointIsEnding`: those are
the joint words of the list `preWords`, because it holds the last characters back
to a stop, the beginning or the longest word (`Recent`).  `Ranked` is about what
is sent: the ranking lists, over all counts, each word not contained in one as
frequent (`RankingLists`); the chunks spell it, the counter standing at the words
of the open list, one more while that is the first (`Chunked`); and among the
runs above a given one of the same count a longest is sent (`LongestAbove`).
The theorems are `CutSpellsArticle`, `RunsCounted`, `RankingIsExact` and
`NothingIsLost`.

**ParrotWord_proofs.**  `NoOverlap` needs that every place a hint can begin at
has a flag (`Flagged`), although the flags do not reach the end of every hint:
two hints that overlap share the place where the later one begins.  With
`SelectedMarked`, `MarkedFor` and `Sorted` this gives `PlacedApart` and
`HeavierGoFirst`.

**UdpServer_proofs.**  Each of the two receives is being started, held by the
reactor, completed, or gone with a failure that was handled (`Receives`); this
bounds the completed ones and gives `TwoReceives`.  The buffer always holds the
newest datagram (`LastReceived`), which is why a handler is never given an older
one (`NeverOlder`) and why a request that meets no other is in one place from its
receipt to its reply (`Alone`), which gives `AloneIsRight`.

**IpfsPump_proofs.**  What was learnt and what is left are always the block in
hand, from its two ends (`Divided`); a report is owed for that block only
(`Balance`); the relay thread holds a task between its two critical sections
unless a block was taken (`Tasks`); only the word list of the resource in hand is
still to be published (`Results`).  From these follow `FinishedOncePerTake`,
`TaskLostOnlyBySplit` and, as action properties, `FinishMeansDone` and
`ResultsBeforeReport`.

**PhoenixWord_proofs.**  First `WholeOrPrefix` for any number of programs that share
the dictionaries.  leveldb's lock (`Exclusive`) leaves each cast to one program;
a cast under way lacks exactly what is still to be put (`Casting`) and is put in
key order, so it is a prefix at every moment (`WellWeighed`); one that nobody
works on is whole unless a crash cut it short (`Wholes`).  `InHand` is needed for
the one step outside `MasterDict` that ends a program: the empty cut only
happens to a worker that casts nothing.

Then `SelectionIsTiled`, that is `Tiled`.  Of the hints alone: between two of them
no place is without one (`NoHole`), every hint is in a cluster and the clusters
lie one behind the other (`EveryHintClustered`, `ClustersApart`).  Of a cluster:
its paths are the chains of words from its beginning to the end of its graph
(`OnwardSolution`, `PathFacts`; the equation that defines them has this solution
and no other).  Of the selection: a path goes behind what is selected
(`SelectedBehind`).  `Tiling` is the invariant: the clusters to come are behind
those seen, and what is seen is selected, one word behind the other, or lost
(`LaidOut`); the text between two selected words is in hints that were seen, so
it is lost (`PathSelected`).  While a text is in hand no other program changes
the words the worker knows (`OthersStep`), which is where leveldb's lock comes in
again.

And `KnownTextIsWhole`, that is `KnownTextWhole`.  A text each of whose characters
is a word has no gaps, and each of its clusters begins and ends with a character
(`KnownCluster`), so that the characters are a way through it (`KnownPath`) and
any way spells its stretch (`PathSpells`).  By `LoadedWeights`, which rests on
`WholeOrPrefix`, every word has a natural weight and no phrase the weight zero
(`KnownPriced`), so every path has a natural cost and one of them the least
(`BestExists`): nothing is dropped.  `Spelt` is the invariant: the words selected
are those of the text up to where the clusters seen end, in order when no two
hints read the same, and otherwise letter by letter as often (`PathSpelt`): a
word found again in the cluster reads the same (`FoundSpells`), and wherever it
is put its letters are added once (`InsertLetters`).  No step makes an
interrupted or replaced cast whole again (`KnownBefore`), so what is known at the
end was known at every cluster.  The proof needs that the words are finitely
many, that the costs are natural numbers, and that `None` is no cost.

Last `WholeWordsStay`, that is `WholeWordStays`, for any of the three segmenters and
any cast, finished or not.  The costs are floats in the code; `Inv` and `InvGain`
are the tables of 1/weight and of what `adjustWeight` makes of a length, and
`PhoenixAssumption` says what the proof needs of them, which rounding keeps: more
weight never costs more, a weight at most `Gain` times another costs at least the
`Gain`th part of it, a missing weight costs most, a longer word never more than a
shorter one, and a word of at least twice the length at most the `Gain`th part.
With these, no hint near such a word costs less than the word (`StandingCost`);
the hints near it are a cluster whose graph ends with the word
(`StandingCluster`); every other path has two edges that count, the first word
twice or with a phrase, so the word alone is the one best path (`StandingBest`);
and by name it is found where it stands, since nothing else near it is as long
(`StandingFound`).  `Stays` is the invariant: the words that are to stay whole of
the clusters seen so far are selected; `SelectedKeeps` is why later clusters,
which insert before or behind, lose none of them.  `Rated` says that the weight of
every entry of every cast is a rounded one, in 0 to `Unit`, also of casts that a
crash cut short or whose master was replaced.

**DialogueService_proofs.**  `RepliesMatch` is about three queues that move at
different times: the handlers of a client, its commands queued, under way or at
the server, and the replies on their way back.  `QInv` says that the handlers are
those of the commands not yet answered, in order, at every moment between two
steps; `Commands`, which selects them, is a recursive function whose value for a
sequence with one more element is a lemma.  `AnswersExact` follows from the
order of the requests before and behind the publisher (`InOrder`, `OutOrder`),
what is known of each (`KnownOK`), and the language kept between two of them
(`LanguageOK`).  The proof needs that no language is called `None`
(`DialogueAssumption`).

The same module proves `RepliesAreExact` and `OnlyRubbishFailsAlways`, that is
`RepliesExact` and `OnlyRubbishFails`, for any replies, arrays of any depth,
pieces of any length, and any bytes behind the last reply.  First of the
protocol: what stands at a place of the stream begins with one line, whose end
does not depend on how the bytes go on (`FirstUnique`), so it is one reply with
one meaning or the header of one array (`ScalarUnique`, `SaysUnique`).  Then of
the parser's states: `Token` says what a state with its `buf` and `bulkSize`
means for the bytes taken since the innermost item began, wherever the pieces
ended; if a reply or a header stands there, it ends later and the next byte is
one the state goes on with (`TokenAhead`).  `Path` leads from the text in hand
through the open arrays to that item: each open array has its first items' values
and counts the ones to come.  Behind a value the arrays it completes are exactly
those whose last item it was (`ItemEnds`, `PathCloses`), and either the text is
complete there, with its value, or a path leads to the next item; a header adds
an array to the path (`PathOpens`).  `ParserInv` puts these together: the piece
is where it is in the stream (`Pieces`), the stack holds the state between two
pieces (`Stored`), the replies handed on are the first texts (`Delivered`), and
the parser is on such a path in the next or failed in one that is broken
(`Standing`).  `ParserAssumption` says no more than that `Texts` and `Streams`
are what the protocol allows, and that letters, digits and marks differ.

All safety properties the runs check are proved.  What only TLC checks
is liveness (`EveryTaskDone`, `LeftoverRemoved`, `EveryUrlCrawled`,
`EverythingReceived`, `EveryBlockReported`, `SubscribedAgain`,
`InHandIsAnswered`), because the prover has neither fairness nor ENABLED.

## 5. What is left out

* The content of words, texts, urls and json; logging; the graphviz dumps.
* A database that cannot be opened, and write statuses, which the code ignores.
  The pointer `save_` of a storage is not initialised in `urlstorage.hpp` and
  `dictstorage.hpp`; until it is opened it is taken for null, as fresh memory has
  it.  Anything else is a crash, which may happen at any moment in the models.
* In `FetchRace`, the text of an entry that is read while it is destroyed: it is
  taken to be still the one that was there.
* The empty datagram behind each reply of the url crawler: all the relay, which is
  not in the repository, can take it for is an empty answer, which has the
  crawler ask again (`FetchEmpty` without its notification).
* Properties of three things that are modelled and that nothing in the
  repository speaks about: a failed download that marks a page crawled without
  links (`textpump.cpp:67`), flags that a turned-down word leaves behind
  (`parrotword.cpp:172`), and the empty cut (`zhiziword.cpp:84`).  What
  `ParrotWord` does after the placing (`Leftovers`, `CollectWord`,
  `PickupWordRanking`) is modelled and no property reads it.
* A failed download of an article in `TrainService` (it is learnt as an empty
  text, as `OstrichWord` has it); the summary requests, which only read.
* In `IpfsPump`, messages that are not json and lists with elements that are not
  strings: both throw and end the process, as `FetchBlockFails` does.
* Qiangbao and tree segmenters: variants of the parrot and phoenix ones that are
  compiled into the library and called by no program of the build.
* Text to speech clips and the play list `createTTSLink` writes for an answer: a
  look-up in a read-only file, without state of its own.
* `cutSpace` for latin text in zhizi, and the graphs drawn for the log.
* Of the redis client what nobody here uses: the synchronous client, the
  pipeline, unsubscribe, single shot subscriptions.
* nlohmann-json, which is vendored and more than half of all lines: a library
  without state that the programs share, used through `parse` and `dump` only;
  what a text that does not parse does is in the models that parse.
* Offline tools and sources that the build leaves out: sequential, run by hand.

## 6. Plan

Done: `TrainService` with `TaskPool`, `UrlCrawler`, `UdpServer`, `IpfsPump`,
`OstrichWord`, `ParrotWord`, `MasterDict`, `PhoenixWord`, `RedisParser`,
`RedisClient`, `DialogueService`, and the proofs of all safety properties checked.

To come: properties for what is modelled and has none (the group under which the
results of a block go out when its announcement names none, `ipfspump.cpp:197`,
and the three of section 5), once somebody says what the code owes there; and
the qiangbao and tree segmenters, should a program call them.
