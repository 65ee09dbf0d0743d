------------------------------ MODULE IpfsPump ------------------------------
(***************************************************************************)
(* A learner fed over ipfs (ipfs-tools/ostrich.cpp, watorword/ipfspump.cpp)*)
(* A relay thread listens on a redis channel for announced blocks and puts *)
(* them into the one-place mailbox gTask, gBlockCID; the pump thread takes *)
(* a block out, downloads the list of its resources, learns them one by    *)
(* one, publishes what it learnt and reports the block as finished.        *)
(* Nothing survives the end of the process.                                *)
(***************************************************************************)
EXTENDS Naturals, Sequences, FiniteSets

CONSTANTS
  Announcements,  \* the messages on the channel: [task, block]
  Blocks,         \* the blocks
  Resources,      \* for each block the sequence of its resources
  HasWords,       \* those pickupWordRankingJson makes a word list of
  Group,          \* the group each block names; None: it names none
  ResourceMax,    \* resoureCIDs_ takes no more than this many
  App,            \* the task name this process listens for
  None,           \* the empty string
  MaxFaults       \* bound: failed downloads, lost connections

AllResources == UNION {{Resources[b][i] : i \in 1..Len(Resources[b])} : b \in Blocks}

ASSUME PumpAssumption ==
  /\ Announcements \subseteq [task : STRING, block : Blocks \cup {None}]
  /\ App \in STRING /\ None # App
  /\ None \notin Blocks /\ None \notin Announcements
  /\ \A b \in Blocks : Resources[b] \in Seq(AllResources)
  /\ None \notin AllResources
  /\ HasWords \subseteq AllResources
  /\ DOMAIN Group = Blocks
  /\ ResourceMax \in Nat \ {0}
  /\ MaxFaults \in Nat

VARIABLES
  left,           \* the announcements still to come
  channel,        \* those redis has delivered to the subscriber's socket
  subscriber, publisher,  \* the two connections of the relay thread
  relay, relayMsg,        \* the relay thread and the announcement in hand
  gTask, gBlockCID,       \* the mailbox, under gBlockMutex
  pump,                   \* where the pump thread is
  resoureCIDs, blockCID, group, task, isRunBlock, \* the fields of IpfsTextPump
  content,        \* what the pump is learning; None: the download failed
  alive,          \* the process has not been terminated
  faults,
  learnt,         \* history: resources learnt of the block in hand
  finishes,       \* history: reports of each block
  takes,          \* history: how often each block was taken
  published,      \* history: those of them whose word list was published
  missed,         \* history: those of them whose download failed
  upAtTake,       \* history: the publisher was connected when it was taken
  split,          \* history: a block was taken between the two halves of onMessage
  overwritten     \* history: blocks overwritten before they were taken

net     == <<left, channel, subscriber, publisher>>
relays  == <<relay, relayMsg>>
mailbox == <<gTask, gBlockCID>>
fields  == <<resoureCIDs, blockCID, group, task, isRunBlock>>
pumps   == <<pump, content>>
perBlock == <<published, missed, upAtTake>>
history == <<learnt, finishes, takes, perBlock, split, overwritten>>
vars == <<net, relays, mailbox, fields, pumps, alive, faults, history>>

Init ==
  /\ left = Announcements /\ channel = <<>>
  /\ subscriber = "connecting" /\ publisher = "connecting"
  /\ relay = "idle" /\ relayMsg = None
  /\ gTask = None /\ gBlockCID = None
  /\ pump = "loop" /\ content = None
  /\ resoureCIDs = <<>> /\ blockCID = None /\ group = None /\ task = None /\ isRunBlock = FALSE
  /\ alive = TRUE /\ faults = 0
  /\ learnt = <<>> /\ published = {} /\ missed = {} /\ upAtTake = FALSE
  /\ finishes = [b \in Blocks |-> 0] /\ takes = [b \in Blocks |-> 0]
  /\ split = FALSE /\ overwritten = {}

Fault == faults < MaxFaults /\ faults' = faults + 1

(* The first ResourceMax resources of a block.                             *)
Take(b) == SubSeq(Resources[b], 1, IF Len(Resources[b]) < ResourceMax
                                   THEN Len(Resources[b]) ELSE ResourceMax)

(* gBlockMutex is free: the pump holds it while it downloads a block.      *)
Unlocked == pump # "fetching"

-----------------------------------------------------------------------------
(* Redis and the relay thread *)

(* The connect handlers.  A connection that cannot be made is only logged. *)
Subscribe ==
  /\ alive
  /\ subscriber = "connecting"
  /\ \/ subscriber' = "up" /\ UNCHANGED faults
     \/ subscriber' = "failed" /\ Fault
  /\ UNCHANGED <<left, channel, publisher, relays, mailbox, fields, pumps, alive, history>>

ConnectPublisher ==
  /\ alive
  /\ relay = "idle"
  /\ publisher = "connecting"
  /\ \/ publisher' = "up" /\ UNCHANGED faults
     \/ publisher' = "failed" /\ Fault
  /\ UNCHANGED <<left, channel, subscriber, relays, mailbox, fields, pumps, alive, history>>

(* A connection that breaks makes the client's error handler throw, out of *)
(* the detached thread: the process is terminated.                         *)
ConnectionLost ==
  /\ alive
  /\ relay = "idle"
  /\ "up" \in {subscriber, publisher}
  /\ Fault
  /\ alive' = FALSE
  /\ UNCHANGED <<net, relays, mailbox, fields, pumps, history>>

(* Redis delivers a published message to whoever is subscribed just then.  *)
Announce(m) ==
  /\ m \in left
  /\ left' = left \ {m}
  /\ channel' = IF alive /\ subscriber = "up" THEN Append(channel, m) ELSE channel
  /\ UNCHANGED <<subscriber, publisher, relays, mailbox, fields, pumps, alive, faults, history>>

(* onMessage ignores the tasks of other programs.                          *)
OnMessage ==
  /\ alive
  /\ relay = "idle"
  /\ channel # <<>>
  /\ channel' = Tail(channel)
  /\ IF Head(channel).task = App
     THEN relay' = "task" /\ relayMsg' = Head(channel)
     ELSE UNCHANGED relays
  /\ UNCHANGED <<left, subscriber, publisher, mailbox, fields, pumps, alive, faults, history>>

(* Faulty variant: the block is stored before the task, which is forgotten. *)
StoreTaskLate ==
  /\ alive
  /\ relay = "task"
  /\ Unlocked
  /\ relay' = "block"
  /\ gBlockCID' = IF relayMsg.block = None THEN gBlockCID ELSE relayMsg.block
  /\ UNCHANGED <<net, relayMsg, gTask, fields, pumps, alive, faults, history>>

(* The first critical section of onMessage.                                *)
StoreTask ==
  /\ alive
  /\ relay = "task"
  /\ Unlocked
  /\ gTask' = relayMsg.task
  /\ relay' = "block"
  /\ UNCHANGED <<net, relayMsg, gBlockCID, fields, pumps, alive, faults, history>>

(* The second one, if the message names a block: a block that was not      *)
(* taken yet is overwritten.                                               *)
StoreBlock ==
  /\ alive
  /\ relay = "block"
  /\ relay' = "idle" /\ relayMsg' = None
  /\ IF relayMsg.block = None
     THEN UNCHANGED <<gBlockCID, overwritten>>
     ELSE /\ Unlocked
          /\ gBlockCID' = relayMsg.block
          /\ overwritten' = overwritten \cup ({gBlockCID} \ {None})
  /\ UNCHANGED <<net, gTask, fields, pumps, alive, faults,
                 learnt, finishes, takes, perBlock, split>>

-----------------------------------------------------------------------------
(* The pump thread *)

(* Faulty variants: isRunBlock_ is not reset; the report comes one         *)
(* resource early.                                                         *)
FinishBlockAgain ==
  /\ alive
  /\ pump = "loop"
  /\ resoureCIDs = <<>>
  /\ isRunBlock
  /\ isRunBlock' = (finishes[blockCID] < 2)
  /\ finishes' = IF publisher = "up"
                 THEN [finishes EXCEPT ![blockCID] = @ + 1] ELSE finishes
  /\ UNCHANGED <<net, relays, mailbox, resoureCIDs, blockCID, group, task, pumps, alive, faults,
                 learnt, takes, perBlock, split, overwritten>>
FinishBlockEarly ==
  /\ alive
  /\ pump = "loop"
  /\ Len(resoureCIDs) <= 1
  /\ isRunBlock
  /\ isRunBlock' = FALSE
  /\ finishes' = IF publisher = "up"
                 THEN [finishes EXCEPT ![blockCID] = @ + 1] ELSE finishes
  /\ UNCHANGED <<net, relays, mailbox, resoureCIDs, blockCID, group, task, pumps, alive, faults,
                 learnt, takes, perBlock, split, overwritten>>

(* fetchMasterTask with nothing left to learn: the block it ran is         *)
(* reported, if the publisher is there.                                    *)
FinishBlock ==
  /\ alive
  /\ pump = "loop"
  /\ resoureCIDs = <<>>
  /\ isRunBlock
  /\ isRunBlock' = FALSE
  /\ finishes' = IF publisher = "up"
                 THEN [finishes EXCEPT ![blockCID] = @ + 1] ELSE finishes
  /\ UNCHANGED <<net, relays, mailbox, resoureCIDs, blockCID, group, task, pumps, alive, faults,
                 learnt, takes, perBlock, split, overwritten>>

(* fetchBlockResource takes gBlockMutex and finds a block in the mailbox   *)
(* (with an empty mailbox it gives up, and the loop starts again).         *)
LockBlock ==
  /\ alive
  /\ pump = "loop"
  /\ resoureCIDs = <<>>
  /\ ~isRunBlock
  /\ gBlockCID # None
  /\ pump' = "fetching"
  /\ UNCHANGED <<net, relays, mailbox, fields, content, alive, faults, history>>

(* parseResourceBlock, then the rest of fetchBlockResource.                *)
FetchBlock ==
  /\ alive
  /\ pump = "fetching"
  /\ resoureCIDs' = Take(gBlockCID)
  /\ task' = gTask
  /\ blockCID' = gBlockCID
  /\ group' = IF Group[gBlockCID] = None THEN group ELSE Group[gBlockCID]
  /\ gBlockCID' = None /\ gTask' = None
  /\ pump' = "loop"
  /\ learnt' = <<>> /\ published' = {} /\ missed' = {} /\ upAtTake' = (publisher = "up")
  /\ takes' = [takes EXCEPT ![gBlockCID] = @ + 1]
  /\ split' = (split \/ relay = "block")
  /\ UNCHANGED <<net, relays, isRunBlock, content, alive, faults, finishes, overwritten>>

(* wget leaves an empty file behind: json::parse throws out of main.       *)
FetchBlockFails ==
  /\ alive
  /\ pump = "fetching"
  /\ Fault
  /\ alive' = FALSE
  /\ UNCHANGED <<net, relays, mailbox, fields, pumps, history>>

(* Faulty variant: isRunBlock_ is not set.                                 *)
FetchResourceUnnoted ==
  /\ alive
  /\ pump = "loop"
  /\ resoureCIDs # <<>>
  /\ LET last == Len(resoureCIDs)
     IN /\ content' = resoureCIDs[last]
        /\ resoureCIDs' = SubSeq(resoureCIDs, 1, last - 1)
        /\ learnt' = Append(learnt, resoureCIDs[last])
  /\ pump' = "learning"
  /\ UNCHANGED <<net, relays, mailbox, blockCID, group, task, isRunBlock, alive, faults,
                 finishes, takes, perBlock, split, overwritten>>

(* fetchMasterTask with something to learn: the last resource is           *)
(* downloaded, or its empty file read, and popped.                         *)
FetchResource ==
  /\ alive
  /\ pump = "loop"
  /\ resoureCIDs # <<>>
  /\ isRunBlock' = TRUE
  /\ LET last == Len(resoureCIDs)
     IN /\ \/ content' = resoureCIDs[last] /\ UNCHANGED <<missed, faults>>
           \/ content' = None /\ missed' = missed \cup {resoureCIDs[last]} /\ Fault
        /\ resoureCIDs' = SubSeq(resoureCIDs, 1, last - 1)
        /\ learnt' = Append(learnt, resoureCIDs[last])
  /\ pump' = "learning"
  /\ UNCHANGED <<net, relays, mailbox, blockCID, group, task, alive,
                 finishes, takes, published, upAtTake, split, overwritten>>

(* Faulty variant: the word list is not published.                         *)
CommitArticleSilent ==
  /\ alive
  /\ pump = "learning"
  /\ pump' = "loop"
  /\ content' = None
  /\ UNCHANGED <<net, relays, mailbox, fields, alive, faults, history>>

(* Learn, then commitArticleIpfs: a word list, if there is one, is         *)
(* published, if the publisher is there.                                   *)
CommitArticle ==
  /\ alive
  /\ pump = "learning"
  /\ pump' = "loop"
  /\ content' = None
  /\ published' = IF publisher = "up" THEN published \cup ({content} \cap HasWords)
                  ELSE published
  /\ UNCHANGED <<net, relays, mailbox, fields, alive, faults,
                 learnt, finishes, takes, missed, upAtTake, split, overwritten>>

(* commitIpfs, in either place, tests and locks gPublishRef without a lock:*)
(* while the connect handler assigns it, the pump may find half a pointer, *)
(* which is undefined and may end the process.  That it finds the old or   *)
(* the new one is in FinishBlock and CommitArticle.                        *)
CommitRace ==
  /\ alive
  /\ relay = "idle"
  /\ publisher = "connecting"
  /\ \/ pump = "learning" /\ content \in HasWords
     \/ pump = "loop" /\ resoureCIDs = <<>> /\ isRunBlock
  /\ alive' = FALSE
  /\ UNCHANGED <<net, relays, mailbox, fields, pumps, faults, history>>

-----------------------------------------------------------------------------
Relay == OnMessage \/ StoreTask \/ StoreBlock
Pump == FinishBlock \/ LockBlock \/ FetchBlock \/ FetchResource \/ CommitArticle

Next ==
  \/ \E m \in Announcements : Announce(m)
  \/ Subscribe \/ ConnectPublisher \/ ConnectionLost
  \/ Relay
  \/ Pump \/ FetchBlockFails \/ CommitRace

Spec == Init /\ [][Next]_vars

(* Both threads run; connecting ends one way or the other.                 *)
Fairness == WF_vars(Subscribe) /\ WF_vars(ConnectPublisher) /\ WF_vars(Relay) /\ WF_vars(Pump)
FairSpec == Spec /\ Fairness

-----------------------------------------------------------------------------
(* Properties *)

(* Every variable has its type.                                            *)
TypeOK ==
  /\ left \subseteq Announcements /\ channel \in Seq(Announcements)
  /\ {subscriber, publisher} \subseteq {"connecting", "up", "failed"}
  /\ relay \in {"idle", "task", "block"}
  /\ relayMsg \in IF relay = "idle" THEN {None} ELSE Announcements
  /\ {gTask, task} \subseteq {App, None}
  /\ {gBlockCID, blockCID} \subseteq Blocks \cup {None}
  /\ pump \in {"loop", "fetching", "learning"}
  /\ pump = "fetching" => gBlockCID # None /\ resoureCIDs = <<>>
  /\ group \in {Group[b] : b \in Blocks} \cup {None}
  /\ resoureCIDs \in Seq(AllResources) /\ Len(resoureCIDs) <= ResourceMax
  /\ isRunBlock \in BOOLEAN /\ alive \in BOOLEAN /\ split \in BOOLEAN
  /\ content \in AllResources \cup {None}
  /\ faults \in 0..MaxFaults
  /\ learnt \in Seq(AllResources) /\ published \cup missed \subseteq AllResources
  /\ upAtTake \in BOOLEAN
  /\ finishes \in [Blocks -> Nat] /\ takes \in [Blocks -> Nat]
  /\ overwritten \subseteq Blocks

(* A report says what was done: when the pump reports a block, it is the   *)
(* block it took last, and each of its first ResourceMax resources has     *)
(* been learnt exactly once, the last one first.                           *)
FinishMeansDone ==
  [][finishes' # finishes =>
       LET n == Len(learnt)
       IN /\ n = Len(Take(blockCID)) /\ n > 0
          /\ \A i \in 1..n : learnt[i] = Take(blockCID)[n + 1 - i]]_vars

(* The report comes after the results: all word lists of the block were    *)
(* published before, except for a failed download, and unless the          *)
(* publisher only connected after the block was taken; then results are    *)
(* silently dropped and the block is reported all the same.                *)
ResultsBeforeReport ==
  [][finishes' # finishes /\ upAtTake =>
       \A i \in 1..Len(learnt) : learnt[i] \in HasWords => learnt[i] \in published \cup missed]_vars

(* A block is reported at most once each time it was taken.                *)
FinishedOncePerTake == \A b \in Blocks : finishes[b] <= takes[b]

(* Results go out under the name of their task.  The only block learnt     *)
(* without it is one whose announcement met a take between the two         *)
(* critical sections of onMessage.                                         *)
TaskLostOnlyBySplit ==
  ~split => (gBlockCID # None => gTask # None) /\ (blockCID # None => task # None)

(* A block with resources that reached the mailbox is reported, unless a   *)
(* later one overwrote it, the process was terminated or there is nobody   *)
(* to publish with.  A block without resources is never reported.          *)
EveryBlockReported ==
  \A b \in Blocks :
    gBlockCID = b /\ Resources[b] # <<>> ~>
      finishes[b] > 0 \/ b \in overwritten \/ ~alive \/ publisher # "up"
=============================================================================
