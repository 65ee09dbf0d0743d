--------------------------- MODULE DialogueService ---------------------------
(***************************************************************************)
(* The dialogue service (tools/wai.cpp).  A subscriber thread receives     *)
(* requests over redis, has them answered (watorword/api_wai.cpp) and      *)
(* hands the answers to the client of a publisher thread                   *)
(* (watorword/redis_entry.cpp).  Each thread runs a client until its       *)
(* connection fails, sleeps ten seconds and starts with a new one.  The    *)
(* subscriber finds the publisher's client through the weak pointer        *)
(* gPublishRef, which has no lock.                                         *)
(*                                                                         *)
(* What a request says is its kind of text and the language it names; what *)
(* the segmenters make of the sentence is in PhoenixWord.                  *)
(***************************************************************************)
EXTENDS RedisClient

CONSTANTS
  Sub, Pub,    \* the client of the subscriber and that of the publisher
  Requests,    \* what users send: [text, lang]; not JSON says as much as {}
  None,
  MaxAsked,    \* bound: requests
  MaxFaults    \* bound: connections that fail or break

ASSUME DialogueAssumption ==
  /\ Clients = {Sub, Pub} /\ Subscribers = {Sub} /\ Sub # Pub
  /\ \A r \in Requests : r.text \in {"sentence", "no sentence"}
  /\ None # "ja"
  /\ MaxAsked \in Nat /\ MaxFaults \in Nat

VARIABLES
  asked,      \* history: the requests in the order of their numbers
  subscribed, \* the server knows the subscription
  gLang,      \* the language of the last request that named one
  busy,       \* the request onMessageAPI works on, and how far it is
  answers,    \* what was published: [to, lang]
  handled,    \* history: the requests processed since the service started
  faults

vars == <<clientVars, asked, subscribed, gLang, busy, answers, handled, faults>>

Init ==
  /\ ClientInit
  /\ asked = <<>>
  /\ subscribed = FALSE
  /\ gLang = "ja"
  /\ busy = None
  /\ answers = <<>>
  /\ handled = {}
  /\ faults = 0

-----------------------------------------------------------------------------
(* The users and the server *)

(* A request that is published while nobody is subscribed is lost.         *)
Ask(r) ==
  /\ Len(asked) < MaxAsked
  /\ asked' = Append(asked, r)
  /\ incoming' = IF subscribed
                 THEN [incoming EXCEPT ![Sub] = Append(@, [cmd |-> "message", arg |-> Len(asked) + 1])]
                 ELSE incoming
  /\ UNCHANGED <<state, posted, handlers, dataQueued, dataWrited, taken, over,
                 subscribed, gLang, busy, answers, handled, faults>>

Serve(c) ==
  /\ ServerTakes(c)
  /\ LET command == dataWrited[c][taken[c] + 1]
     IN /\ subscribed' = (subscribed \/ command.cmd = "subscribe")
        /\ answers' = IF command.cmd = "publish" THEN Append(answers, command.arg) ELSE answers
  /\ UNCHANGED <<asked, gLang, busy, handled, faults>>

Fault(c) ==
  /\ faults < MaxFaults
  /\ faults' = faults + 1
  /\ ConnectFails(c) \/ Break(c)
  /\ subscribed' = (subscribed /\ c # Sub)
  /\ UNCHANGED <<asked, gLang, busy, answers, handled>>

-----------------------------------------------------------------------------
(* redis_sub_main, redis_pub_main *)

(* A thread that works on a request does nothing else.                     *)
Free(c) == c = Sub => busy = None

Run(c) ==
  /\ Free(c)
  /\ \/ Construct(c) \/ Connect(c) \/ HandleAsyncConnect(c)
     \/ DoAsyncCommand(c) \/ AsyncWrite(c) \/ AsyncRead(c)
  /\ UNCHANGED <<asked, subscribed, gLang, busy, answers, handled, faults>>

(* The client and the io_service go.  A client that the other thread has   *)
(* locked stays, without an io_service.                                    *)
RunEnds(c) ==
  /\ Free(c)
  /\ Destroy(c)
  /\ busy' = IF busy # None /\ busy.step = "publish" THEN [busy EXCEPT !.step = "stale"] ELSE busy
  /\ UNCHANGED <<asked, subscribed, gLang, answers, handled, faults>>

-----------------------------------------------------------------------------
(* onMessageAPI *)

(* Faulty variant: without a language the default is taken.                *)
LanguageDefault(r) == IF r.lang # None THEN r.lang ELSE "ja"
(* The language is taken from every request that names one, before the     *)
(* sentence is looked for, and kept.                                       *)
Language(r) == IF r.lang # None THEN r.lang ELSE gLang

(* processText: only a sentence has an answer in a language, all else is   *)
(* answered with {"finnish": true}.                                        *)
ProcessText ==
  /\ busy = None
  /\ posted[Sub] # <<>> /\ IsMessage(Head(posted[Sub]))
  /\ posted' = [posted EXCEPT ![Sub] = Tail(@)]
  /\ LET n == Head(posted[Sub]).arg
     IN /\ gLang' = Language(asked[n])
        /\ busy' = [to |-> n, step |-> "lock",
                    lang |-> IF asked[n].text = "sentence" THEN gLang' ELSE None]
        /\ handled' = handled \cup {n}
  /\ UNCHANGED <<state, handlers, dataQueued, dataWrited, taken, incoming, over,
                 asked, subscribed, answers, faults>>

AtStep(step) == busy # None /\ busy.step = step
Keep == UNCHANGED <<asked, subscribed, gLang, answers, handled, faults>>

(* Undefined behaviour may end the process, which nothing starts again.    *)
Dies ==
  /\ state' = [c \in Clients |-> "Dead"]
  /\ posted' = [c \in Clients |-> <<>>] /\ handlers' = [c \in Clients |-> <<>>]
  /\ dataQueued' = [c \in Clients |-> <<>>] /\ dataWrited' = [c \in Clients |-> <<>>]
  /\ taken' = [c \in Clients |-> 0] /\ incoming' = [c \in Clients |-> <<>>]
  /\ over' = [c \in Clients |-> FALSE]
  /\ subscribed' = FALSE /\ busy' = None
  /\ UNCHANGED <<asked, gLang, answers, handled, faults>>

(* A sentence of which the segmenters cut nothing, see                     *)
(* PhoenixWord!AnswerNothing: the last character of an empty cut is taken  *)
(* off, which is undefined.                                                *)
ProcessTextDies ==
  /\ busy = None
  /\ posted[Sub] # <<>> /\ IsMessage(Head(posted[Sub]))
  /\ asked[Head(posted[Sub]).arg].text = "sentence"
  /\ Dies

(* gPublishRef.lock(): nothing while there is no client.                   *)
LockNothing ==
  /\ AtStep("lock")
  /\ state[Pub] = "None"
  /\ busy' = None
  /\ UNCHANGED clientVars /\ Keep

(* The publisher thread has made a client and assigns gPublishRef at this  *)
(* moment: the old pointer, which is empty, the new one, or one that is    *)
(* being freed.                                                            *)
Assigning == state[Pub] = "Unconnected" /\ ~over[Pub]
LockRace ==
  /\ AtStep("lock")
  /\ Assigning
  /\ \/ busy' = None /\ UNCHANGED clientVars /\ Keep
     \/ Dies

LockRef ==
  /\ AtStep("lock")
  /\ state[Pub] # "None"
  /\ busy' = [busy EXCEPT !.step = "publish"]
  /\ UNCHANGED clientVars /\ Keep

(* Faulty variant: the answer is not published while a write is under way. *)
PublishIfIdle ==
  /\ AtStep("publish")
  /\ posted' = IF IsConnected(Pub) /\ dataWrited[Pub] = <<>>
               THEN [posted EXCEPT ![Pub] =
                       Append(@, [cmd |-> "publish", arg |-> [to |-> busy.to, lang |-> busy.lang]])]
               ELSE posted
  /\ busy' = None
  /\ UNCHANGED <<state, handlers, dataQueued, dataWrited, taken, incoming, over>> /\ Keep
(* isConnected() and publish(): posted to the strand of the publisher, or  *)
(* dropped.                                                                *)
Publish ==
  /\ AtStep("publish")
  /\ posted' = IF IsConnected(Pub)
               THEN [posted EXCEPT ![Pub] =
                       Append(@, [cmd |-> "publish", arg |-> [to |-> busy.to, lang |-> busy.lang]])]
               ELSE posted
  /\ busy' = None
  /\ UNCHANGED <<state, handlers, dataQueued, dataWrited, taken, incoming, over>> /\ Keep

(* The client it holds has lost its io_service: undefined.                 *)
PublishStale ==
  /\ AtStep("stale")
  /\ \/ busy' = None /\ UNCHANGED clientVars /\ Keep
     \/ Dies

-----------------------------------------------------------------------------
OnMessage ==
  \/ ProcessText \/ ProcessTextDies
  \/ LockNothing \/ LockRace \/ LockRef \/ Publish \/ PublishStale

Next ==
  \/ \E r \in Requests : Ask(r)
  \/ \E c \in Clients : Serve(c) \/ Fault(c) \/ Run(c) \/ RunEnds(c)
  \/ OnMessage

Spec == Init /\ [][Next]_vars

(* The threads run and the server serves; faults and users are free.       *)
Fairness ==
  /\ \A c \in Clients : WF_vars(Serve(c)) /\ WF_vars(Run(c)) /\ WF_vars(RunEnds(c))
  /\ WF_vars(OnMessage)

FairSpec == Spec /\ Fairness

-----------------------------------------------------------------------------
(* Properties *)

(* A request is answered at most once, the answers come in the order of the*)
(* requests through all reconnections, and each is in the language that was*)
(* in force: the one its request named or else, of those processed before  *)
(* it, the last that named one, even when that one had no sentence.        *)
AnswersExact ==
  /\ \A i, j \in DOMAIN answers : i < j => answers[i].to < answers[j].to
  /\ \A i \in DOMAIN answers :
       LET n == answers[i].to
           before == {m \in handled : m <= n /\ asked[m].lang # None}
       IN /\ (answers[i].lang = None) = (asked[n].text # "sentence")
          /\ answers[i].lang # None /\ n \in handled =>
               answers[i].lang = IF before = {} THEN "ja"
                                 ELSE asked[CHOOSE m \in before : \A k \in before : k <= m].lang

(* The service comes back: whatever connections fail, and however often,   *)
(* the server knows a subscription again and again, unless the process died*)
(* of the races on gPublishRef or of an empty cut.                         *)
Dead == \E c \in Clients : state[c] = "Dead"
SubscribedAgain == []<>(subscribed \/ Dead)

InHand(n) ==
  \/ \E e \in Range(incoming[Sub]) \cup Range(posted[Sub]) : IsMessage(e) /\ e.arg = n
  \/ busy # None /\ busy.to = n /\ busy.step # "stale"
  \/ \E e \in Range(posted[Pub]) \cup Range(dataQueued[Pub]) \cup Range(dataWrited[Pub]) :
       e.cmd = "publish" /\ e.arg.to = n
Up == subscribed /\ ~over[Sub] /\ state[Pub] = "Connected" /\ ~over[Pub]
Answered(n) == \E a \in Range(answers) : a.to = n

(* A request that is in the service while both connections are up is       *)
(* answered, unless one of them fails first or its handler still holds the *)
(* publisher's client of before.                                           *)
InHandIsAnswered ==
  \A n \in 1..MaxAsked : InHand(n) /\ Up ~> Answered(n) \/ ~Up
=============================================================================
