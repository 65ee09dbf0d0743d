----------------------------- MODULE RedisClient -----------------------------
(***************************************************************************)
(* Clients of a redis server (redisclient/impl/redisclientimpl.cpp,        *)
(* redisasyncclient.cpp), each with an io_service of its own that one      *)
(* thread runs.  Commands are posted to the strand of the client, queued   *)
(* there and written together while one write at most is under way; their  *)
(* handlers wait in a queue for the replies, which carry no names.  Once   *)
(* subscribed, messages come between the replies and their handlers are    *)
(* posted to the strand as well.                                           *)
(*                                                                         *)
(* RedisParser shows that replies come out of the bytes as they were sent; *)
(* here they are records, read one at a time.                              *)
(***************************************************************************)
EXTENDS Naturals, Sequences, FiniteSets, SequencesExt

CONSTANTS
  Clients,
  Subscribers  \* those that subscribe when they are connected

ASSUME ClientAssumption == Subscribers \subseteq Clients

VARIABLES
  state,      \* "None" without a client, "Dead" without a process, or
              \* the State of RedisClientImpl
  posted,     \* what was posted to the strand and has not run
  handlers,   \* the commands whose handlers wait for a reply
  dataQueued, \* the commands to be written next
  dataWrited, \* those of the write under way
  taken,      \* how many of them the server has taken
  incoming,   \* replies and messages the server has sent
  over        \* the connection is broken, or never came to be

clientVars == <<state, posted, handlers, dataQueued, dataWrited, taken, incoming, over>>

ClientInit ==
  /\ state = [c \in Clients |-> "None"]
  /\ posted = [c \in Clients |-> <<>>]
  /\ handlers = [c \in Clients |-> <<>>]
  /\ dataQueued = [c \in Clients |-> <<>>]
  /\ dataWrited = [c \in Clients |-> <<>>]
  /\ taken = [c \in Clients |-> 0]
  /\ incoming = [c \in Clients |-> <<>>]
  /\ over = [c \in Clients |-> FALSE]

Subscribe == [cmd |-> "subscribe", arg |-> 0]
IsCommand(e) == e.cmd \in {"subscribe", "publish"}
IsMessage(e) == e.cmd = "message"

-----------------------------------------------------------------------------
(* Connecting *)

Construct(c) ==
  /\ state[c] = "None"
  /\ state' = [state EXCEPT ![c] = "Unconnected"]
  /\ UNCHANGED <<posted, handlers, dataQueued, dataWrited, taken, incoming, over>>

Connect(c) ==
  /\ state[c] = "Unconnected" /\ ~over[c]
  /\ state' = [state EXCEPT ![c] = "Connecting"]
  /\ UNCHANGED <<posted, handlers, dataQueued, dataWrited, taken, incoming, over>>

(* handleAsyncConnect, its handler and, in a subscriber, subscribe, which  *)
(* is Subscribed before the server has heard of it.                        *)
HandleAsyncConnect(c) ==
  /\ state[c] = "Connecting"
  /\ state' = [state EXCEPT ![c] = IF c \in Subscribers THEN "Subscribed" ELSE "Connected"]
  /\ posted' = IF c \in Subscribers THEN [posted EXCEPT ![c] = Append(@, Subscribe)] ELSE posted
  /\ UNCHANGED <<handlers, dataQueued, dataWrited, taken, incoming, over>>

(* With an error nothing is left to run.                                   *)
ConnectFails(c) ==
  /\ state[c] = "Connecting"
  /\ state' = [state EXCEPT ![c] = "Unconnected"]
  /\ over' = [over EXCEPT ![c] = TRUE]
  /\ UNCHANGED <<posted, handlers, dataQueued, dataWrited, taken, incoming>>

IsConnected(c) == state[c] \in {"Connected", "Subscribed"}

-----------------------------------------------------------------------------
(* Writing *)

(* Faulty variant: a write is started beside the one under way.            *)
DoAsyncCommandAtOnce(c) ==
  /\ IsConnected(c)
  /\ posted[c] # <<>> /\ IsCommand(Head(posted[c]))
  /\ posted' = [posted EXCEPT ![c] = Tail(@)]
  /\ handlers' = [handlers EXCEPT ![c] = Append(@, Head(posted[c]))]
  /\ dataWrited' = [dataWrited EXCEPT ![c] = Append(dataQueued[c], Head(posted[c]))]
  /\ dataQueued' = [dataQueued EXCEPT ![c] = <<>>]
  /\ UNCHANGED <<state, taken, incoming, over>>
(* doAsyncCommand runs on the strand; without a write under way it begins  *)
(* one with all that is queued.                                            *)
DoAsyncCommand(c) ==
  /\ IsConnected(c)
  /\ posted[c] # <<>> /\ IsCommand(Head(posted[c]))
  /\ posted' = [posted EXCEPT ![c] = Tail(@)]
  /\ handlers' = [handlers EXCEPT ![c] = Append(@, Head(posted[c]))]
  /\ LET queued == Append(dataQueued[c], Head(posted[c]))
     IN /\ dataQueued' = [dataQueued EXCEPT ![c] = IF dataWrited[c] = <<>> THEN <<>> ELSE queued]
        /\ dataWrited' = [dataWrited EXCEPT ![c] = IF @ = <<>> THEN queued ELSE @]
  /\ UNCHANGED <<state, taken, incoming, over>>

(* The server takes the next command of the write and replies.             *)
ServerTakes(c) ==
  /\ ~over[c]
  /\ taken[c] < Len(dataWrited[c])
  /\ taken' = [taken EXCEPT ![c] = @ + 1]
  /\ incoming' = [incoming EXCEPT ![c] = Append(@, dataWrited[c][taken[c] + 1])]
  /\ UNCHANGED <<state, posted, handlers, dataQueued, dataWrited, over>>

(* asyncWrite when the write is done, perhaps after the replies were read: *)
(* what was queued meanwhile is written next.                              *)
AsyncWrite(c) ==
  /\ dataWrited[c] # <<>> /\ taken[c] = Len(dataWrited[c])
  /\ dataWrited' = [dataWrited EXCEPT ![c] = dataQueued[c]]
  /\ dataQueued' = [dataQueued EXCEPT ![c] = <<>>]
  /\ taken' = [taken EXCEPT ![c] = 0]
  /\ UNCHANGED <<state, posted, handlers, incoming, over>>

-----------------------------------------------------------------------------
(* Reading *)

(* asyncRead and doProcessMessage: a message goes to the strand, a reply to*)
(* the handler that waits longest.  A reply without a handler throws.      *)
AsyncRead(c) ==
  /\ ~over[c] /\ incoming[c] # <<>>
  /\ incoming' = [incoming EXCEPT ![c] = Tail(@)]
  /\ IF IsMessage(Head(incoming[c]))
     THEN posted' = [posted EXCEPT ![c] = Append(@, Head(incoming[c]))] /\ UNCHANGED <<handlers, over>>
     ELSE /\ handlers' = [handlers EXCEPT ![c] = IF @ = <<>> THEN @ ELSE Tail(@)]
          /\ over' = [over EXCEPT ![c] = handlers[c] = <<>>]
          /\ UNCHANGED posted
  /\ UNCHANGED <<state, dataQueued, dataWrited, taken>>

(* The connection breaks with what is on its way; isConnected() does not   *)
(* know.                                                                   *)
Break(c) ==
  /\ IsConnected(c) /\ ~over[c]
  /\ over' = [over EXCEPT ![c] = TRUE]
  /\ incoming' = [incoming EXCEPT ![c] = <<>>]
  /\ UNCHANGED <<state, posted, handlers, dataQueued, dataWrited, taken>>

Forgotten(c) ==
  /\ state' = [state EXCEPT ![c] = "None"]
  /\ posted' = [posted EXCEPT ![c] = <<>>]
  /\ handlers' = [handlers EXCEPT ![c] = <<>>]
  /\ dataQueued' = [dataQueued EXCEPT ![c] = <<>>]
  /\ dataWrited' = [dataWrited EXCEPT ![c] = <<>>]
  /\ taken' = [taken EXCEPT ![c] = 0]
  /\ incoming' = [incoming EXCEPT ![c] = <<>>]
  /\ over' = [over EXCEPT ![c] = FALSE]

(* Faulty variant: a thread whose run() returns, because it could not      *)
(* connect, ends.                                                          *)
DestroyAfterThrow(c) == over[c] /\ IsConnected(c) /\ Forgotten(c)
(* The read or the write fails, the error handler throws out of run(), and *)
(* client and io_service are destroyed with all that was posted.  run()    *)
(* returns when it could not connect: nothing is left to do.               *)
Destroy(c) == over[c] /\ Forgotten(c)

-----------------------------------------------------------------------------
(* Properties *)

(* The commands among the replies and messages of a sequence, in order.    *)
Commands(s) ==
  LET upTo[n \in 0..Len(s)] ==
        IF n = 0 THEN <<>>
        ELSE IF IsCommand(s[n]) THEN Append(upTo[n - 1], s[n]) ELSE upTo[n - 1]
  IN upTo[Len(s)]

(* Replies carry no names, so the queues must agree: the handlers that wait*)
(* are those of the replies on their way, of the commands the server has   *)
(* not taken from the write under way and of the commands queued behind it,*)
(* in this order.  No command is written twice or overtaken by a later one,*)
(* whatever order reads, writes and posts complete in.                     *)
RepliesMatch ==
  \A c \in Clients : IsConnected(c) /\ ~over[c] =>
    handlers[c] = Commands(incoming[c])
                    \o SubSeq(dataWrited[c], taken[c] + 1, Len(dataWrited[c]))
                    \o dataQueued[c]
=============================================================================
