------------------------------ MODULE UdpServer ------------------------------
(***************************************************************************)
(* The datagram server all services share (utilities/udp_entry.cpp).  Its  *)
(* constructor and start_receive(fn) each start a receive, so two receives *)
(* are always outstanding, and they share recv_buffer_ and                 *)
(* remote_endpoint_.  The io_service runs in one thread: the reactor lets  *)
(* the outstanding receives read the socket one after the other, their     *)
(* completion handlers run later, and a receive started when no other is   *)
(* outstanding reads at once if a datagram is there.                       *)
(***************************************************************************)
EXTENDS Naturals, Sequences, FiniteSets

CONSTANTS
  Msgs,        \* the requests, each sent once
  Sender,      \* the endpoint each request comes from
  Size,        \* the length of each request
  Rubbish,     \* a request that does not parse
  None,        \* nothing received yet
  MaxErrors    \* bound: receives that fail

ASSUME UdpAssumption ==
  /\ Size \in [Msgs -> Nat]
  /\ DOMAIN Sender = Msgs
  /\ None \notin Msgs /\ Rubbish \notin Msgs
  /\ MaxErrors \in Nat

VARIABLES
  toSend,      \* requests the clients have not sent yet
  socket,      \* datagrams waiting in the kernel
  starting,    \* receives main still has to start before io_service::run
  armed,       \* receives the reactor holds
  done,        \* completed receives whose handler has not run: their sizes
  buffer,      \* whose bytes recv_buffer_ starts with
  remote,      \* remote_endpoint_
  owed,        \* requests handled but not replied to yet
  errors,
  got,         \* history: the datagrams in the order they were received
  handled,     \* history: what func_ was given, call by call
  replies,     \* history: each reply and where it went
  crowded      \* history: a request arrived while another was being served

server  == <<starting, armed, done, buffer, remote>>
history == <<got, handled, replies, crowded>>
vars == <<toSend, socket, server, owed, errors, history>>

Failed == [ok |-> FALSE, bytes |-> 0]

Init ==
  /\ toSend = Msgs /\ socket = <<>>
  /\ starting = 2 /\ armed = 0 /\ done = <<>>
  /\ buffer = None /\ remote = None
  /\ owed = <<>> /\ errors = 0
  /\ got = <<>> /\ handled = <<>> /\ replies = <<>> /\ crowded = FALSE

(* A request arrives; loopback keeps the order.                            *)
Arrive(m) ==
  /\ m \in toSend
  /\ toSend' = toSend \ {m}
  /\ socket' = Append(socket, m)
  /\ crowded' = (crowded \/ socket # <<>> \/ done # <<>> \/ owed # <<>>)
  /\ UNCHANGED <<server, owed, errors, got, handled, replies>>

(* Faulty variants: the sender is only noted once; the buffer is not the   *)
(* one the receive filled.                                                 *)
ReadFirstSender(n, before) ==
  LET taken == SubSeq(socket, 1, n)
  IN /\ socket' = SubSeq(socket, n + 1, Len(socket))
     /\ got' = got \o taken
     /\ done' = before \o [i \in 1..n |-> [ok |-> TRUE, bytes |-> Size[taken[i]]]]
     /\ buffer' = taken[n]
     /\ remote' = IF remote = None THEN Sender[taken[n]] ELSE remote
ReadOldBuffer(n, before) ==
  LET taken == SubSeq(socket, 1, n)
  IN /\ socket' = SubSeq(socket, n + 1, Len(socket))
     /\ got' = got \o taken
     /\ done' = before \o [i \in 1..n |-> [ok |-> TRUE, bytes |-> Size[taken[i]]]]
     /\ buffer' = IF buffer = None THEN taken[n] ELSE buffer
     /\ remote' = Sender[taken[n]]

(* n receives read the first n datagrams into the one buffer; `before` is  *)
(* what is left of the completed receives.                                 *)
Read(n, before) ==
  LET taken == SubSeq(socket, 1, n)
  IN /\ socket' = SubSeq(socket, n + 1, Len(socket))
     /\ got' = got \o taken
     /\ done' = before \o [i \in 1..n |-> [ok |-> TRUE, bytes |-> Size[taken[i]]]]
     /\ buffer' = taken[n]
     /\ remote' = Sender[taken[n]]

(* async_receive_from: with no other receive outstanding it is tried at    *)
(* once, otherwise (or with nothing to read) it waits in the reactor.      *)
StartReceive(before) ==
  IF armed = 0 /\ socket # <<>>
  THEN Read(1, before) /\ UNCHANGED armed
  ELSE /\ armed' = armed + 1
       /\ done' = before
       /\ UNCHANGED <<socket, got, buffer, remote>>

(* udp_server::udp_server, then udp_server::start_receive(fn).             *)
Start ==
  /\ starting > 0
  /\ starting' = starting - 1
  /\ StartReceive(done)
  /\ UNCHANGED <<toSend, owed, errors, handled, replies, crowded>>

(* The reactor finds the socket readable: as many receives as there are    *)
(* datagrams for complete in a row, before any of their handlers runs.     *)
Ready ==
  /\ starting = 0
  /\ armed > 0 /\ socket # <<>>
  /\ LET n == IF Len(socket) < armed THEN Len(socket) ELSE armed
     IN Read(n, done) /\ armed' = armed - n
  /\ UNCHANGED <<toSend, starting, owed, errors, handled, replies, crowded>>

(* A receive fails and leaves the buffer alone.                            *)
Fail ==
  /\ starting = 0
  /\ armed > 0
  /\ errors < MaxErrors
  /\ errors' = errors + 1
  /\ armed' = armed - 1
  /\ done' = Append(done, Failed)
  /\ UNCHANGED <<toSend, socket, starting, buffer, remote, owed, history>>

(* What a handler finds: as many bytes as its own datagram had, out of     *)
(* the buffer as it is now.                                                *)
Seen(c) == IF c.ok /\ Size[buffer] = c.bytes THEN buffer ELSE Rubbish

(* Faulty variants: a failed receive is started again, a good one is not.  *)
RearmAlways(c, rest) == StartReceive(rest)
RearmNever(c, rest) ==
  /\ done' = rest
  /\ UNCHANGED <<socket, armed, got, buffer, remote>>
(* The receive is started again unless it failed.                          *)
Rearm(c, rest) ==
  IF c.ok THEN StartReceive(rest)
  ELSE done' = rest /\ UNCHANGED <<socket, armed, got, buffer, remote>>

(* handle_receive: func_ is called, error or not.  A request that parses   *)
(* is replied to by the handler, at remote_endpoint_ as it is then, or (by *)
(* the crawler's writer) from another thread later.                        *)
HandleReceive ==
  /\ starting = 0
  /\ done # <<>>
  /\ LET c == Head(done)
         m == Seen(c)
     IN /\ handled' = Append(handled, m)
        /\ \/ m = Rubbish /\ UNCHANGED <<owed, replies>>
           \/ m # Rubbish /\ replies' = Append(replies, [for |-> m, to |-> remote])
              /\ UNCHANGED owed
           \/ m # Rubbish /\ owed' = Append(owed, m) /\ UNCHANGED replies
        /\ Rearm(c, Tail(done))
  /\ UNCHANGED <<toSend, starting, errors, crowded>>

(* The other thread replies through the same object, to whoever it heard   *)
(* of last.                                                                *)
Reply ==
  /\ owed # <<>>
  /\ owed' = Tail(owed)
  /\ replies' = Append(replies, [for |-> Head(owed), to |-> remote])
  /\ UNCHANGED <<toSend, socket, server, errors, got, handled, crowded>>

Next ==
  \/ \E m \in Msgs : Arrive(m)
  \/ Start \/ Ready \/ HandleReceive \/ Fail
  \/ Reply

Spec == Init /\ [][Next]_vars

(* The thread runs: it starts its receives, polls and runs its handlers;   *)
(* the other thread replies.  Clients need not send.                       *)
Fairness == WF_vars(Start) /\ WF_vars(Ready) /\ WF_vars(HandleReceive) /\ WF_vars(Reply)
FairSpec == Spec /\ Fairness

-----------------------------------------------------------------------------
(* Properties *)

(* Every variable has its type.                                            *)
Completion == [ok : BOOLEAN, bytes : Nat]
TypeOK ==
  /\ toSend \subseteq Msgs /\ socket \in Seq(Msgs)
  /\ starting \in 0..2 /\ armed \in 0..2
  /\ done \in Seq(Completion)
  /\ buffer \in Msgs \cup {None}
  /\ remote \in {Sender[m] : m \in Msgs} \cup {None}
  /\ owed \in Seq(Msgs)
  /\ errors \in 0..MaxErrors
  /\ got \in Seq(Msgs)
  /\ handled \in Seq(Msgs \cup {Rubbish})
  /\ replies \in Seq([for : Msgs, to : {Sender[m] : m \in Msgs} \cup {None}])
  /\ crowded \in BOOLEAN

(* The server neither leaks nor multiplies receives: two of them are on    *)
(* their way until one fails, and func_ is called once for each datagram   *)
(* received and each failure.                                              *)
HandledFailures == errors - Cardinality({i \in 1..Len(done) : ~done[i].ok})
TwoReceives ==
  /\ starting + armed + Len(done) + HandledFailures = 2
  /\ Len(handled) + Len(done) = Len(got) + errors

(* With no overlap between requests the server is right: each handler call *)
(* is given its own request, and the reply goes to the client that sent    *)
(* it.                                                                     *)
AloneIsRight ==
  ~crowded /\ errors = 0 =>
    /\ \A i \in 1..Len(handled) : handled[i] = got[i]
    /\ \A i \in 1..Len(replies) : replies[i].to = Sender[replies[i].for]

(* When requests overlap, a handler may be given a later request in place  *)
(* of its own, but never an earlier one: nothing handled is handled again  *)
(* after something newer.                                                  *)
NeverOlder ==
  errors = 0 =>
    \A i \in 1..Len(handled) :
      handled[i] = Rubbish \/ \E j \in i..Len(got) : handled[i] = got[j]

(* Until the second failure, which leaves the server deaf, every datagram  *)
(* is received and every completed receive handled.                        *)
EverythingReceived ==
  socket # <<>> \/ done # <<>> ~> (socket = <<>> /\ done = <<>>) \/ errors = 2
=============================================================================
