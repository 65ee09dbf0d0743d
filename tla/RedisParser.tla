----------------------------- MODULE RedisParser -----------------------------
(***************************************************************************)
(* How redisclient turns the bytes of a connection into replies            *)
(* (redisclient/impl/redisparser.cpp, RedisClientImpl::asyncRead).  The    *)
(* bytes come in pieces of any length, and RedisParser keeps what it has   *)
(* seen of an unfinished reply until the next piece.  Each case of the     *)
(* switch in parseChunk is an action that takes a byte.                    *)
(*                                                                         *)
(* A byte is a string: the five marks, CR, LF, digits and others.  A value *)
(* is a record with all fields, of which its kind uses one.                *)
(***************************************************************************)
EXTENDS Integers, Sequences, SequencesExt

CONSTANTS
  Letters,    \* other bytes of 32 to 126
  Wides,      \* bytes of 128 and more, which only a bulk string may hold
  Texts,      \* replies, and bytes that are none: [bytes, value, items, whole]
  Streams,    \* what a server sends: replies, and last perhaps what is none
  BufferSize  \* of RedisClientImpl::buf, 4096 in the code

Digits == {"0", "1", "2", "3"}
Numeral == Digits \cup {"-"}
Marks == {"+", "-", ":", "$", "*"}
Plain == Digits \cup Marks \cup Letters
Bytes == Plain \cup Wides \cup {"CR", "LF"}

VARIABLES
  sent,        \* what the server sends on this connection
  offset,      \* how many bytes of it have been received
  pc,          \* of the client: "wait", "parse", "failed"
  chunk,       \* the bytes received last
  position,    \* those parseChunk has taken of them
  parseState,  \* the state of parseChunk's loop
  states,      \* the state kept between two pieces, on a stack
  buf, bulkSize,
  arrays,      \* arraySizes and arrayValues: the open arrays, innermost first
  replies      \* what was handed to doProcessMessage

parserVars ==
  <<sent, offset, pc, chunk, position, parseState, states, buf, bulkSize, arrays, replies>>

-----------------------------------------------------------------------------
(* Replies *)

Empty == [kind |-> "nil", text |-> <<>>, number |-> 0, items |-> <<>>]
String(s) == [Empty EXCEPT !.kind = "string", !.text = s]
ErrorString(s) == [Empty EXCEPT !.kind = "error", !.text = s]
Integer(n) == [Empty EXCEPT !.kind = "integer", !.number = n]
Array(s) == [Empty EXCEPT !.kind = "array", !.items = s]
Nil == Empty

(* bufToLong.  A sign that is not in front ends in an assertion, or where  *)
(* these are left out counts as c - '0'; no server sends one.              *)
DigitOf ==
  [c \in Numeral |-> CASE c = "0" -> 0 [] c = "1" -> 1 [] c = "2" -> 2 [] c = "3" -> 3 [] c = "-" -> -3]
Long(digits) ==
  LET long[i \in 0..Len(digits)] == IF i = 0 THEN 0 ELSE 10 * long[i - 1] + DigitOf[digits[i]]
  IN long[Len(digits)]
BufToLong(s) == IF s # <<>> /\ s[1] = "-" THEN -Long(Tail(s)) ELSE Long(s)

-----------------------------------------------------------------------------
(* The protocol: what a server may send *)

(* A mark, something, CR LF; the same with a number in it.                 *)
EndsLine(b) == b[Len(b) - 1] = "CR" /\ b[Len(b)] = "LF"
Inside(b) == SubSeq(b, 2, Len(b) - 2)
IsLine(b, marks) == Len(b) >= 3 /\ b[1] \in marks /\ EndsLine(b)
IsNumbered(b, marks) == IsLine(b, marks) /\ Inside(b) # <<>> /\ Inside(b) \in Seq(Numeral)
NumberOf(b) == BufToLong(Inside(b))

(* A bulk string whose first c bytes are the line with its size.           *)
IsBulk(b, c) ==
  LET line == SubSeq(b, 1, c)
  IN /\ IsNumbered(line, {"$"}) /\ NumberOf(line) >= 0
     /\ Len(b) = c + NumberOf(line) + 2 /\ EndsLine(b)
(* A reply without items, and what it says.                                *)
IsScalar(b) ==
  \/ IsLine(b, {"+", "-"}) /\ Inside(b) \in Seq(Plain)
  \/ IsNumbered(b, {":"})
  \/ IsNumbered(b, {"$", "*"}) /\ NumberOf(b) = -1
  \/ IsNumbered(b, {"*"}) /\ NumberOf(b) = 0
  \/ \E c \in 1..Len(b) : IsBulk(b, c)
Says(b, v) ==
  \/ b[1] = "+" /\ v = String(Inside(b))
  \/ b[1] = "-" /\ v = ErrorString(Inside(b))
  \/ b[1] = ":" /\ v = Integer(NumberOf(b))
  \/ IsNumbered(b, {"$", "*"}) /\ NumberOf(b) = -1 /\ v = Nil
  \/ IsNumbered(b, {"*"}) /\ NumberOf(b) = 0 /\ v = Array(<<>>)
  \/ \E c \in 1..Len(b) : IsBulk(b, c) /\ v = String(SubSeq(b, c + 1, Len(b) - 2))

(* What comes before an array's items.                                     *)
IsHeader(b) == IsNumbered(b, {"*"}) /\ NumberOf(b) >= 1
(* The bytes of the first n texts of a sequence, for each n.               *)
Joined(s) ==
  LET joined[n \in 0..Len(s)] == IF n = 0 THEN <<>> ELSE joined[n - 1] \o s[n].bytes
  IN joined
AllOf(s) == Joined(s)[Len(s)]

(* An array whose first c bytes are its header.  Where it breaks off or    *)
(* goes wrong, the last of its items does.                                 *)
IsArray(r, c) ==
  LET header == SubSeq(r.bytes, 1, c)
      n == Len(r.items)
  IN /\ IsHeader(header)
     /\ r.bytes = header \o AllOf(r.items)
     /\ n \in 1..NumberOf(header)
     /\ \A i \in 1..n - 1 : r.items[i].whole
     /\ r.whole = r.items[n].whole
     /\ r.whole => n = NumberOf(header) /\ r.value = Array([i \in 1..n |-> r.items[i].value])
(* Bytes that are no reply, however they go on.                            *)
IsBroken(b) == \A n \in 1..Len(b) : ~IsScalar(SubSeq(b, 1, n)) /\ ~IsHeader(SubSeq(b, 1, n))

ASSUME ParserAssumption ==
  /\ Letters \cap (Digits \cup Marks \cup Wides \cup {"CR", "LF"}) = {}
  /\ Wides \cap (Digits \cup Marks \cup {"CR", "LF"}) = {}
  /\ BufferSize \in Nat \ {0}
  /\ \A r \in Texts :
       /\ r.bytes \in Seq(Bytes) /\ r.items \in Seq(Texts) /\ r.whole \in BOOLEAN
       /\ \/ r.whole /\ IsScalar(r.bytes) /\ Says(r.bytes, r.value)
          \/ ~r.whole /\ IsBroken(r.bytes)
          \/ \E c \in 1..Len(r.bytes) : IsArray(r, c)
  /\ \A s \in Streams : s \in Seq(Texts) /\ \A i \in 1..Len(s) - 1 : s[i].whole

-----------------------------------------------------------------------------
(* asyncRead *)

(* Faulty variant: the state of the unfinished reply is forgotten.         *)
RestoreNothing ==
  /\ parseState' = "Start"
  /\ states' = <<>>
(* parseChunk goes on where the piece before ended.                        *)
Restore ==
  IF states = <<>> THEN parseState' = "Start" /\ UNCHANGED states
  ELSE parseState' = Last(states) /\ states' = Front(states)

ParserInit ==
  /\ sent \in Streams /\ offset = 0
  /\ pc = "wait" /\ chunk = <<>> /\ position = 0
  /\ parseState = "Start" /\ states = <<>> /\ buf = <<>> /\ bulkSize = 0 /\ arrays = <<>>
  /\ replies = <<>>

(* A connection that failed or was lost is replaced by a new client, which *)
(* has a new parser.                                                       *)
Reconnect ==
  /\ pc \in {"wait", "failed"}
  /\ sent' \in Streams /\ offset' = 0
  /\ pc' = "wait" /\ chunk' = <<>> /\ position' = 0
  /\ parseState' = "Start" /\ states' = <<>> /\ buf' = <<>> /\ bulkSize' = 0 /\ arrays' = <<>>
  /\ replies' = <<>>

(* async_read_some ends with some of the bytes that are there.             *)
Receive ==
  /\ pc = "wait"
  /\ \E n \in 1..BufferSize :
       /\ offset + n <= Len(AllOf(sent))
       /\ chunk' = SubSeq(AllOf(sent), offset + 1, offset + n)
       /\ offset' = offset + n
  /\ position' = 0
  /\ pc' = "parse"
  /\ Restore
  /\ UNCHANGED <<sent, buf, bulkSize, arrays, replies>>

(* The piece ends within a reply: Incompleted, and the next read starts.   *)
Incompleted ==
  /\ pc = "parse" /\ position = Len(chunk)
  /\ states' = Append(states, parseState)
  /\ pc' = "wait"
  /\ UNCHANGED <<sent, offset, chunk, position, parseState, buf, bulkSize, arrays, replies>>

-----------------------------------------------------------------------------
(* parseChunk *)

byte == chunk[position + 1]
At(s) == pc = "parse" /\ position < Len(chunk) /\ parseState = s

(* Error: the stack is emptied and the error handler throws.               *)
Fail ==
  /\ pc' = "failed"
  /\ states' = <<>>
  /\ UNCHANGED <<sent, offset, chunk, position, parseState, buf, bulkSize, arrays, replies>>

(* The loop goes on in state s; n bytes were taken.                        *)
Continue(s, n) ==
  /\ parseState' = s
  /\ position' = position + n
  /\ UNCHANGED <<sent, offset, pc, chunk, states, replies>>

(* A value ends the innermost open array when it is its last, and that may *)
(* end the next.                                                           *)
Close(acc) ==
  LET top == Head(acc.open)
      items == Append(top.items, acc.value)
  IN IF acc.settled THEN acc
     ELSE IF top.left = 1
     THEN [open |-> Tail(acc.open), value |-> Array(items), settled |-> FALSE]
     ELSE [open |-> <<[left |-> top.left - 1, items |-> items]>> \o Tail(acc.open),
           value |-> acc.value, settled |-> TRUE]

(* The open arrays behind a value, and what was completed last.            *)
Closing(open, v) ==
  LET closing[i \in 0..Len(open)] ==
        IF i = 0 THEN [open |-> open, value |-> v, settled |-> FALSE] ELSE Close(closing[i - 1])
  IN closing[Len(open)]

(* Back in Start with a value: outside of all arrays it is a reply.        *)
Value(v) ==
  LET closed == Closing(arrays, v)
      completed == closed.open = <<>>
  IN /\ arrays' = closed.open
     /\ replies' = IF completed THEN Append(replies, closed.value) ELSE replies
     /\ pc' = IF completed /\ position + 1 = Len(chunk) THEN "wait" ELSE "parse"
     /\ parseState' = "Start"
     /\ position' = position + 1
     /\ UNCHANGED <<sent, offset, chunk, states>>

Begin ==
  /\ pc = "parse" /\ position < Len(chunk) /\ parseState \in {"Start", "StartArray"}
  /\ IF byte \in Marks
     THEN /\ Continue(CASE byte = "+" -> "String" [] byte = "-" -> "ErrorString"
                        [] byte = ":" -> "Integer" [] byte = "$" -> "BulkSize" [] byte = "*" -> "ArraySize", 1)
          /\ buf' = <<>>
          /\ bulkSize' = IF byte = "$" THEN 0 ELSE bulkSize
          /\ UNCHANGED arrays
     ELSE Fail

(* String and ErrorString: anything of one byte but control characters.    *)
Line(s, lf) ==
  /\ At(s)
  /\ \/ byte = "CR" /\ Continue(lf, 1) /\ UNCHANGED <<buf, bulkSize, arrays>>
     \/ /\ byte \in Plain
        /\ Continue(s, 1)
        /\ buf' = Append(buf, byte)
        /\ UNCHANGED <<bulkSize, arrays>>
     \/ byte \in Wides \cup {"LF"} /\ Fail

(* Integer, BulkSize and ArraySize: digits and signs.                      *)
Number(s, lf) ==
  /\ At(s)
  /\ \/ byte = "CR" /\ buf # <<>> /\ Continue(lf, 1) /\ UNCHANGED <<buf, bulkSize, arrays>>
     \/ /\ byte \in Numeral
        /\ Continue(s, 1)
        /\ buf' = Append(buf, byte)
        /\ UNCHANGED <<bulkSize, arrays>>
     \/ (byte \notin Numeral \cup {"CR"} \/ (byte = "CR" /\ buf = <<>>)) /\ Fail

LineEnd(s, v) ==
  /\ At(s)
  /\ IF byte = "LF" THEN Value(v) /\ UNCHANGED <<buf, bulkSize>> ELSE Fail

IntegerLF ==
  /\ At("IntegerLF")
  /\ IF byte = "LF" THEN Value(Integer(BufToLong(buf))) /\ buf' = <<>> /\ UNCHANGED bulkSize
                 ELSE Fail

(* The size of a bulk string, and what the piece holds of the string.      *)
BulkSizeLF ==
  /\ At("BulkSizeLF")
  /\ LET size == BufToLong(buf)
         available == Len(chunk) - position - 1
         canRead == IF size <= available THEN size ELSE available
     IN \/ byte = "LF" /\ size = -1 /\ Value(Nil) /\ buf' = <<>> /\ bulkSize' = size
        \/ /\ byte = "LF" /\ size = 0
           /\ Continue("BulkCR", 1)
           /\ buf' = <<>> /\ bulkSize' = 0
           /\ UNCHANGED arrays
        \/ /\ byte = "LF" /\ size > 0
           /\ Continue(IF canRead < size THEN "Bulk" ELSE "BulkCR", 1 + canRead)
           /\ buf' = SubSeq(chunk, position + 2, position + 1 + canRead)
           /\ bulkSize' = size - canRead
           /\ UNCHANGED arrays
        \/ (byte # "LF" \/ size < -1) /\ Fail

(* Faulty variant: the byte that the loop has taken already is not counted.*)
BulkShort ==
  /\ At("Bulk")
  /\ LET available == Len(chunk) - position - 1
         canRead == IF available <= bulkSize THEN available ELSE bulkSize
     IN /\ Continue(IF canRead = bulkSize THEN "BulkCR" ELSE "Bulk", 1 + canRead)
        /\ buf' = buf \o SubSeq(chunk, position + 1, position + canRead)
        /\ bulkSize' = bulkSize - canRead
  /\ UNCHANGED arrays
(* A later piece of it.                                                    *)
Bulk ==
  /\ At("Bulk")
  /\ LET available == Len(chunk) - position
         canRead == IF available <= bulkSize THEN available ELSE bulkSize
     IN /\ Continue(IF canRead = bulkSize THEN "BulkCR" ELSE "Bulk", canRead)
        /\ buf' = buf \o SubSeq(chunk, position + 1, position + canRead)
        /\ bulkSize' = bulkSize - canRead
  /\ UNCHANGED arrays

BulkCR ==
  /\ At("BulkCR")
  /\ IF byte = "CR" THEN Continue("BulkLF", 1) /\ UNCHANGED <<buf, bulkSize, arrays>> ELSE Fail

(* An array opens; one without items is a value at once.                   *)
ArraySizeLF ==
  /\ At("ArraySizeLF")
  /\ LET size == BufToLong(buf)
     IN \/ byte = "LF" /\ size = -1 /\ Value(Nil) /\ UNCHANGED <<buf, bulkSize>>
        \/ byte = "LF" /\ size = 0 /\ Value(Array(<<>>)) /\ UNCHANGED <<buf, bulkSize>>
        \/ /\ byte = "LF" /\ size > 0
           /\ Continue("StartArray", 1)
           /\ arrays' = <<[left |-> size, items |-> <<>>]>> \o arrays
           /\ UNCHANGED <<buf, bulkSize>>
        \/ (byte # "LF" \/ size < -1) /\ Fail

ParseChunk ==
  \/ Begin
  \/ Line("String", "StringLF") \/ Line("ErrorString", "ErrorLF")
  \/ LineEnd("StringLF", String(buf)) \/ LineEnd("ErrorLF", ErrorString(buf))
  \/ Number("Integer", "IntegerLF") \/ Number("BulkSize", "BulkSizeLF")
  \/ Number("ArraySize", "ArraySizeLF")
  \/ IntegerLF
  \/ BulkSizeLF \/ Bulk \/ BulkCR \/ LineEnd("BulkLF", String(buf))
  \/ ArraySizeLF

ParserNext == Receive \/ ParseChunk \/ Incompleted \/ Reconnect

ParserSpec == ParserInit /\ [][ParserNext]_parserVars

-----------------------------------------------------------------------------
(* Properties *)

Taken == offset - Len(chunk) + position
Complete == {n \in DOMAIN sent : sent[n].whole /\ Len(Joined(sent)[n]) <= Taken}

(* However the bytes are cut into pieces: each reply is handed on when its *)
(* last byte is taken, neither earlier nor later, in order and as it was   *)
(* sent, nested arrays, nil and strings that hold CR LF included.          *)
RepliesExact ==
  replies = [n \in Complete |-> sent[n].value]

(* What a server says correctly is never taken for an error; the parser    *)
(* gives up within the bytes that are no reply, if at all.                 *)
OnlyRubbishFails ==
  pc = "failed" => \E n \in DOMAIN sent : ~sent[n].whole /\ Taken >= Len(Joined(sent)[n - 1])
=============================================================================
