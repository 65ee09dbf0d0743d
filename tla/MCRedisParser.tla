--------------------------- MODULE MCRedisParser ----------------------------
(* Streams of two replies, or a reply and bytes that are none, for TLC. *)
EXTENDS RedisParser, TLC

MCWhole(b, v) == [bytes |-> b, value |-> v, items |-> <<>>, whole |-> TRUE]
CRLF == <<"CR", "LF">>
SimpleReply(s) == MCWhole(<<"+">> \o s \o CRLF, String(s))
ErrorReply(s) == MCWhole(<<"-">> \o s \o CRLF, ErrorString(s))
IntegerReply(digits, n) == MCWhole(<<":">> \o digits \o CRLF, Integer(n))
BulkReply(s) == MCWhole(<<"$", ToString(Len(s))>> \o CRLF \o s \o CRLF, String(s))
NilReply(mark) == MCWhole(<<mark, "-", "1">> \o CRLF, Nil)
ArrayOf(n, s) ==
  [bytes |-> <<"*", ToString(n)>> \o CRLF \o AllOf(s), value |-> Array([i \in 1..Len(s) |-> s[i].value]),
   items |-> s, whole |-> s = <<>> \/ Last(s).whole]
ArrayReply(s) == ArrayOf(Len(s), s)
Broken(b) == [bytes |-> b, value |-> Nil, items |-> <<>>, whole |-> FALSE]

MCSimple == {SimpleReply(<<"a">>), ErrorReply(<<"a", "-">>), IntegerReply(<<"1", "2">>, 12),
             IntegerReply(<<"-", "1">>, -1), BulkReply(<<>>), BulkReply(<<"a", "wide">>),
             BulkReply(<<"CR", "LF", "+">>), NilReply("$"), NilReply("*"), ArrayReply(<<>>)}
MCNested == {ArrayReply(<<BulkReply(<<"a">>), IntegerReply(<<"3">>, 3)>>),
             ArrayReply(<<ArrayReply(<<IntegerReply(<<"1">>, 1)>>), NilReply("$")>>),
             ArrayReply(<<SimpleReply(<<>>), ArrayReply(<<BulkReply(<<>>), ArrayReply(<<>>)>>)>>)}
MCReplies == MCSimple \cup MCNested
MCBroken == {Broken(<<"a">>), Broken(<<"+", "wide">>), Broken(<<":", "CR", "LF">>), Broken(<<"+", "CR", "a">>),
             Broken(<<"$", "-", "2", "CR", "LF">>), Broken(<<"$", "1", "CR", "LF", "a", "a">>),
             Broken(<<"$", "0", "CR", "LF", "CR", "a">>), Broken(<<"*", "-", "2", "CR", "LF">>),
             ArrayOf(2, <<Broken(<<"-", "a", "CR", "a">>)>>),
             ArrayOf(3, <<IntegerReply(<<"1">>, 1), ArrayOf(2, <<NilReply("*"), Broken(<<"+", "a">>)>>)>>)}

(* With the items of arrays that are in arrays.                           *)
MCItems(texts) == UNION {Range(r.items) : r \in texts}
MCTexts ==
  LET outer == MCReplies \cup MCBroken
      inner == MCItems(outer)
  IN outer \cup inner \cup MCItems(inner)
MCStreams == {<<q, r>> : q \in MCReplies, r \in MCReplies \cup MCBroken} \cup {<<q>> : q \in MCReplies}
=============================================================================
