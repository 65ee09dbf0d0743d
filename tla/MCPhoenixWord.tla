---------------------------- MODULE MCPhoenixWord ----------------------------
(* Three characters, chosen dictionaries and every stretch of a few, for TLC. *)
EXTENDS PhoenixWord

CONSTANTS x, y, z, dash, wai, castdb, wordDb, phraseDb

MCDbs == <<wordDb, phraseDb>>

\* counts by word; of 256, 4, 2 and 1 the last rounds to zero
MCWords == {
  (<<x>> :> 256) @@ (<<y>> :> 256) @@ (<<x, y>> :> 4),
  (<<x>> :> 256) @@ (<<y>> :> 1) @@ (<<x, y>> :> 2),
  (<<x>> :> 256) @@ (<<y>> :> 256) @@ (<<x, y>> :> 2) @@ (<<y, x>> :> 2),
  (<<x, y>> :> 256) @@ (<<y, z>> :> 256) @@ (<<x>> :> 2),
  (<<x, y, z>> :> 2) @@ (<<y>> :> 2) @@ (<<x>> :> 2),
  (<<x, y, z>> :> 2) @@ (<<y>> :> 256),
  (<<x>> :> 2) @@ (<<y>> :> 2) @@ (<<z>> :> 2) @@ (<<x, y>> :> 2) @@ (<<x, y, z>> :> 2)}
MCPhrases == {
  <<>>,
  (<<x, dash, y>> :> 2) @@ (<<y, dash, x>> :> 256),
  (<<x, dash, y>> :> 256) @@ (<<x, y, dash, z>> :> 1)}
MCMasters == {(wordDb :> w) @@ (phraseDb :> f) : w \in MCWords, f \in MCPhrases}

MCKeys == UNION {DOMAIN m[d] : m \in Masters, d \in {wordDb, phraseDb}}
\* leveldb compares byte by byte; a key has at most four characters
MCByte == (dash :> 1) @@ (x :> 2) @@ (y :> 3) @@ (z :> 4)
MCKey == [k \in MCKeys |->
  FoldLeft(LAMBDA n, i : 5 * n + (IF i \in DOMAIN k THEN MCByte[k[i]] ELSE 0), 0, <<1, 2, 3, 4>>)]

MCTexts == {<<x>>, <<x, y>>, <<z, x>>, <<x, y, x>>, <<x, y, z>>, <<x, z, y>>, <<x, x, y>>, <<x, y, z, x>>, <<x, y, x, y>>}
\* the powers of 1 / Gain, by the least length and the length
MCInv == [w \in 1..Unit |-> Unit \div w]
MCInvGain == << <<4096, 64, 1>>, <<64, 8, 1>>, <<16, 4, 1>> >>
=============================================================================
