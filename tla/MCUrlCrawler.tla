---------------------------- MODULE MCUrlCrawler ----------------------------
(* Small instances of the url crawler for TLC. *)
EXTENDS UrlCrawler, TLC

CONSTANTS s, a, b

MCLangs == <<"cn">>
MCLangOf == [u \in Urls |-> "cn"]
MCSeed == "cn" :> s
MCKey == (s :> 2) @@ (a :> 1)
MCKeyThree == MCKey @@ (b :> 3)
\* two pages that are in the cache together
MCTwoLinks == (s :> << <<a, b>> >>) @@ (a :> << <<>> >>) @@ (b :> << <<>> >>)
\* two pages that link to each other, one also to itself
MCTwoPages == (s :> << <<s, a>> >>) @@ (a :> << <<s>> >>)

\* FairSpec with []Spaced, which EveryUrlCrawled is about, for a service that
\* does not crash: no upload is received unless the writer waits, and nothing
\* wakes the writer while one is being stored
SpacedNext ==
  \/ Collect \/ SpuriousWake
  \/ \E l \in LangSet : Fetch(l)
  \/ Up \/ KillCrawler
  \/ \E m \in Texts : writer = "waiting" /\ Receive(m)
  \/ Save
  \/ Write \/ (recvPc = "idle" /\ SpuriousTask)
SpacedSpec == Init /\ [][SpacedNext]_vars /\ Fairness
=============================================================================
