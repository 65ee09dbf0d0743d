--------------------------- MODULE MCTrainService ---------------------------
(* Small instances of a training service for TLC. *)
EXTENDS TrainService, TLC

CONSTANTS u1, u2, u3, w1

MCLangs == <<"cn", "ja">>
MCOneLang == <<"cn">>
\* u1 and u2 are Chinese, u3 is Japanese; u2 comes first in key order
MCLangOf == (u1 :> "cn") @@ (u2 :> "cn") @@ (u3 :> "ja")
MCLangOfCn == (u1 :> "cn") @@ (u2 :> "cn")
MCKey == (u1 :> 2) @@ (u2 :> 1) @@ (u3 :> 3)
MCKeyCn == (u1 :> 2) @@ (u2 :> 1)

\* u1 is uploaded with one word; of u2 parrot uploads nothing
MCArticle == (u1 :> <<(w1 :> 2)>>) @@ (u2 :> <<>>)

\* without words: only the marking of the articles matters
NoWords == [w \in Words |-> 0]
MCMarks3 == [u \in Urls |-> <<NoWords>>]
WorkersSymmetric == Permutations(Workers)
=============================================================================
