---------------------------- MODULE MCOstrichWord ----------------------------
(* All short articles over two characters and a stop, for TLC. *)
EXTENDS OstrichWord

CONSTANTS x, y, stop, ArticleMax

MCChars == {x, y, stop}
MCArticles == UNION {[1..n -> MCChars] : n \in 0..ArticleMax}
=============================================================================
