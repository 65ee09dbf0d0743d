------------------------- MODULE MCDialogueService --------------------------
(* A sentence in a language, one that names none and a language without a  *)
(* sentence, for TLC.                                                      *)
EXTENDS DialogueService

MCRequests ==
  {[text |-> "sentence", lang |-> "cn"], [text |-> "sentence", lang |-> None],
   [text |-> "no sentence", lang |-> "cn"]}
=============================================================================
