---------------------------- MODULE MCEvaluation ----------------------------
(* Two uploads of one contestant, in different languages, and one of another *)
(* in between; any two of the three may overlap.                            *)
EXTENDS Evaluation

MCOwner == <<"alice", "bob", "alice">>
MCLang  == <<"python", "rust", "cpp">>
=============================================================================
