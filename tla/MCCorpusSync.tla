---------------------------- MODULE MCCorpusSync ----------------------------
(***************************************************************************)
(* Two feeds for TLC, of which cisa can be read incrementally.  In the     *)
(* small instance each has one advisory and the one of cisa is revised; in *)
(* the other cisa has two.                                                 *)
(***************************************************************************)
EXTENDS CorpusSync

MCFeedOf == [c1 |-> "cisa", i1 |-> "icsap"]

MCCveOf == [c1 |-> "v1", i1 |-> "v2"]

MCWindows == {{"c1", "i1"}, {"i1"}}

MCCatalogues == {{"v1", "v2"}}

MCLastRevision == [c1 |-> 2, i1 |-> 1]

-----------------------------------------------------------------------------
MCTwoFeedOf == [c1 |-> "cisa", c2 |-> "cisa", i1 |-> "icsap"]

MCTwoCveOf == [c1 |-> "v1", c2 |-> "v2", i1 |-> "v1"]

MCTwoWindows == {{"c1", "c2", "i1"}, {"c1"}}

MCTwoLastRevision == [c1 |-> 2, c2 |-> 1, i1 |-> 1]
=============================================================================
