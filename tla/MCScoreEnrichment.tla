------------------------- MODULE MCScoreEnrichment -------------------------
(***************************************************************************)
(* Two feeds for TLC.  Both name CVE 2; CVE 1 is one that NVD never scores *)
(* and stays at the head of the window.                                    *)
(***************************************************************************)
EXTENDS ScoreEnrichment

MCFeedOf == [a1 |-> "cisa", a2 |-> "cisa", b1 |-> "siemens", b2 |-> "siemens"]

MCCveOf == [a1 |-> 1, a2 |-> 2, b1 |-> 2, b2 |-> 3]

MCRequests == {<<"nvd">>, <<"cisa", "nvd">>, <<"nvd", "siemens">>}
=============================================================================
