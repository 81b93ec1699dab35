---------------------------- MODULE MC_Autobahn -----------------------------
(* Two test cases, then the report connection; the fuzzing server sends up *)
(* to two messages per case.                                               *)
EXTENDS AutobahnDriver

MCN == 2
MCMaxMsgs == 2

=============================================================================
