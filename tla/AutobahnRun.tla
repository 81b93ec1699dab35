---------------------------- MODULE AutobahnRun ----------------------------
(***************************************************************************)
(* What the Autobahn driver promises (src/examples/autobahn.cpp): the test *)
(* cases 1..N run one after the other, each on its own connection; a      *)
(* case's connection is fully shut down before the next case starts; the  *)
(* report connection (case N + 1) runs last, and then the program exits.  *)
(*                                                                         *)
(*   run  - the case being run, N + 2 once the program has exited;        *)
(*   live - the cases whose connection (its loop thread) is running.      *)
(***************************************************************************)
EXTENDS Naturals

CONSTANT N

VARIABLES run, live

absVars == <<run, live>>

AbsInit == run = 1 /\ live = {}

\* The current case's connection starts (its loop thread runs).
StartCase == run <= N + 1 /\ live = {} /\ live' = {run} /\ UNCHANGED run

\* Its loop thread exits.
StopCase == live = {run} /\ live' = {} /\ UNCHANGED run

\* The next case (or the exit) begins once nothing runs.
NextCase == run <= N + 1 /\ live = {} /\ run' = run + 1 /\ UNCHANGED live

AbsNext == StartCase \/ StopCase \/ NextCase

AbsSpec == AbsInit /\ [][AbsNext]_absVars

=============================================================================
