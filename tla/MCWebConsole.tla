---------------------------- MODULE MCWebConsole ----------------------------
(***************************************************************************)
(* WebConsole for TLC, with the fairness of loop, timer and lwIP.           *)
(***************************************************************************)
EXTENDS WebConsole, TLC

CONSTANTS p1, p2, k1, k2

MCPlaces == {p1, p2}
MCCmds == {k1, k2}

FairSpec == Spec /\ Fairness

=============================================================================
