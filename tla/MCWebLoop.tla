----------------------------- MODULE MCWebLoop -----------------------------
(***************************************************************************)
(* WebLoop for TLC, with the fairness of the processor.                     *)
(***************************************************************************)
EXTENDS WebLoop, TLC

CONSTANTS c1

MCConns == {c1}

FairSpec == Spec /\ Fairness

=============================================================================
