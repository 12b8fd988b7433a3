---------------------------- MODULE MCBootChain ----------------------------
(***************************************************************************)
(* BootChain for TLC, with the fairness of the processor.                   *)
(***************************************************************************)
EXTENDS BootChain, TLC

CONSTANTS i1, i2

MCImages == {i1, i2}

FairSpec == Spec /\ Fairness

=============================================================================
