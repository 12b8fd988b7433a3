---------------------------- MODULE MCSharedUbi ----------------------------
(***************************************************************************)
(* SharedUbi for TLC.  The sizes keep the proportions of the device: 9 LEBs  *)
(* for a FIP volume, 16 and 20 for the two reserves.                        *)
(***************************************************************************)
EXTENDS SharedUbi

=============================================================================
