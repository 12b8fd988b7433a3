------------------------------ MODULE BootSlot ------------------------------
(***************************************************************************)
(* What an update of one boot image promises, whatever its stages: the      *)
(* abstract specification that the bootloader update (FipUpdate, on UBI)    *)
(* and the OpenWrt update (FitUpdate) are both shown to implement.          *)
(*                                                                         *)
(* There is one name to boot from.  An operator arms a transaction, which   *)
(* may write the name any number of times before it completes or fails;     *)
(* what the page reports of it, the transaction state, must tell the truth  *)
(* about the flash.                                                        *)
(***************************************************************************)
CONSTANTS
    Images,         \* what can be booted
    NoImage         \* the name yields nothing to boot

VARIABLES
    slot,           \* what the name to boot from yields
    phase,          \* what the transaction state tells the operator
    old,            \* what it yielded when the transaction was armed
    goal,           \* the images the transaction may complete with
    safe            \* the transaction undertakes never to empty a filled slot

vars == <<slot, phase, old, goal, safe>>

Active == {"ARMED", "IN_PROGRESS"}
Ended == {"IDLE", "COMPLETION_PROVEN", "WRITE_STATE_UNKNOWN"}

Init ==
    /\ slot \in Images \cup {NoImage}
    /\ phase = "IDLE"
    /\ old = slot
    /\ goal \in SUBSET Images
    /\ safe \in BOOLEAN

\* The terms of a transaction that is not there yet, or no more.
NewTerms == goal' \in SUBSET Images /\ safe' \in BOOLEAN

Arm ==
    /\ phase \in Ended
    /\ phase' = "ARMED"
    /\ old' = slot
    /\ NewTerms
    /\ UNCHANGED slot

\* A start that is refused: the last outcome is forgotten.
Forget ==
    /\ phase \in Ended
    /\ phase' = "IDLE"
    /\ old' = slot
    /\ NewTerms
    /\ UNCHANGED slot

\* Before the first write the transaction finds out what it can undertake.
Decide ==
    /\ phase = "ARMED"
    /\ safe' \in BOOLEAN
    /\ UNCHANGED <<slot, phase, old, goal>>

FailBeforeWriting ==
    /\ phase = "ARMED"
    /\ phase' = "IDLE"
    /\ safe' \in BOOLEAN
    /\ UNCHANGED <<slot, old, goal>>

\* What one write, or a part of it, may make of the slot: an image it may
\* complete with, the old one again, or none where that was not ruled out.
MayYield(s) ==
    \/ s \in {slot, old} \cap Images
    \/ s \in goal
    \/ s = NoImage /\ (~safe \/ slot = NoImage)

Write ==
    /\ phase \in Active
    /\ \/ phase' \in {"IN_PROGRESS", "WRITE_STATE_UNKNOWN"} /\ MayYield(slot')
       \/ phase' = "COMPLETION_PROVEN" /\ slot' \in goal
    /\ UNCHANGED <<old, goal, safe>>

\* Everything but the slot is forgotten; a write may have been under way.
PowerLoss ==
    /\ IF phase \in Active THEN MayYield(slot') ELSE UNCHANGED slot
    /\ phase' = "IDLE"
    /\ old' = slot'
    /\ NewTerms

Next == Arm \/ Forget \/ Decide \/ FailBeforeWriting \/ Write \/ PowerLoss

Spec == Init /\ [][Next]_vars

=============================================================================
