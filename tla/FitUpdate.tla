----------------------------- MODULE FitUpdate -----------------------------
(***************************************************************************)
(* The OpenWrt update of a device on the UBI layout (cmd/ursusubi.c): the   *)
(* stage machine of ursus_ubi_update_step, the settings reset, and what     *)
(* ursus_ubi_boot makes of the volumes they leave.  Where UBI has room the  *)
(* image is staged in fit.new and renamed, the previous one staying as      *)
(* fit.old; where it has not, fit is removed and rewritten in place         *)
(* ("DIRECT_RECOVERY_SAFE").                                               *)
(*                                                                         *)
(* Space is counted in LEBs, as the code counts it.  As in FipUpdate a      *)
(* flash operation can fail, the power can fail within a stage, and the    *)
(* image buffer can be overwritten by another upload while the update runs.*)
(* PRECHECK and the settings reset detach and attach UBI anew, so a         *)
(* read-only UBI does not outlive the operation that met it.                *)
(***************************************************************************)
EXTENDS UbiVolumes, Integers

CONSTANTS
    Fits,           \* OpenWrt images whose metadata and hashes were validated
    FitLebs,        \* the LEBs each of them needs
    Uploads,        \* what a client may place in the image buffer
    TotalLebs,      \* LEBs UBI has for fit, fit.new, fit.old and rootfs_data,
                    \* those it keeps for bad blocks apart
    StagedHeadroom, \* URSUS_UBI_STAGED_HEADROOM_LEBS
    Reserve,        \* URSUS_UBI_ROOTFS_FREE_RESERVE_LEBS
    BebLevel,       \* beb_rsvd_level: the LEBs UBI keeps for bad blocks
    MaxFaults       \* bound on the number of failing flash operations

\* A buffer an upload has begun to overwrite, or an image that lost its
\* body: the FDT header is good, the image does not boot.
Hybrid == "hybrid"

\* What rootfs_data can hold.
Settings == {"user", "clean"}

Contents == Fits \cup Settings \cup {Absent, Blank, Torn, Hybrid}

ASSUME ImagesAreData ==
    Fits \cap (Settings \cup {Absent, Blank, Torn, Hybrid}) = {}

ASSUME SpaceTyped ==
    /\ FitLebs \in [Fits -> Nat \ {0}]
    /\ Uploads \subseteq Fits \cup {Torn, Hybrid}
    /\ TotalLebs \in Nat
    /\ StagedHeadroom \in Nat
    /\ Reserve \in Nat
    /\ BebLevel \in Nat
    /\ MaxFaults \in Nat

FitVols == {"fit", "fit.new", "fit.old", "rootfs_data"}
WorkStages == {"PRECHECK", "STAGE_PREP", "STAGE_WRITE", "STAGE_VERIFY", "PROMOTE",
               "FINAL_VERIFY"}
Stages == {"IDLE", "COMPLETE", "FAILED"} \cup WorkStages

VARIABLES
    tab,            \* the volumes: contents c and reserved LEBs n
    coreOk,         \* fip has a valid TOC; ubootenv, ubootenv2, bosa and ri exist
    ram,            \* the image buffer at ursus_upd.fit_addr
    \* struct ursus_update_ctx
    stage, failedStage, need, keepSettings, directMode, writeStarted,
    \* Bookkeeping of the model.
    faults,         \* failing flash operations so far
    base            \* the volumes when the running update was armed

ctx == <<stage, failedStage, need, keepSettings, directMode, writeStarted>>
vars == <<tab, coreOk, ram, ctx, faults, base>>

Gone == [c |-> Absent, n |-> 0]
Tables == [FitVols -> [c : Contents, n : Nat]]

-----------------------------------------------------------------------------
(* The volumes, with the space they take.                                  *)

Present(t, v) == t[v].c # Absent

\* What the volumes leave.  Below zero, that much of the bad-block reserve is
\* missing: the attach found blocks corrupted and filled it as far as it could.
Spare(t) ==
    TotalLebs - (t["fit"].n + t["fit.new"].n + t["fit.old"].n + t["rootfs_data"].n)

\* ubi->avail_pebs.  Both the attach and ubi_remove_vol fill the reserve up
\* before anything counts as available.
Avail(t) == IF Spare(t) > 0 THEN Spare(t) ELSE 0

\* UBI never hands out more LEBs than it has, whatever the order of
\* removals, creations, resets and cut-short updates.
SpaceConserved ==
    /\ Spare(tab) >= -BebLevel
    /\ \A v \in FitVols : tab[v].c = Absent <=> tab[v].n = 0

\* The variables keep their types and the volumes the space there is.
TypeOK ==
    /\ tab \in Tables
    /\ coreOk \in BOOLEAN
    /\ ram \in Fits \cup {Torn, Hybrid}
    /\ stage \in Stages
    /\ failedStage \in {"NONE"} \cup WorkStages
    /\ need \in Nat
    /\ keepSettings \in BOOLEAN
    /\ directMode \in BOOLEAN
    /\ writeStarted \in BOOLEAN
    /\ faults \in 0..MaxFaults
    /\ base \in Tables
    /\ SpaceConserved

\* "ubi remove v" for each v of D that "ubi check" finds; what that frees goes
\* to a short reserve first (Avail).
Without(t, D) == [v \in FitVols |-> IF v \in D THEN Gone ELSE t[v]]

\* "ubi create v" with room for n LEBs.
Created(t, v, n) == [t EXCEPT ![v] = [c |-> Blank, n |-> n]]

\* "ubi write": fit_len bytes of the buffer.
Written(t, v, c) == [t EXCEPT ![v] = [c |-> c, n |-> t[v].n]]

\* "ubi rename a b"
Moved(t, a, b) == [t EXCEPT ![b] = t[a], ![a] = Gone]

\* fdt_check_header on what is in the volume or the buffer.
HeaderOk(c) == c \in Fits \cup {Hybrid}

-----------------------------------------------------------------------------
(* ursus_ubi_boot, the fip being valid.                                     *)

\* fit.old is the fallback for a missing fit, not for a broken one.
BootVolume(t) == IF Present(t, "fit") THEN "fit" ELSE "fit.old"

\* The volume reads and its header is good: bootm is called.
Loads(t) == HeaderOk(t[BootVolume(t)].c)

\* bootm accepts the image as well.
Boots(t) == t[BootVolume(t)].c \in Fits

-----------------------------------------------------------------------------
(* The context.                                                            *)

Active == stage \in WorkStages

\* ursus_ubi_update_transaction_state
TransactionState ==
    CASE stage = "COMPLETE" -> "COMPLETION_PROVEN"
      [] stage = "FAILED" /\ writeStarted -> "WRITE_STATE_UNKNOWN"
      [] Active /\ writeStarted -> "IN_PROGRESS"
      [] OTHER -> "NOT_STARTED"

Go(s) == stage' = s /\ UNCHANGED failedStage

\* ursus_upd_fail_reason
Fail == stage' = "FAILED" /\ failedStage' = stage

Fault == faults < MaxFaults /\ faults' = faults + 1
NoFault == UNCHANGED faults

-----------------------------------------------------------------------------
(* The settings reset.                                                     *)

\* ursus_ubi_create_clean_rootfs_data, by ursus_ubi_reset_settings: all the
\* space but the reserve, and none at all if no more than that is left.
NoRootfs == Without(tab, {"rootfs_data"})
ResetPossible == Avail(NoRootfs) > Reserve

\* Bug: the size is that of the whole device, or the reserve is forgotten.
ResetTableOverBug ==
    [tab EXCEPT !["rootfs_data"] = [c |-> "clean", n |-> TotalLebs]]
ResetTableAllBug ==
    [tab EXCEPT !["rootfs_data"] = [c |-> "clean", n |-> Avail(NoRootfs)]]

ResetTable ==
    [tab EXCEPT !["rootfs_data"] = [c |-> "clean", n |-> Avail(NoRootfs) - Reserve]]

\* The tables a reset that is cut short can leave.
ResetImages == {tab, NoRootfs} \cup {t \in {ResetTable} : ResetPossible}

\* ursus_ubi_verify_volume_manifest(false)
ManifestOk(t) == coreOk /\ t["rootfs_data"].n > 0

\* POST /api/reset-openwrt-settings, refused while an operation is active.
\* The context of the last update stays as it is.
ResetSettings ==
    /\ ~Active
    /\ \/ ResetPossible /\ tab' = ResetTable /\ NoFault
       \/ ~ResetPossible /\ tab' = NoRootfs /\ NoFault
       \/ tab' \in ResetImages /\ Fault
    /\ base' = [base EXCEPT !["rootfs_data"] = tab'["rootfs_data"]]
    /\ UNCHANGED <<coreOk, ram, ctx>>

-----------------------------------------------------------------------------
(* The update.                                                             *)

\* ursus_ubi_update_start, called for an image that was validated and has
\* not been touched since.
Start(keep) ==
    /\ ~Active
    /\ ram \in Fits
    /\ stage' = "PRECHECK"
    /\ failedStage' = "NONE"
    /\ need' = FitLebs[ram]
    /\ keepSettings' = keep
    /\ directMode' = FALSE
    /\ writeStarted' = FALSE
    /\ base' = tab
    /\ UNCHANGED <<tab, coreOk, ram, faults>>

\* avail_pebs + reclaim: free space once fit.old and fit.new are gone.
Headroom(t) == Avail(t) + t["fit.old"].n + t["fit.new"].n

FitsStaged == Headroom(tab) >= need + StagedHeadroom

\* What a direct update leaves free: the reserve for rootfs_data, or less if
\* there is less now.
DirectMargin(t) == IF Headroom(t) < Reserve THEN Headroom(t) ELSE Reserve

\* Bug: the space of rootfs_data is counted as if it were given up.
FitsDirectBug ==
    Headroom(tab) + tab["fit"].n + tab["rootfs_data"].n >= need + DirectMargin(tab)

FitsDirect ==
    Headroom(tab) + tab["fit"].n >= need + DirectMargin(tab)

\* PRECHECK: attach, look at fip and the volumes, choose the mode.
Precheck ==
    /\ stage = "PRECHECK"
    /\ \/ /\ ManifestOk(tab)
          /\ FitsStaged \/ FitsDirect
          /\ directMode' = ~FitsStaged
          /\ Go("STAGE_PREP")
          /\ NoFault
       \/ /\ \/ ~(ManifestOk(tab) /\ (FitsStaged \/ FitsDirect)) /\ NoFault
             \/ Fault
          /\ Fail
          /\ UNCHANGED directMode
    /\ UNCHANGED <<tab, coreOk, ram, need, keepSettings, writeStarted, base>>

Target == IF directMode THEN "fit" ELSE "fit.new"

\* Bug: direct mode makes room at the expense of the settings.
ClearedSettingsBug ==
    Without(tab, {"fit.new", "fit.old"}
                 \cup (IF directMode THEN {"fit", "rootfs_data"} ELSE {}))

Cleared ==
    Without(tab, {"fit.new", "fit.old"} \cup (IF directMode THEN {"fit"} ELSE {}))
PrepImages ==
    {tab, Without(tab, {"fit.new"}), Without(tab, {"fit.new", "fit.old"}), Cleared}
    \cup {t \in {Created(Cleared, Target, need)} : Avail(Cleared) >= need}

\* STAGE_PREP: both leftovers are removed, in direct mode fit as well.
StagePrep ==
    /\ stage = "STAGE_PREP"
    /\ writeStarted' = TRUE
    /\ \/ /\ Avail(Cleared) >= need
          /\ tab' = Created(Cleared, Target, need)
          /\ Go("STAGE_WRITE")
          /\ NoFault
       \/ /\ Avail(Cleared) < need
          /\ tab' = Cleared
          /\ Fail
          /\ NoFault
       \/ tab' \in PrepImages /\ Fail /\ Fault
    /\ UNCHANGED <<coreOk, ram, need, keepSettings, directMode, base>>

\* STAGE_WRITE: the buffer as it is now.
StageWrite ==
    /\ stage = "STAGE_WRITE"
    /\ \/ tab' = Written(tab, Target, ram) /\ Go("STAGE_VERIFY") /\ NoFault
       \/ tab' \in {tab, Written(tab, Target, Torn)} /\ Fail /\ Fault
    /\ UNCHANGED <<coreOk, ram, need, keepSettings, directMode, writeStarted, base>>

\* STAGE_VERIFY: equal to the buffer, and the header is good.
StageVerify ==
    /\ stage = "STAGE_VERIFY"
    /\ LET good == tab[Target].c = ram /\ HeaderOk(ram)
       IN \/ good /\ Go(IF directMode THEN "FINAL_VERIFY" ELSE "PROMOTE") /\ NoFault
          \/ ~good /\ Fail /\ NoFault
          \/ Fail /\ Fault
    /\ UNCHANGED <<tab, coreOk, ram, need, keepSettings, directMode, writeStarted, base>>

\* PROMOTE: two renames, each a table update of its own.

\* Bug: the active image is removed to make room for the new name.
AsideBug == Without(tab, {"fit"})

Aside == IF Present(tab, "fit") THEN Moved(tab, "fit", "fit.old") ELSE tab
Promoted == Moved(Aside, "fit.new", "fit")
Promote ==
    /\ stage = "PROMOTE"
    /\ \/ tab' = Promoted /\ Go("FINAL_VERIFY") /\ NoFault
       \/ tab' \in {tab, Aside, Promoted} /\ Fail /\ Fault
    /\ UNCHANGED <<coreOk, ram, need, keepSettings, directMode, writeStarted, base>>

\* FINAL_VERIFY: read fit back again, then reset or keep the settings, then
\* look at the volumes once more.
FinalGood == tab["fit"].c = ram /\ HeaderOk(ram)
FinalVerify ==
    /\ stage = "FINAL_VERIFY"
    /\ \/ /\ FinalGood
          /\ keepSettings \/ ResetPossible
          /\ tab' = IF keepSettings THEN tab ELSE ResetTable
          /\ IF ManifestOk(tab') THEN Go("COMPLETE") ELSE Fail
          /\ NoFault
       \/ /\ FinalGood
          /\ ~keepSettings /\ ~ResetPossible
          /\ tab' = NoRootfs
          /\ Fail
          /\ NoFault
       \/ /\ ~FinalGood
          /\ Fail
          /\ NoFault
          /\ UNCHANGED tab
       \/ /\ tab' \in (IF FinalGood /\ ~keepSettings THEN ResetImages ELSE {tab})
          /\ Fail
          /\ Fault
    /\ UNCHANGED <<coreOk, ram, need, keepSettings, directMode, writeStarted, base>>

-----------------------------------------------------------------------------
(* The environment.                                                        *)

\* Another upload, of a firmware or of an initramfs, which share the buffer.
Overwrite(c) ==
    /\ ram' = c
    /\ UNCHANGED <<tab, coreOk, ctx, faults, base>>

CrashTables ==
    CASE stage = "STAGE_PREP" -> PrepImages
      [] stage = "STAGE_WRITE" -> {tab, Written(tab, Target, Torn)}
      [] stage = "PROMOTE" -> {tab, Aside, Promoted}
      [] stage = "FINAL_VERIFY" /\ FinalGood /\ ~keepSettings -> ResetImages
      [] OTHER -> {tab}

Cleanup ==
    /\ ram' = Torn
    /\ stage' = "IDLE"
    /\ failedStage' = "NONE"
    /\ need' = 0
    /\ keepSettings' = FALSE
    /\ directMode' = FALSE
    /\ writeStarted' = FALSE
    /\ base' = tab'
    /\ UNCHANGED <<coreOk, faults>>

\* The power fails, perhaps within the stage that is due; recovery again.
PowerLoss == tab' \in CrashTables /\ Cleanup

\* OpenWrt runs for a while, if it boots: it creates a rootfs_data that is
\* missing, in the space there is, and keeps settings in it.
OpenWrtRuns ==
    /\ ~Active
    /\ coreOk /\ Boots(tab)
    /\ LET n == IF Present(tab, "rootfs_data") THEN tab["rootfs_data"].n ELSE Avail(tab)
       IN n > 0 /\ tab' = [tab EXCEPT !["rootfs_data"] = [c |-> "user", n |-> n]]
    /\ Cleanup

-----------------------------------------------------------------------------
Init ==
    /\ tab \in Tables
    /\ \A v \in FitVols : tab[v].c = Absent <=> tab[v].n = 0
    /\ tab["rootfs_data"].c \in Settings \cup {Absent}
    /\ \A v \in FitVols \ {"rootfs_data"} : tab[v].c \notin Settings
    /\ Spare(tab) >= -BebLevel
    /\ coreOk \in BOOLEAN
    /\ ram = Torn
    /\ stage = "IDLE"
    /\ failedStage = "NONE"
    /\ need = 0
    /\ keepSettings = FALSE
    /\ directMode = FALSE
    /\ writeStarted = FALSE
    /\ faults = 0
    /\ base = tab

\* ursus_ubi_update_step
Step ==
    Precheck \/ StagePrep \/ StageWrite \/ StageVerify \/ Promote \/ FinalVerify

Next ==
    \/ \E keep \in BOOLEAN : Start(keep)
    \/ Step
    \/ ResetSettings
    \/ \E c \in Uploads : Overwrite(c)
    \/ PowerLoss
    \/ OpenWrtRuns

Spec == Init /\ [][Next]_vars

-----------------------------------------------------------------------------
(* Properties.                                                             *)

\* What COMPLETION_PROVEN stands for when it is reached: an image that loads is active, a
\* staged update kept the previous one as fit.old, no leftover remains, the
\* settings were kept as they were or made anew with exactly the reserve
\* left free, and the next PRECHECK will find all volumes.
Installed ==
    /\ HeaderOk(tab["fit"].c)
    /\ tab["fit.old"] = IF directMode THEN Gone ELSE base["fit"]
    /\ tab["fit.new"] = Gone
    /\ IF keepSettings THEN tab["rootfs_data"] = base["rootfs_data"]
                       ELSE tab["rootfs_data"].c = "clean" /\ Avail(tab) = Reserve
    /\ ManifestOk(tab)

\* The free space PRECHECK asks for beyond the image.
Margin == IF directMode THEN DirectMargin(tab) ELSE StagedHeadroom

\* The space PRECHECK promised is there when STAGE_PREP has removed the
\* volumes, unless more of the bad-block reserve was missing than the margin
\* PRECHECK adds to the image: removing a volume fills the reserve first, and
\* PRECHECK does not look at it.
AdmittedFits ==
    stage = "STAGE_PREP" => Avail(Cleared) >= need \/ -Spare(tab) > Margin

\* The transaction state of an OpenWrt update tells the truth at both ends:
\* NOT_STARTED is said of volumes that are as they were at arming,
\* COMPLETION_PROVEN only over an installed image.
TransactionHonest ==
    [][/\ TransactionState' = "NOT_STARTED" => tab' = base'
       /\ stage # "COMPLETE" /\ stage' = "COMPLETE" => Installed']_vars

\* The settings survive every update that was asked to keep them, however
\* it ends.
SettingsKept ==
    stage # "IDLE" /\ keepSettings => tab["rootfs_data"] = base["rootfs_data"]

\* "ubi rename" refuses a name in use: PROMOTE finds fit.old free, so
\* neither rename is refused.
RenamesPossible ==
    stage = "PROMOTE" => ~Present(tab, "fit.old") /\ Present(tab, "fit.new")

\* What a stage relies on an earlier one has provided, also after leftovers
\* of interrupted updates: room at STAGE_PREP, free names at PROMOTE.
StagesCanProceed == AdmittedFits /\ RenamesPossible

-----------------------------------------------------------------------------
(* The update as a transaction on what ursus_ubi_boot loads.                *)

LoadedImage(t) == IF Loads(t) THEN t[BootVolume(t)].c ELSE Absent

Slot == INSTANCE BootSlot WITH
    Images  <- Fits \cup {Hybrid},
    NoImage <- Absent,
    slot    <- LoadedImage(tab),
    phase   <- IF TransactionState # "NOT_STARTED" THEN TransactionState
               ELSE IF Active THEN "ARMED" ELSE "IDLE",
    old     <- LoadedImage(base),
    goal    <- Fits \cup {Hybrid},
    safe    <- ~directMode /\ HeaderOk(base["fit"].c)

\* The stages of ursus_ubi_update_step implement BootSlot: a staged update
\* over a fit that loads never leaves ursus_ubi_boot without an image, and
\* the transaction state is true of what it loads.
ImplementsBootSlot == Slot!Spec

-----------------------------------------------------------------------------
(* What the repository says of the update and the code does not keep.       *)

\* ursus_upd_detail: "Update stopped; ... staged mode preserves fit
\* fallback": a failed staged update leaves an image to load on a
\* device that had one.
FallbackPreserved ==
    stage = "FAILED" /\ ~directMode /\ Loads(base) => Loads(tab)

=============================================================================
