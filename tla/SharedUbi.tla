----------------------------- MODULE SharedUbi -----------------------------
(***************************************************************************)
(* The bootloader update, the OpenWrt update and the settings reset over    *)
(* the one UBI device they share: its free LEBs, its volume ids and its     *)
(* read-only mode.  POST /api/update-ursusboot asks only for the migration  *)
(* and for its own context, so a FIP update may be armed at any moment of   *)
(* an OpenWrt update and the loop advances both in every pass.              *)
(*                                                                         *)
(* Simplifications.  FipUpdate and FitUpdate have the stages in full; here  *)
(* a stage that leaves the volume table alone is joined to the next one     *)
(* (PRECHECK of the FIP update with UBI_ATTACH, writing a volume with       *)
(* reading it back), what the volumes hold is left out (an active fip may be  *)
(* taken for a broken one at any time, any fit may boot), and a failing     *)
(* operation may happen at any time, any number of times.  The volumes      *)
(* ubootenv, ubootenv2, bosa and ri keep the ids 0 to 3.  Blocks UBI has     *)
(* lost since the migration are a number, of those an attach finds corrupted.*)
(***************************************************************************)
EXTENDS Integers, FiniteSets

CONSTANTS
    TotalLebs,      \* LEBs UBI has for the volumes modelled here
    FipLebs,        \* LEBs of a volume of URSUS_UBI_FIP_VOL_SIZE bytes
    Needs,          \* LEBs of the OpenWrt images that are installed
    StagedHeadroom, \* URSUS_UBI_STAGED_HEADROOM_LEBS
    Reserve,        \* URSUS_UBI_ROOTFS_FREE_RESERVE_LEBS
    RootfsMax,      \* LEBs of a rootfs_data that OpenWrt was told to limit
    Losses          \* how many blocks may be lost: up to beb_rsvd_level, which
                    \* UBI keeps for bad blocks and beyond which it fails to attach

\* 20 and 16 LEBs against the 9 of a FIP volume.
ASSUME HeadroomForFips ==
    /\ FipLebs \in Nat \ {0}
    /\ Reserve \in Nat /\ Reserve >= FipLebs
    /\ StagedHeadroom \in Nat /\ StagedHeadroom >= 2 * FipLebs
    /\ TotalLebs \in Nat
    /\ RootfsMax \in Nat
    /\ Losses \subseteq Nat
    /\ Needs \subseteq Nat \ {0}

FipVols == {"fip", "fip.new", "fip.old", "fip.bad"}
FitVols == {"fit", "fit.new", "fit.old"}
Names == FipVols \cup FitVols \cup {"rootfs_data"}

\* Volume ids, as far as the code can tell them apart: 4 and 5 ("low"), the
\* 6 that rootfs_data is created with, and those above.
Ids == {"low", "six", "high"}
NoId == "none"
LowIds == 2

FipStages == {"UBI_ATTACH", "UBI_STAGE_PREP", "UBI_STAGE_WRITE", "UBI_PROMOTE",
              "UBI_VERIFY", "UBI_ROLLBACK"}
FitStages == {"PRECHECK", "STAGE_PREP", "STAGE_WRITE", "PROMOTE", "FINAL_VERIFY"}
Modes == {"NORMAL", "REPAIR_MISSING", "REPAIR_INVALID"}

VARIABLES
    vol,            \* the volumes: reserved LEBs n and volume id
    ro,             \* UBI takes no change: read-only, or an attach failed
    lost,           \* corr_peb_count: blocks that are corrupted and not used
    fip,            \* the FIP update: [stage, mode]
    fit,            \* the OpenWrt update: [stage, need, keep, direct]
    taken           \* a FIP update created fip.new since its PRECHECK

vars == <<vol, ro, lost, fip, fit, taken>>

Gone == [n |-> 0, id |-> NoId]
Volumes == [n : 0..TotalLebs, id : Ids \cup {NoId}]

TypeOK ==
    /\ vol \in [Names -> Volumes]
    /\ Cardinality({v \in Names : vol[v].id = "low"}) <= LowIds
    /\ Cardinality({v \in Names : vol[v].id = "six"}) <= 1
    /\ \A v \in Names : vol[v].n = 0 <=> vol[v].id = NoId
    /\ ro \in BOOLEAN
    /\ lost \in Losses \cup {0}
    /\ fip \in [stage : FipStages \cup {"IDLE"}, mode : Modes]
    /\ fit \in [stage : FitStages \cup {"IDLE"}, need : Needs \cup {0},
                keep : BOOLEAN, direct : BOOLEAN]
    /\ taken \in BOOLEAN

-----------------------------------------------------------------------------
(* The UBI device.                                                         *)

Exists(t, v) == t[v].n > 0

\* The leftovers of FIP updates, and of OpenWrt updates.
FipLeft(t) == t["fip.new"].n + t["fip.old"].n + t["fip.bad"].n
FitLeft(t) == t["fit.new"].n + t["fit.old"].n

\* What the volumes leave of a device that has lost no block.
Free(t) ==
    TotalLebs - (t["fip"].n + FipLeft(t) + t["fit"].n + FitLeft(t) + t["rootfs_data"].n)

\* ubi->avail_pebs.  Where more is lost than is free the bad-block reserve is
\* short, and both the attach and ubi_remove_vol fill it up before anything
\* counts as available.
Avail(t) == IF Free(t) > lost THEN Free(t) - lost ELSE 0

\* Bug: the last id of the migration is given out again.
LowestIdBug(t) == "six"

\* UBI gives a volume created without an id the lowest one that is free.
LowestId(t) ==
    CASE Cardinality({v \in Names : t[v].id = "low"}) < LowIds -> "low"
      [] \A v \in Names : t[v].id # "six" -> "six"
      [] OTHER -> "high"

\* What that frees goes to a short reserve first (Avail).
Removed(t, V) == [v \in Names |-> IF v \in V THEN Gone ELSE t[v]]
Created(t, v, n, id) == [t EXCEPT ![v] = [n |-> n, id |-> id]]
CreatedAuto(t, v, n) == Created(t, v, n, LowestId(t))

\* A volume keeps its id under its new name.
Renamed(t, a, b) == [t EXCEPT ![b] = t[a], ![a] = Gone]
Switched(t, current, candidate, backup) ==
    Renamed(Renamed(t, current, backup), candidate, current)

-----------------------------------------------------------------------------
(* The bootloader update.                                                  *)

NoFip == [stage |-> "IDLE", mode |-> "NORMAL"]
NoFit == [stage |-> "IDLE", need |-> 0, keep |-> FALSE, direct |-> FALSE]

FipActive == fip.stage # "IDLE"
FitActive == fit.stage # "IDLE"

FipGo(s) == fip' = [fip EXCEPT !.stage = s]
FipEnds == fip' = NoFip
FipOnly == UNCHANGED <<fit, lost>>

\* Armed whether or not an OpenWrt update is active.
FipStart ==
    /\ ~FipActive
    /\ fip' = [stage |-> "UBI_ATTACH", mode |-> "NORMAL"]
    /\ FipOnly
    /\ UNCHANGED <<vol, ro, taken>>

\* What the active fip is taken for; a read error makes any fip invalid.
Classified ==
    IF Exists(vol, "fip") THEN {"NORMAL", "REPAIR_INVALID"} ELSE {"REPAIR_MISSING"}

\* Attaching again, if nothing is attached, ends the read-only mode.
FipAttach ==
    /\ fip.stage = "UBI_ATTACH"
    /\ \/ \E m \in Classified : fip' = [stage |-> "UBI_STAGE_PREP", mode |-> m]
       \/ FipEnds
    /\ ro' \in {ro, FALSE}
    /\ FipOnly
    /\ UNCHANGED <<vol, taken>>

FipStale ==
    {"fip.new", "fip.bad"} \cup (IF fip.mode = "NORMAL" THEN {"fip.old"} ELSE {})

\* Removed to make room: a fip that was called invalid.
FipReclaim == fip.mode = "REPAIR_INVALID" /\ Avail(Removed(vol, FipStale)) < FipLebs
FipCleared == Removed(vol, FipStale \cup (IF FipReclaim THEN {"fip"} ELSE {}))

FipPrep ==
    /\ fip.stage = "UBI_STAGE_PREP"
    /\ \/ /\ ~ro /\ FipLebs <= Avail(FipCleared)
          /\ vol' = CreatedAuto(FipCleared, "fip.new", FipLebs)
          /\ fip' = [stage |-> "UBI_STAGE_WRITE",
                     mode |-> IF FipReclaim THEN "REPAIR_MISSING" ELSE fip.mode]
          /\ taken' = (taken \/ FitActive)
          /\ UNCHANGED ro
       \/ /\ ~ro /\ Avail(FipCleared) < FipLebs
          /\ vol' = FipCleared
          /\ FipEnds
          /\ UNCHANGED <<ro, taken>>
       \/ /\ vol' \in {vol} \cup (IF ro THEN {}
                                  ELSE {Removed(vol, {"fip.new"}), Removed(vol, FipStale), FipCleared})
          /\ FipEnds
          /\ ro' = TRUE
          /\ UNCHANGED taken
    /\ FipOnly

\* UBI_STAGE_WRITE and UBI_STAGE_VERIFY.
FipWrite ==
    /\ fip.stage = "UBI_STAGE_WRITE"
    /\ \/ ~ro /\ FipGo("UBI_PROMOTE") /\ UNCHANGED ro
       \/ FipEnds /\ ro' \in {ro, TRUE}
    /\ FipOnly
    /\ UNCHANGED <<vol, taken>>

FipPromoted ==
    CASE fip.mode = "NORMAL" -> Switched(vol, "fip", "fip.new", "fip.old")
      [] fip.mode = "REPAIR_MISSING" -> Renamed(vol, "fip.new", "fip")
      [] OTHER -> Switched(vol, "fip", "fip.new", "fip.bad")

FipPromote ==
    /\ fip.stage = "UBI_PROMOTE"
    /\ \/ ~ro /\ vol' = FipPromoted /\ FipGo("UBI_VERIFY") /\ UNCHANGED ro
       \/ vol' \in {vol} \cup (IF ro THEN {} ELSE {FipPromoted}) /\ FipEnds /\ ro' = TRUE
    /\ FipOnly
    /\ UNCHANGED taken

FipVerify ==
    /\ fip.stage = "UBI_VERIFY"
    /\ \/ FipEnds /\ UNCHANGED <<vol, ro>>
       \/ /\ fip.mode # "REPAIR_MISSING"
          /\ FipGo("UBI_ROLLBACK")
          /\ ro' \in {ro, TRUE}
          /\ UNCHANGED vol
       \/ /\ fip.mode = "REPAIR_MISSING"
          /\ \/ ~ro /\ vol' = Renamed(vol, "fip", "fip.bad") /\ UNCHANGED ro
             \/ UNCHANGED vol /\ ro' = TRUE
          /\ FipEnds
    /\ FipOnly
    /\ UNCHANGED taken

FipRolledBack ==
    IF fip.mode = "NORMAL" THEN Switched(vol, "fip", "fip.old", "fip.bad")
                           ELSE Switched(vol, "fip", "fip.bad", "fip.new")

FipRollback ==
    /\ fip.stage = "UBI_ROLLBACK"
    /\ \/ ~ro /\ vol' = FipRolledBack /\ UNCHANGED ro
       \/ vol' \in {vol} \cup (IF ro THEN {} ELSE {FipRolledBack}) /\ ro' = TRUE
    /\ FipEnds
    /\ FipOnly
    /\ UNCHANGED taken

FipStep == FipAttach \/ FipPrep \/ FipWrite \/ FipPromote \/ FipVerify \/ FipRollback

-----------------------------------------------------------------------------
(* The settings reset, on its own and as the end of an update.              *)

NoRootfs == Removed(vol, {"rootfs_data"})

\* Bug: nothing of the free space is left free.
ResetLebsBug == Avail(NoRootfs)

ResetLebs == Avail(NoRootfs) - Reserve

\* UBI is attached anew, rootfs_data is removed, and created as volume 6.
ResetWorks == ResetLebs > 0 /\ \A v \in Names : NoRootfs[v].id # "six"
ResetDone == Created(NoRootfs, "rootfs_data", ResetLebs, "six")
ResetImages == {vol, NoRootfs} \cup {t \in {ResetDone} : ResetWorks}

ResetSettings ==
    /\ ~FitActive /\ ~FipActive
    /\ \/ vol' = (IF ResetWorks THEN ResetDone ELSE NoRootfs) /\ ro' = FALSE
       \/ vol' \in ResetImages /\ ro' = TRUE
    /\ UNCHANGED <<lost, fip, fit, taken>>

-----------------------------------------------------------------------------
(* The OpenWrt update.                                                     *)

FitGo(s) == fit' = [fit EXCEPT !.stage = s] /\ UNCHANGED taken
FitEnds == fit' = NoFit /\ taken' = FALSE
FitOnly == UNCHANGED <<fip, lost>>

FitStart(n, keep) ==
    /\ ~FitActive /\ ~FipActive
    /\ fit' = [stage |-> "PRECHECK", need |-> n, keep |-> keep, direct |-> FALSE]
    /\ taken' = FALSE
    /\ UNCHANGED <<vol, ro, lost, fip>>

Headroom == Avail(vol) + FitLeft(vol)

\* Bug: the headroom is that of one FIP volume.
FitsStagedBug == Headroom >= fit.need + FipLebs

FitsStaged == Headroom >= fit.need + StagedHeadroom

\* What a direct update leaves free of the headroom h.
DirectMargin(h) == IF h < Reserve THEN h ELSE Reserve

FitsDirect == Headroom + vol["fit"].n >= fit.need + DirectMargin(Headroom)

\* Its contents apart, what PRECHECK and the manifest ask of the volumes.
ManifestOk == Exists(vol, "fip") /\ Exists(vol, "rootfs_data")

FitPrecheck ==
    /\ fit.stage = "PRECHECK"
    /\ \/ /\ ManifestOk /\ (FitsStaged \/ FitsDirect)
          /\ fit' = [fit EXCEPT !.stage = "STAGE_PREP", !.direct = ~FitsStaged]
          /\ taken' = FALSE
          /\ ro' = FALSE
       \/ /\ FitEnds
          /\ ro' \in BOOLEAN
    /\ FitOnly
    /\ UNCHANGED vol

Target == IF fit.direct THEN "fit" ELSE "fit.new"
FitCleared == Removed(vol, {"fit.new", "fit.old"} \cup (IF fit.direct THEN {"fit"} ELSE {}))

FitPrep ==
    /\ fit.stage = "STAGE_PREP"
    /\ \/ /\ ~ro /\ fit.need <= Avail(FitCleared)
          /\ vol' = CreatedAuto(FitCleared, Target, fit.need)
          /\ FitGo("STAGE_WRITE")
          /\ UNCHANGED ro
       \/ /\ ~ro /\ fit.need > Avail(FitCleared)
          /\ vol' = FitCleared
          /\ FitEnds
          /\ UNCHANGED ro
       \/ /\ vol' \in {vol} \cup (IF ro THEN {}
                                  ELSE {Removed(vol, {"fit.new"}),
                                        Removed(vol, {"fit.new", "fit.old"}), FitCleared})
          /\ FitEnds
          /\ ro' = TRUE
    /\ FitOnly

\* STAGE_WRITE and STAGE_VERIFY.
FitWrite ==
    /\ fit.stage = "STAGE_WRITE"
    /\ \/ /\ ~ro
          /\ FitGo(IF fit.direct THEN "FINAL_VERIFY" ELSE "PROMOTE")
          /\ UNCHANGED ro
       \/ FitEnds /\ ro' \in {ro, TRUE}
    /\ FitOnly
    /\ UNCHANGED vol

FitAside == IF Exists(vol, "fit") THEN Renamed(vol, "fit", "fit.old") ELSE vol
FitPromoted == Renamed(FitAside, "fit.new", "fit")

FitPromote ==
    /\ fit.stage = "PROMOTE"
    /\ \/ ~ro /\ vol' = FitPromoted /\ FitGo("FINAL_VERIFY") /\ UNCHANGED ro
       \/ /\ vol' \in {vol} \cup (IF ro THEN {} ELSE {FitAside, FitPromoted})
          /\ FitEnds
          /\ ro' = TRUE
    /\ FitOnly

FitFinal ==
    /\ fit.stage = "FINAL_VERIFY"
    /\ \/ fit.keep /\ FitEnds /\ UNCHANGED <<vol, ro>>
       \/ ~fit.keep /\ ResetWorks /\ vol' = ResetDone /\ FitEnds /\ ro' = FALSE
       \/ ~fit.keep /\ ~ResetWorks /\ vol' = NoRootfs /\ FitEnds /\ ro' = FALSE
       \/ /\ vol' \in (IF fit.keep THEN {vol} ELSE ResetImages)
          /\ FitEnds
          /\ ro' \in {ro, TRUE}
    /\ FitOnly

FitStep == FitPrecheck \/ FitPrep \/ FitWrite \/ FitPromote \/ FitFinal

-----------------------------------------------------------------------------
(* The environment.                                                        *)

\* What the flash may look like when the power fails in a stage.
CrashImages ==
    {vol}
    \cup (CASE ro -> {}
            [] fip.stage = "UBI_STAGE_PREP" ->
                  {Removed(vol, {"fip.new"}), Removed(vol, FipStale), FipCleared}
            [] fip.stage = "UBI_PROMOTE" -> {FipPromoted}
            [] fip.stage = "UBI_ROLLBACK" -> {FipRolledBack}
            [] OTHER -> {})
    \cup (CASE ro -> {}
            [] fit.stage = "STAGE_PREP" ->
                  {Removed(vol, {"fit.new"}), Removed(vol, {"fit.new", "fit.old"}), FitCleared}
            [] fit.stage = "PROMOTE" -> {FitAside, FitPromoted}
            [] fit.stage = "FINAL_VERIFY" /\ ~fit.keep -> ResetImages
            [] OTHER -> {})

Idle ==
    /\ fip' = NoFip /\ fit' = NoFit
    /\ ro' = FALSE /\ taken' = FALSE
    /\ UNCHANGED lost

PowerLoss == vol' \in CrashImages /\ Idle

\* OpenWrt boots; it keeps rootfs_data, or makes it anew of all free space
\* (ursus_ubi_fip_new_headroom) or as rootfs_data_max of the environment
\* limits it, under the first id that is free.
OpenWrtRuns ==
    /\ ~FipActive /\ ~FitActive
    /\ Exists(vol, "fip") /\ Exists(vol, "fit")
    /\ \/ UNCHANGED vol
       \/ \E n \in {Avail(NoRootfs), RootfsMax} :
             /\ n \in 1..Avail(NoRootfs)
             /\ vol' = CreatedAuto(NoRootfs, "rootfs_data", n)
    /\ Idle

\* The attach of PRECHECK, or of the next start, finds more blocks corrupted.
Corrupted ==
    /\ fit.stage = "PRECHECK" \/ (~FipActive /\ ~FitActive)
    /\ lost' \in {n \in Losses : n > lost}
    /\ UNCHANGED <<vol, ro, fip, fit, taken>>

-----------------------------------------------------------------------------
\* What the migration leaves, which found room for all of it.
Init ==
    /\ \E n \in {m \in Needs : TotalLebs > FipLebs + m + Reserve} :
          vol = [v \in Names |->
                   CASE v = "fip" -> [n |-> FipLebs, id |-> "low"]
                     [] v = "fit" -> [n |-> n, id |-> "low"]
                     [] v = "rootfs_data" ->
                           [n |-> TotalLebs - FipLebs - n - Reserve, id |-> "six"]
                     [] OTHER -> Gone]
    /\ fip = NoFip /\ fit = NoFit
    /\ ro = FALSE /\ lost = 0 /\ taken = FALSE

Next ==
    \/ FipStart \/ FipStep
    \/ \E n \in Needs, keep \in BOOLEAN : FitStart(n, keep)
    \/ FitStep
    \/ ResetSettings
    \/ PowerLoss
    \/ OpenWrtRuns
    \/ Corrupted

Spec == Init /\ [][Next]_vars

-----------------------------------------------------------------------------
(* Properties.                                                             *)

\* An OpenWrt update that PRECHECK admitted finds its room at STAGE_PREP,
\* however many FIP updates of whatever mode are carried out in between: the
\* headroom of 20 LEBs covers what they take together.  There are two
\* exceptions.  In direct mode a FIP update may have taken the room since
\* PRECHECK, as POST /api/update-ursusboot lets the two run side by side; and
\* in either mode more of the bad-block reserve may be missing than the margin
\* PRECHECK asks for, which the removed volumes then go to.
AdmittedFits ==
    fit.stage = "STAGE_PREP" /\ Avail(FitCleared) < fit.need =>
        \/ fit.direct /\ taken
        \/ lost - Free(vol)
               > IF fit.direct THEN DirectMargin(FitLeft(vol)) ELSE StagedHeadroom

\* Room for fip.new once the leftovers of the FIP updates are cleared away
\* and the bad-block reserve is full.
FipRoom(t) == Free(t) + FipLeft(t) >= FipLebs + lost

\* No step of an OpenWrt update takes the room the next FIP update needs,
\* with the settings reset at its end, failing, cut short or beside a FIP
\* update: PRECHECK's preserve_headroom and the reserve of the reset add up.
FipRoomKept ==
    [][FitActive /\ UNCHANGED fip => (FipRoom(vol) => FipRoom(vol'))]_vars

-----------------------------------------------------------------------------
(* What the repository says of the reset and the code does not keep.         *)

\* README, Reset OpenWrt settings: "Erases and recreates only rootfs_data".
\* A reset that finds room and meets no failing operation leaves a
\* rootfs_data behind.
ResetRecreates ==
    [][ResetSettings /\ ResetLebs > 0 /\ ro' = FALSE => Exists(vol', "rootfs_data")]_vars

=============================================================================
