----------------------------- MODULE Migration -----------------------------
(***************************************************************************)
(* The migration of a device from the vendor layout to OpenWrt UBI          *)
(* (cmd/ursusubi.c, ursus_ubi_migration_step).  The board data (bosa, ri)   *)
(* and the running FIP are read into RAM, all of the NAND behind the first  *)
(* block becomes UBI, seven volumes are created, written and read back, and *)
(* the BL2 in the first block is replaced last of all.                      *)
(*                                                                         *)
(* The vendor FIP begins in the first block (its table of contents is at    *)
(* 0x800) and its body lies in what FORMAT_UBI erases: from then until BL2  *)
(* is committed the device boots from nothing, and the board data are in    *)
(* RAM and in half-made volumes only.                                      *)
(*                                                                         *)
(* The web session decides from the layout it probed when it started        *)
(* whether a migration may be armed.  NAND geometry and bad blocks are      *)
(* faults; space is taken to suffice for seven volumes.                     *)
(***************************************************************************)
EXTENDS UbiVolumes, Sequences

CONSTANTS
    Fits,           \* OpenWrt images that were validated when uploaded
    Uploads,        \* what a client may place in the image buffer
    MaxFaults,      \* bound on the number of failing operations
    MaxAttempts     \* bound on the migrations armed per session

\* The data a migration has to carry over.
Parts == {"bosa", "ri", "fip"}

\* Data as the vendor left them, and anything else that reads.
Original == "original"
Junk == "junk"

Areas == Parts \cup {"image"}

\* The volumes, in the order CREATE_VOLUMES makes them.
CreateOrder == <<"ubootenv", "ubootenv2", "bosa", "ri", "fip", "fit", "rootfs_data">>
MigVols == {CreateOrder[i] : i \in 1..7}

ASSUME MigConstants ==
    /\ Fits \cap {Original, Junk, Absent, Blank, Torn} = {}
    /\ Uploads \subseteq Fits \cup {Junk}
    /\ MaxFaults \in Nat
    /\ MaxAttempts \in Nat

Backup == [bosa |-> "BACKUP_BOSA", ri |-> "BACKUP_RI", fip |-> "BACKUP_FIP"]
Write == [bosa |-> "WRITE_BOSA", ri |-> "WRITE_RI", fip |-> "WRITE_FIP", fit |-> "WRITE_FIT"]
Verify == [bosa |-> "VERIFY_BOSA", ri |-> "VERIFY_RI", fip |-> "VERIFY_FIP"]


\* Bug: BL2 is committed as soon as the volumes exist.
StageOrderCommitBug ==
    <<"PRECHECK", "BACKUP_BOSA", "BACKUP_RI", "BACKUP_FIP", "FORMAT_UBI",
      "ATTACH_UBI", "CREATE_VOLUMES", "COMMIT_BL2", "VERIFY_BL2", "WRITE_BOSA",
      "WRITE_RI", "WRITE_FIP", "WRITE_FIT", "VERIFY_BOSA", "VERIFY_RI", "VERIFY_FIP",
      "VERIFY_FIT", "COMPLETE">>

StageOrder == <<"PRECHECK", "BACKUP_BOSA", "BACKUP_RI", "BACKUP_FIP", "FORMAT_UBI",
                "ATTACH_UBI", "CREATE_VOLUMES", "WRITE_BOSA", "WRITE_RI", "WRITE_FIP",
                "WRITE_FIT", "VERIFY_BOSA", "VERIFY_RI", "VERIFY_FIP", "VERIFY_FIT",
                "COMMIT_BL2", "VERIFY_BL2", "COMPLETE">>
WorkStages == {StageOrder[i] : i \in 1..17}
Stages == WorkStages \cup {"IDLE", "COMPLETE", "FAILED"}

VARIABLES
    \* The flash.
    block0,         \* the first block: "vendor", Torn or "pinned"
    raw,            \* the vendor's areas behind it: Parts and its OS image
    formatted,      \* the UBI magic is at URSUS_UBI_BASE
    vols,           \* the UBI volumes
    \* The web session.
    layout,         \* ursus_current_layout
    preloader,      \* ursus_preloader_valid and the BL2 candidate built from it
    ram,            \* the image buffer
    bak,            \* the copies at URSUS_MIG_*_ADDR
    \* struct ursus_mig
    stage, failedStage, writeStarted,
    \* Bookkeeping of the model.
    faults, attempts,
    base            \* the flash when the migration was armed

flash == <<block0, raw, formatted, vols>>
session == <<layout, preloader, ram, bak>>
ctx == <<stage, failedStage, writeStarted>>
vars == <<flash, session, ctx, faults, attempts, base>>

Contents == Fits \cup {Original, Junk, Absent, Blank, Torn}
NoVols == [v \in MigVols |-> Absent]
FlashNow == [block0 |-> block0, raw |-> raw, formatted |-> formatted, vols |-> vols]
Layouts == {"STOCK", "OPENWRT_UBI", "UNKNOWN"}

TypeOK ==
    /\ block0 \in {"vendor", Torn, "pinned"}
    /\ raw \in [Areas -> {Original, Junk}]
    /\ formatted \in BOOLEAN
    /\ vols \in [MigVols -> Contents]
    /\ layout \in Layouts
    /\ preloader \in BOOLEAN
    /\ ram \in Fits \cup {Junk}
    /\ bak \in [Parts -> {Original, Junk}]
    /\ stage \in Stages
    /\ failedStage \in WorkStages \cup {"NONE"}
    /\ writeStarted \in BOOLEAN
    /\ faults \in 0..MaxFaults
    /\ attempts \in 0..MaxAttempts
    /\ base \in [block0 : {"vendor", Torn, "pinned"}, raw : [Areas -> {Original, Junk}],
                 formatted : BOOLEAN, vols : [MigVols -> Contents]]

-----------------------------------------------------------------------------
(* The context.                                                            *)

Active == stage \in WorkStages

\* Bug: a failure after the first write is taken for one before it.
TransactionStateBug ==
    CASE stage = "COMPLETE" -> "COMPLETION_PROVEN"
      [] Active /\ writeStarted -> "IN_PROGRESS"
      [] OTHER -> "NOT_STARTED"

\* ursus_ubi_migration_transaction_state
TransactionState ==
    CASE stage = "COMPLETE" -> "COMPLETION_PROVEN"
      [] stage = "FAILED" /\ writeStarted -> "WRITE_STATE_UNKNOWN"
      [] Active /\ writeStarted -> "IN_PROGRESS"
      [] OTHER -> "NOT_STARTED"

\* The stage after the current one.
Advance ==
    /\ \E i \in 1..17 : StageOrder[i] = stage /\ stage' = StageOrder[i + 1]
    /\ UNCHANGED failedStage

\* Bug: the failing stage is recorded after it was overwritten.
FailBug == stage' = "FAILED" /\ failedStage' = "FAILED"

\* ursus_mig_fail
Fail == stage' = "FAILED" /\ failedStage' = stage

Fault == faults < MaxFaults /\ faults' = faults + 1
NoFault == UNCHANGED faults

\* A stage that reads or compares: it goes on iff ok, and may fail anyhow.
Check(ok) ==
    \/ ok /\ Advance /\ NoFault
    \/ ~ok /\ Fail /\ NoFault
    \/ Fail /\ Fault

-----------------------------------------------------------------------------
(* Arming.                                                                 *)

\* ursus_probe_device, once, when the session starts: the UBI magic, or an
\* image where the vendor layout has it, or neither.  ("STOCK" stands for
\* OPENWRT_STOCK_LAYOUT too: both may be migrated.)
Probe(fmt, r) ==
    CASE fmt -> "OPENWRT_UBI"
      [] ~fmt /\ r["image"] = Original -> "STOCK"
      [] OTHER -> "UNKNOWN"

\* A preloader upload completes; only the pinned one is accepted, and the
\* BL2 candidate is built from it in a buffer of its own.
PreloaderUpload(ok) ==
    /\ preloader' = ok
    /\ UNCHANGED <<flash, layout, ram, bak, ctx, faults, attempts, base>>

\* POST /api/install-ubi and ursus_ubi_migration_start.
Start ==
    /\ attempts < MaxAttempts
    /\ ~Active
    /\ ram \in Fits
    /\ layout = "STOCK"
    /\ preloader
    /\ stage' = "PRECHECK"
    /\ failedStage' = "NONE"
    /\ writeStarted' = FALSE
    /\ attempts' = attempts + 1
    /\ base' = FlashNow
    /\ UNCHANGED <<flash, session, faults>>

\* Bug: a preloader that no longer validates is reported, and the stage stays.
PrecheckBug ==
    /\ stage = "PRECHECK"
    /\ preloader
    /\ Advance
    /\ NoFault
    /\ UNCHANGED <<flash, session, writeStarted, attempts, base>>

\* PRECHECK: the preloader in RAM is hashed again, and so is the candidate.
Precheck ==
    /\ stage = "PRECHECK"
    /\ Check(preloader)
    /\ UNCHANGED <<flash, session, writeStarted, attempts, base>>

-----------------------------------------------------------------------------
(* Before the first write.                                                 *)

\* BACKUP_BOSA, BACKUP_RI: whatever is there now.
BackupBoard(p) ==
    /\ stage = Backup[p]
    /\ \/ bak' = [bak EXCEPT ![p] = raw[p]] /\ Advance /\ NoFault
       \/ bak' \in {bak, [bak EXCEPT ![p] = Junk]} /\ Fail /\ Fault
    /\ UNCHANGED <<flash, layout, preloader, ram, writeStarted, attempts, base>>

\* BACKUP_FIP: the length comes from the table of contents in the first
\* block.  The pinned BL2 begins with a table of its own, which may or may
\* not pass.
BackupFip ==
    /\ stage = "BACKUP_FIP"
    /\ \/ /\ block0 # Torn
          /\ bak' = [bak EXCEPT !["fip"] = IF block0 = "vendor" THEN raw["fip"] ELSE Junk]
          /\ Advance
          /\ NoFault
       \/ /\ block0 # "vendor"
          /\ Fail
          /\ NoFault
          /\ UNCHANGED bak
       \/ /\ bak' \in {bak, [bak EXCEPT !["fip"] = Junk]}
          /\ Fail
          /\ Fault
    /\ UNCHANGED <<flash, layout, preloader, ram, writeStarted, attempts, base>>

-----------------------------------------------------------------------------
(* The window in which nothing boots.                                      *)

\* "mtd erase" goes upwards: the body of the FIP, the image, bosa, ri.

\* Bug: the erase works downwards, and the image goes last but one.
EraseOrderBug == <<"ri", "bosa", "image", "fip">>

EraseOrder == <<"fip", "image", "bosa", "ri">>
ErasedUpTo(n) ==
    [a \in Areas |-> IF \E i \in 1..n : EraseOrder[i] = a THEN Junk ELSE raw[a]]

FormatUbi ==
    /\ stage = "FORMAT_UBI"
    /\ writeStarted' = TRUE
    /\ \/ /\ raw' = ErasedUpTo(4)
          /\ formatted' = FALSE
          /\ vols' = NoVols
          /\ Advance
          /\ NoFault
       \/ /\ \E n \in 1..4 : raw' = ErasedUpTo(n)
          /\ formatted' = FALSE
          /\ vols' = NoVols
          /\ Fail
          /\ Fault
       \/ /\ Fail                           \* before the first block
          /\ Fault
          /\ UNCHANGED <<raw, formatted, vols>>
    /\ UNCHANGED <<block0, session, attempts, base>>

\* ATTACH_UBI: "ubi part" formats the empty device.
AttachUbi ==
    /\ stage = "ATTACH_UBI"
    /\ \/ formatted' = TRUE /\ Advance /\ NoFault
       \/ formatted' \in {formatted, TRUE} /\ Fail /\ Fault
    /\ UNCHANGED <<block0, raw, vols, session, writeStarted, attempts, base>>

\* CREATE_VOLUMES, as far as the n-th of them.
CreatedUpTo(n) ==
    [v \in MigVols |-> IF \E i \in 1..n : CreateOrder[i] = v THEN Blank ELSE vols[v]]
CreateVolumes ==
    /\ stage = "CREATE_VOLUMES"
    /\ \/ vols' = CreatedUpTo(7) /\ Advance /\ NoFault
       \/ vols' \in {CreatedUpTo(n) : n \in 0..7} /\ Fail /\ Fault
    /\ UNCHANGED <<block0, raw, formatted, session, writeStarted, attempts, base>>

\* WRITE_BOSA, WRITE_RI, WRITE_FIP from the copies, WRITE_FIT from the buffer.
Source(v) == IF v = "fit" THEN ram ELSE bak[v]
WriteVolume(v) ==
    /\ stage = Write[v]
    /\ \/ vols' = Fill(vols, v, Source(v)) /\ Advance /\ NoFault
       \/ vols' \in {vols, Fill(vols, v, Torn)} /\ Fail /\ Fault
    /\ UNCHANGED <<block0, raw, formatted, session, writeStarted, attempts, base>>

\* VERIFY_BOSA, VERIFY_RI, VERIFY_FIP.
VerifyPart(v) ==
    /\ stage = Verify[v]
    /\ Check(vols[v] = bak[v])
    /\ UNCHANGED <<flash, session, writeStarted, attempts, base>>

\* VERIFY_FIT: fit against the buffer, and the volume manifest.
VerifyFit ==
    /\ stage = "VERIFY_FIT"
    /\ Check(vols["fit"] = ram /\ \A v \in MigVols : Exists(vols, v))
    /\ UNCHANGED <<flash, session, writeStarted, attempts, base>>

-----------------------------------------------------------------------------
(* The commit.                                                             *)

CommitBl2 ==
    /\ stage = "COMMIT_BL2"
    /\ \/ block0' = "pinned" /\ Advance /\ NoFault
       \/ block0' \in {block0, Torn} /\ Fail /\ Fault
    /\ UNCHANGED <<raw, formatted, vols, session, writeStarted, attempts, base>>

\* VERIFY_BL2; the web loop then corrects the layout it had probed.
VerifyBl2 ==
    /\ stage = "VERIFY_BL2"
    /\ Check(block0 = "pinned")
    /\ layout' = IF stage' = "COMPLETE" THEN "OPENWRT_UBI" ELSE layout
    /\ UNCHANGED <<flash, preloader, ram, bak, writeStarted, attempts, base>>

-----------------------------------------------------------------------------
(* The environment.                                                        *)

\* Another firmware upload overwrites the image buffer.
Overwrite(c) ==
    /\ ram' = c
    /\ UNCHANGED <<flash, layout, preloader, bak, ctx, faults, attempts, base>>

\* The power fails in the stage that is due; recovery is started again, from
\* flash or over UART, and probes what it finds.
PowerLoss ==
    /\ \/ UNCHANGED flash
       \/ /\ stage = "FORMAT_UBI"
          /\ \E n \in 1..4 : raw' = ErasedUpTo(n)
          /\ formatted' = FALSE
          /\ vols' = NoVols
          /\ UNCHANGED block0
       \/ /\ stage = "ATTACH_UBI"
          /\ formatted' = TRUE
          /\ UNCHANGED <<block0, raw, vols>>
       \/ /\ stage = "CREATE_VOLUMES"
          /\ vols' \in {CreatedUpTo(n) : n \in 1..7}
          /\ UNCHANGED <<block0, raw, formatted>>
       \/ /\ \E v \in DOMAIN Write : stage = Write[v] /\ vols' = Fill(vols, v, Torn)
          /\ UNCHANGED <<block0, raw, formatted>>
       \/ /\ stage = "COMMIT_BL2"
          /\ block0' \in {Torn, "pinned"}
          /\ UNCHANGED <<raw, formatted, vols>>
    /\ layout' = Probe(formatted', raw')
    /\ preloader' = FALSE
    /\ ram' = Junk
    /\ bak' = [p \in Parts |-> Junk]
    /\ stage' = "IDLE"
    /\ failedStage' = "NONE"
    /\ writeStarted' = FALSE
    /\ attempts' = 0
    /\ base' = [block0 |-> block0', raw |-> raw', formatted |-> formatted', vols |-> vols']
    /\ UNCHANGED faults

-----------------------------------------------------------------------------
Init ==
    /\ block0 = "vendor"
    /\ raw = [a \in Areas |-> Original]
    /\ formatted = FALSE
    /\ vols = NoVols
    /\ layout = "STOCK"
    /\ preloader = FALSE
    /\ ram = Junk
    /\ bak = [p \in Parts |-> Junk]
    /\ stage = "IDLE"
    /\ failedStage = "NONE"
    /\ writeStarted = FALSE
    /\ faults = 0
    /\ attempts = 0
    /\ base = FlashNow

\* ursus_ubi_migration_step
Step ==
    \/ Precheck
    \/ \E p \in {"bosa", "ri"} : BackupBoard(p)
    \/ BackupFip \/ FormatUbi \/ AttachUbi \/ CreateVolumes
    \/ \E v \in DOMAIN Write : WriteVolume(v)
    \/ \E v \in DOMAIN Verify : VerifyPart(v)
    \/ VerifyFit \/ CommitBl2 \/ VerifyBl2

Next ==
    \/ \E ok \in BOOLEAN : PreloaderUpload(ok)
    \/ Start
    \/ Step
    \/ \E c \in Uploads : Overwrite(c)
    \/ PowerLoss

Spec == Init /\ [][Next]_vars

\* The WebFailsafe loop steps the migration for as long as it is active.
FairSpec == Spec /\ WF_vars(Step)

-----------------------------------------------------------------------------
(* Properties.                                                             *)

\* "BL2 is committed last": the first block is not touched before every
\* volume exists and bosa, ri and fip hold what the vendor areas held when
\* the migration was armed, although those areas were erased in between.
Bl2CommittedLast ==
    block0 # base.block0 =>
        /\ \A v \in MigVols : vols[v] \notin {Absent, Torn}
        /\ \A p \in {"bosa", "ri"} : vols[p] = base.raw[p]
        /\ base.block0 = "vendor" => vols["fip"] = base.raw["fip"]

\* The first migration a session arms carries the vendor's board data over:
\* whatever earlier sessions left behind, the probe at the start of this one
\* refuses a flash whose board data are gone (they are erased after the
\* image it looks for), and COMPLETION_PROVEN then means that bosa and ri
\* are in their volumes, under the pinned BL2.
FirstMigrationPreserves ==
    stage = "COMPLETE" /\ attempts = 1 =>
        block0 = "pinned" /\ \A p \in {"bosa", "ri"} : vols[p] = Original

\* While the first migration of a session runs, the board data are always
\* somewhere: in the vendor area, in a volume, or in the RAM copy.
BoardDataHeld ==
    Active /\ attempts = 1 =>
        \A p \in {"bosa", "ri"} : Original \in {raw[p], vols[p], bak[p]}

\* Both: the board data are never out of reach of a first migration, and are
\* where they belong at its end.
BoardDataKept == FirstMigrationPreserves /\ BoardDataHeld

\* A migration reported as NOT_STARTED has not changed the flash.
NotStartedMeansUntouched ==
    TransactionState = "NOT_STARTED" => base = FlashNow

\* Every migration that is armed comes to an end.
Terminates == Active ~> ~Active

-----------------------------------------------------------------------------
(* What the repository says of the migration and the code does not keep.    *)

\* CHANGELOG: "preserved BOSA/RI/FIP through migration": every completed
\* migration has left the board data in their volumes.
MigrationPreserves ==
    stage = "COMPLETE" => \A p \in {"bosa", "ri"} : vols[p] = Original

\* ursus_mig_detail, BACKUP_FIP: "Preserve current UrsusBoot FIP in RAM": the
\* fip volume a completed first migration leaves is the FIP the device had.
MigrationKeepsFip ==
    stage = "COMPLETE" /\ attempts = 1 => vols["fip"] = Original

=============================================================================
