-------------------------- MODULE MigrationProofs --------------------------
(***************************************************************************)
(* Proofs about the migration: its types, the truth of NOT_STARTED, that    *)
(* BL2 goes last and that the board data are never out of reach, for any    *)
(* set of images, any number of faults, attempts and power losses.          *)
(***************************************************************************)
EXTENDS Migration, TLAPS

\* The stages from which on something has been done.
Committed == {"VERIFY_BL2", "COMPLETE"}
AllWritten == {"WRITE_FIT", "VERIFY_BOSA", "VERIFY_RI", "VERIFY_FIP", "VERIFY_FIT",
               "COMMIT_BL2"} \cup Committed
RiWritten == {"WRITE_FIP"} \cup AllWritten
BosaWritten == {"WRITE_RI"} \cup RiWritten
Created == {"WRITE_BOSA"} \cup BosaWritten
Formatted == {"ATTACH_UBI", "CREATE_VOLUMES"} \cup Created
AllSaved == {"FORMAT_UBI"} \cup Formatted
RiSaved == {"BACKUP_FIP"} \cup AllSaved
BosaSaved == {"BACKUP_RI"} \cup RiSaved
Untouched == {"IDLE", "PRECHECK", "BACKUP_BOSA", "BACKUP_RI", "BACKUP_FIP", "FORMAT_UBI"}

\* Nothing is written before FORMAT_UBI, and write_started tells.
InvUntouched ==
    /\ stage \in Formatted => writeStarted
    /\ stage \in Untouched => ~writeStarted
    /\ ~writeStarted => base = FlashNow

\* What a session knows of the flash it was started on: the vendor's image
\* is erased before the board data, the probe looks for the image, and the
\* first migration is armed before anything has changed.
InvSession ==
    /\ raw["image"] = Original => \A p \in {"bosa", "ri"} : raw[p] = Original
    /\ attempts = 0 => stage = "IDLE" /\ (layout = "STOCK" => raw["image"] = Original)
    /\ attempts = 1 => \A p \in {"bosa", "ri"} : base.raw[p] = Original

\* The copies in RAM are what the vendor areas held at the start.
InvBackup ==
    /\ stage \in BosaSaved => bak["bosa"] = base.raw["bosa"]
    /\ stage \in RiSaved => bak["ri"] = base.raw["ri"]
    /\ stage \in AllSaved /\ base.block0 = "vendor" => bak["fip"] = base.raw["fip"]

\* The first block is written by COMMIT_BL2 alone.
InvBlock ==
    /\ stage \in WorkStages \ {"VERIFY_BL2"} => block0 = base.block0
    /\ stage = "COMPLETE" => block0 = "pinned"

\* The volumes exist, and hold what was copied.
InvVolumes ==
    /\ stage \in Created => \A v \in MigVols : vols[v] \notin {Absent, Torn}
    /\ stage \in BosaWritten => vols["bosa"] = bak["bosa"]
    /\ stage \in RiWritten => vols["ri"] = bak["ri"]
    /\ stage \in AllWritten => vols["fip"] = bak["fip"]

IInv ==
    /\ TypeOK
    /\ InvUntouched /\ InvSession /\ InvBackup /\ InvBlock /\ InvVolumes
    /\ Bl2CommittedLast

-----------------------------------------------------------------------------
(* The order of the stages, and the tables that name them.                  *)

\* The stages, one by one.
LEMMA StageSets ==
    WorkStages = {"PRECHECK", "BACKUP_BOSA", "BACKUP_RI", "BACKUP_FIP", "FORMAT_UBI",
                         "ATTACH_UBI", "CREATE_VOLUMES", "WRITE_BOSA",
                         "WRITE_RI", "WRITE_FIP", "WRITE_FIT",
                         "VERIFY_BOSA", "VERIFY_RI", "VERIFY_FIP",
                         "VERIFY_FIT", "COMMIT_BL2", "VERIFY_BL2"}
  BY DEF WorkStages, StageOrder

\* Every stage is followed by the next of ursus_ubi_migration_step.
LEMMA AdvanceStep ==
    ASSUME Advance
    PROVE  /\ failedStage' = failedStage
           /\ stage \in WorkStages
           /\ stage' \in WorkStages \cup {"COMPLETE"}
           /\ stage = "PRECHECK" => stage' = "BACKUP_BOSA"
           /\ stage = "BACKUP_BOSA" => stage' = "BACKUP_RI"
           /\ stage = "BACKUP_RI" => stage' = "BACKUP_FIP"
           /\ stage = "BACKUP_FIP" => stage' = "FORMAT_UBI"
           /\ stage = "FORMAT_UBI" => stage' = "ATTACH_UBI"
           /\ stage = "ATTACH_UBI" => stage' = "CREATE_VOLUMES"
           /\ stage = "CREATE_VOLUMES" => stage' = "WRITE_BOSA"
           /\ stage = "WRITE_BOSA" => stage' = "WRITE_RI"
           /\ stage = "WRITE_RI" => stage' = "WRITE_FIP"
           /\ stage = "WRITE_FIP" => stage' = "WRITE_FIT"
           /\ stage = "WRITE_FIT" => stage' = "VERIFY_BOSA"
           /\ stage = "VERIFY_BOSA" => stage' = "VERIFY_RI"
           /\ stage = "VERIFY_RI" => stage' = "VERIFY_FIP"
           /\ stage = "VERIFY_FIP" => stage' = "VERIFY_FIT"
           /\ stage = "VERIFY_FIT" => stage' = "COMMIT_BL2"
           /\ stage = "COMMIT_BL2" => stage' = "VERIFY_BL2"
           /\ stage = "VERIFY_BL2" => stage' = "COMPLETE"
  BY StageSets DEF Advance, StageOrder

\* The volumes, one by one.
LEMMA VolumeSets ==
    MigVols = {"ubootenv", "ubootenv2", "bosa", "ri", "fip", "fit", "rootfs_data"}
  BY DEF MigVols, CreateOrder

\* The stages that belong to a part or a volume.
LEMMA StageNames ==
    /\ Backup["bosa"] = "BACKUP_BOSA" /\ Backup["ri"] = "BACKUP_RI"
    /\ DOMAIN Write = {"bosa", "ri", "fip", "fit"}
    /\ Write["bosa"] = "WRITE_BOSA" /\ Write["ri"] = "WRITE_RI"
    /\ Write["fip"] = "WRITE_FIP" /\ Write["fit"] = "WRITE_FIT"
    /\ DOMAIN Verify = {"bosa", "ri", "fip"}
    /\ Verify["bosa"] = "VERIFY_BOSA" /\ Verify["ri"] = "VERIFY_RI"
    /\ Verify["fip"] = "VERIFY_FIP"
  BY DEF Backup, Write, Verify

\* "mtd erase" takes the image before the board data.
LEMMA EraseAt ==
    ASSUME raw \in [Areas -> {Original, Junk}], NEW n \in 1..4
    PROVE  /\ ErasedUpTo(n) \in [Areas -> {Original, Junk}]
           /\ ErasedUpTo(n)["image"] = Original =>
                \A p \in {"bosa", "ri"} : ErasedUpTo(n)[p] = raw[p]
  BY DEF ErasedUpTo, EraseOrder, Areas, Parts, Original, Junk

\* "ubi create", as far as the n-th volume.
LEMMA CreateAt ==
    ASSUME vols \in [MigVols -> Contents], NEW n \in 0..7
    PROVE  CreatedUpTo(n) \in [MigVols -> Contents]
  BY DEF CreatedUpTo, Contents

\* All seven are there, and blank.
LEMMA CreateAll == \A v \in MigVols : CreatedUpTo(7)[v] = Blank
  BY DEF CreatedUpTo, MigVols, CreateOrder

-----------------------------------------------------------------------------
(* Types.                                                                  *)

\* The counters of the model stay within their bounds.
LEMMA CountersTyped ==
    ASSUME TypeOK, [Next]_vars
    PROVE  faults' \in 0..MaxFaults /\ attempts' \in 0..MaxAttempts
  <1>1. Fault \/ NoFault => faults' \in 0..MaxFaults
    BY MigConstants DEF Fault, NoFault, TypeOK
  <1>2. faults' = faults \/ Fault
    BY DEF Next, Step, PreloaderUpload, Start, Precheck, Check, BackupBoard, BackupFip,
       FormatUbi, AttachUbi, CreateVolumes, WriteVolume, VerifyPart, VerifyFit, CommitBl2,
       VerifyBl2, Overwrite, PowerLoss, NoFault, vars
  <1>3. attempts' \in {0, attempts} \/ (attempts < MaxAttempts /\ attempts' = attempts + 1)
    BY DEF Next, Step, PreloaderUpload, Start, Precheck, BackupBoard, BackupFip,
       FormatUbi, AttachUbi, CreateVolumes, WriteVolume, VerifyPart, VerifyFit, CommitBl2,
       VerifyBl2, Overwrite, PowerLoss, vars
  <1>4. attempts' \in 0..MaxAttempts
    BY <1>3, MigConstants DEF TypeOK
  <1> QED BY <1>1, <1>2, <1>4 DEF NoFault

\* A stock device with nothing armed.
LEMMA TypeInit == Init => TypeOK
  <1> SUFFICES ASSUME Init PROVE TypeOK
    OBVIOUS
  <1>1. faults \in 0..MaxFaults /\ attempts \in 0..MaxAttempts
    BY MigConstants DEF Init
  <1> QED BY <1>1 DEF Init, TypeOK, FlashNow, NoVols, Contents, Layouts, Stages, Original, Junk

\* Every step keeps the variables within their types.
LEMMA TypeStep == TypeOK /\ [Next]_vars => TypeOK'
  <1> SUFFICES ASSUME TypeOK, [Next]_vars PROVE TypeOK'
    OBVIOUS
  <1> DEFINE Counters == faults \in 0..MaxFaults /\ attempts \in 0..MaxAttempts
             Flashes == [block0 : {"vendor", Torn, "pinned"}, raw : [Areas -> {Original, Junk}],
                         formatted : BOOLEAN, vols : [MigVols -> Contents]]
             Device == /\ block0 \in {"vendor", Torn, "pinned"}
                       /\ raw \in [Areas -> {Original, Junk}]
                       /\ formatted \in BOOLEAN
                       /\ vols \in [MigVols -> Contents]
             Session == /\ layout \in Layouts /\ preloader \in BOOLEAN
                        /\ ram \in Fits \cup {Junk} /\ bak \in [Parts -> {Original, Junk}]
             Context == /\ stage \in Stages /\ failedStage \in WorkStages \cup {"NONE"}
                        /\ writeStarted \in BOOLEAN
                        /\ base \in Flashes
             G == Device' /\ Session' /\ Context'
  <1>t. Counters'
    BY CountersTyped
  <1>c. Device /\ Session /\ Context
    BY DEF TypeOK
  <1> SUFFICES G
    BY <1>t DEF TypeOK
  <1>w. Step => stage \in WorkStages
    BY StageSets, StageNames DEF Step, Precheck, BackupBoard, BackupFip, FormatUbi,
       AttachUbi, CreateVolumes, WriteVolume, VerifyPart, VerifyFit, CommitBl2, VerifyBl2
  <1>a. Step => Advance \/ Fail
    BY DEF Step, Precheck, Check, BackupBoard, BackupFip, FormatUbi, AttachUbi,
       CreateVolumes, WriteVolume, VerifyPart, VerifyFit, CommitBl2, VerifyBl2
  <1>b. Step => UNCHANGED <<preloader, ram, base>> /\ writeStarted' \in {TRUE, writeStarted}
    BY DEF Step, Precheck, BackupBoard, BackupFip, FormatUbi, AttachUbi, CreateVolumes,
       WriteVolume, VerifyPart, VerifyFit, CommitBl2, VerifyBl2, session
  <1>s. Step => Context' /\ preloader' \in BOOLEAN /\ ram' \in Fits \cup {Junk}
    BY <1>a, <1>b, <1>c, <1>w, AdvanceStep DEF Fail, Stages
  <1>e. /\ \A n \in 1..4 : ErasedUpTo(n) \in [Areas -> {Original, Junk}]
        /\ \A n \in 0..7 : CreatedUpTo(n) \in [MigVols -> Contents]
        /\ NoVols \in [MigVols -> Contents]
    BY <1>c, EraseAt, CreateAt DEF NoVols, Contents
  <1>f. \A v \in DOMAIN Write :
          /\ Fill(vols, v, Source(v)) \in [MigVols -> Contents]
          /\ Fill(vols, v, Torn) \in [MigVols -> Contents]
    BY <1>c, StageNames, VolumeSets DEF Contents, Fill, Source, Parts
  <1>1. ASSUME NEW ok \in BOOLEAN, PreloaderUpload(ok) PROVE G
    BY <1>1, <1>c DEF PreloaderUpload, flash, ctx
  <1>2. CASE Start
    <2>1. FlashNow \in Flashes
      BY <1>c DEF FlashNow
    <2> QED BY <1>2, <1>c, <2>1, StageSets DEF Start, flash, session, Stages
  <1>3. CASE Precheck \/ (\E v \in DOMAIN Verify : VerifyPart(v)) \/ VerifyFit
    BY <1>3, <1>c, <1>s DEF Step, Precheck, VerifyPart, VerifyFit, flash, session
  <1>4. ASSUME NEW p \in {"bosa", "ri"}, BackupBoard(p) PROVE G
    <2>1. bak' \in [Parts -> {Original, Junk}]
      BY <1>4, <1>c DEF BackupBoard, Parts, Areas
    <2> QED BY <1>4, <1>c, <1>s, <2>1 DEF Step, BackupBoard, flash
  <1>5. CASE BackupFip
    <2>1. bak' \in [Parts -> {Original, Junk}]
      BY <1>5, <1>c DEF BackupFip, Parts, Areas
    <2> QED BY <1>5, <1>c, <1>s, <2>1 DEF Step, BackupFip, flash
  <1>6. CASE FormatUbi
    <2>1. raw' = raw \/ \E n \in 1..4 : raw' = ErasedUpTo(n)
      BY <1>6 DEF FormatUbi
    <2>2. formatted' \in BOOLEAN /\ vols' \in {vols, NoVols}
      BY <1>6, <1>c DEF FormatUbi
    <2> QED BY <1>6, <1>c, <1>e, <1>s, <2>1, <2>2 DEF Step, FormatUbi, session
  <1>7. CASE AttachUbi
    BY <1>7, <1>c, <1>s DEF Step, AttachUbi, session
  <1>8. CASE CreateVolumes
    <2>1. vols' \in [MigVols -> Contents]
      BY <1>8, <1>e DEF CreateVolumes
    <2> QED BY <1>8, <1>c, <1>s, <2>1 DEF Step, CreateVolumes, session
  <1>9. ASSUME NEW v \in DOMAIN Write, WriteVolume(v) PROVE G
    <2>1. vols' \in [MigVols -> Contents]
      BY <1>9, <1>c, <1>f DEF WriteVolume
    <2> QED BY <1>9, <1>c, <1>s, <2>1 DEF Step, WriteVolume, session
  <1>10. CASE CommitBl2
    BY <1>10, <1>c, <1>s DEF Step, CommitBl2, session
  <1>11. CASE VerifyBl2
    <2>1. layout' \in Layouts
      BY <1>11, <1>c DEF VerifyBl2, Layouts
    <2> QED BY <1>11, <1>c, <1>s, <2>1 DEF Step, VerifyBl2, flash
  <1>12. ASSUME NEW c \in Uploads, Overwrite(c) PROVE G
    BY <1>12, <1>c, MigConstants DEF Overwrite, flash, ctx
  <1>13. CASE PowerLoss
    <2>1. Device'
      <3>1. raw' = raw \/ \E n \in 1..4 : raw' = ErasedUpTo(n)
        BY <1>13 DEF PowerLoss, flash
      <3>2. \/ vols' \in {vols, NoVols} \/ \E n \in 0..7 : vols' = CreatedUpTo(n)
            \/ \E v \in DOMAIN Write : vols' = Fill(vols, v, Torn)
        BY <1>13 DEF PowerLoss, flash
      <3>3. block0' \in {block0, Torn, "pinned"} /\ formatted' \in {formatted, TRUE, FALSE}
        BY <1>13 DEF PowerLoss, flash
      <3> QED BY <1>c, <1>e, <1>f, <3>1, <3>2, <3>3
    <2>2. base' \in Flashes
      BY <1>13, <2>1 DEF PowerLoss
    <2>3. layout' \in Layouts
      BY <1>13 DEF PowerLoss, Probe, Layouts
    <2> QED BY <1>13, <2>1, <2>2, <2>3 DEF PowerLoss, Stages
  <1>14. CASE UNCHANGED vars
    BY <1>14, <1>c DEF vars, flash, session, ctx
  <1> QED
    BY <1>1, <1>2, <1>3, <1>4, <1>5, <1>6, <1>7, <1>8, <1>9, <1>10, <1>11, <1>12,
       <1>13, <1>14 DEF Next, Step

-----------------------------------------------------------------------------
(* The inductive invariant.                                                *)

\* A stock device satisfies it.
LEMMA InvInit == Init => IInv
  <1> SUFFICES ASSUME Init PROVE IInv
    OBVIOUS
  <1>1. stage = "IDLE" /\ base = FlashNow /\ writeStarted = FALSE /\ attempts = 0
    BY DEF Init
  <1>2. InvSession
    BY <1>1 DEF Init, InvSession, Areas, Parts
  <1>3. Bl2CommittedLast
    BY <1>1 DEF Bl2CommittedLast, FlashNow
  <1> QED
    BY <1>1, <1>2, <1>3, TypeInit, StageSets
    DEF IInv, InvUntouched, InvBackup, InvBlock, InvVolumes, Untouched, BosaSaved, RiSaved,
        AllSaved, Formatted, Created, BosaWritten, RiWritten, AllWritten, Committed

\* The board data of a session's flash: they go after the image, and a probe
\* that finds the image is not outdated before the first migration is armed.
LEMMA SessionStep ==
    ASSUME IInv, [Next]_vars
    PROVE  InvSession'
  <1>t. TypeOK /\ InvSession
    BY DEF IInv
  <1>1. raw' = raw \/ \E n \in 1..4 : raw' = ErasedUpTo(n)
    <2>1. CASE FormatUbi
      BY <2>1 DEF FormatUbi
    <2>2. CASE PowerLoss
      BY <2>2 DEF PowerLoss, flash
    <2>3. CASE ~FormatUbi /\ ~PowerLoss
      BY <2>3 DEF Next, Step, PreloaderUpload, Start, Precheck, BackupBoard, BackupFip,
         AttachUbi, CreateVolumes, WriteVolume, VerifyPart, VerifyFit, CommitBl2, VerifyBl2,
         Overwrite, flash, vars
    <2> QED BY <2>1, <2>2, <2>3
  <1>2. raw'["image"] = Original => \A p \in {"bosa", "ri"} : raw'[p] = Original
    <2>1. CASE raw' = raw
      BY <1>t, <2>1 DEF InvSession
    <2>2. ASSUME NEW n \in 1..4, raw' = ErasedUpTo(n)
          PROVE  raw'["image"] = Original => \A p \in {"bosa", "ri"} : raw'[p] = Original
      <3>1. ErasedUpTo(n)["image"] = Original => raw["image"] = Original
        BY DEF ErasedUpTo, Areas, Parts, Original, Junk
      <3> QED BY <1>t, <2>2, <3>1, EraseAt DEF InvSession, TypeOK
    <2> QED BY <1>1, <2>1, <2>2
  <1>3. CASE PowerLoss
    <2>1. layout' = "STOCK" => raw'["image"] = Original
      BY <1>3 DEF PowerLoss, Probe
    <2>2. attempts' = 0 /\ stage' = "IDLE"
      BY <1>3 DEF PowerLoss
    <2> QED BY <1>2, <2>1, <2>2 DEF InvSession
  <1>4. CASE Start
    <2>1. attempts' = attempts + 1 /\ base'.raw = raw /\ layout = "STOCK"
      BY <1>4 DEF Start, FlashNow
    <2>2. attempts \in Nat
      BY <1>t DEF TypeOK
    <2>3. attempts' # 0 /\ (attempts' = 1 => attempts = 0)
      BY <2>1, <2>2
    <2>4. attempts' = 1 => \A p \in {"bosa", "ri"} : base'.raw[p] = Original
      BY <1>t, <2>1, <2>3 DEF InvSession
    <2> QED BY <1>2, <2>3, <2>4 DEF InvSession
  <1>5. CASE Step
    <2>1. UNCHANGED <<attempts, base>>
      BY <1>5 DEF Step, Precheck, BackupBoard, BackupFip, FormatUbi, AttachUbi, CreateVolumes,
         WriteVolume, VerifyPart, VerifyFit, CommitBl2, VerifyBl2
    <2>2. stage # "IDLE"
      BY <1>5, StageNames DEF Step, Precheck, BackupBoard, BackupFip, FormatUbi, AttachUbi,
         CreateVolumes, WriteVolume, VerifyPart, VerifyFit, CommitBl2, VerifyBl2
    <2>3. attempts' # 0
      BY <1>t, <2>1, <2>2 DEF InvSession
    <2> QED BY <1>t, <1>2, <2>1, <2>3 DEF InvSession
  <1>6. CASE \/ UNCHANGED vars \/ \E ok \in BOOLEAN : PreloaderUpload(ok)
             \/ \E c \in Uploads : Overwrite(c)
    <2>1. UNCHANGED <<stage, layout, raw, attempts, base>>
      BY <1>6 DEF PreloaderUpload, Overwrite, vars, flash, session, ctx
    <2> QED BY <1>t, <2>1 DEF InvSession
  <1> QED BY <1>3, <1>4, <1>5, <1>6 DEF Next

\* What the flash, the copies and the context tell of each other.
Rest == InvUntouched /\ InvBackup /\ InvBlock /\ InvVolumes /\ Bl2CommittedLast

\* A stage that fails: of a failed migration the invariant keeps only what
\* the first block and write_started tell.
LEMMA FailKeeps ==
    ASSUME Rest, Fail, base' = base, UNCHANGED flash \/ writeStarted',
           writeStarted => writeStarted', Bl2CommittedLast'
    PROVE  Rest'
  <1>1. stage' = "FAILED"
    BY DEF Fail
  <1> QED
    BY <1>1, StageSets
    DEF Rest, InvUntouched, FlashNow, flash, InvBackup, InvBlock, InvVolumes, BosaSaved,
        RiSaved, AllSaved, Formatted, Created, BosaWritten, RiWritten, AllWritten,
        Committed, Untouched

\* Every request, stage, overwrite and power loss keeps the rest of IInv.
LEMMA RestStep ==
    ASSUME TypeOK, TypeOK', Rest, [Next]_vars
    PROVE  Rest'
  <1> USE DEF Rest, InvUntouched, InvBackup, InvBlock, InvVolumes, Bl2CommittedLast, FlashNow,
          BosaSaved, RiSaved, AllSaved, Formatted, Created, BosaWritten, RiWritten, AllWritten,
          Committed, Untouched, flash, session, ctx
  <1>1. ASSUME NEW ok \in BOOLEAN, PreloaderUpload(ok) PROVE Rest'
    BY <1>1 DEF PreloaderUpload
  <1>2. CASE Start
    BY <1>2, StageSets DEF Start
  <1>3. CASE Precheck
    BY <1>3, StageSets, AdvanceStep, FailKeeps DEF Precheck, Check
  <1>4. ASSUME NEW p \in {"bosa", "ri"}, BackupBoard(p) PROVE Rest'
    BY <1>4, StageSets, StageNames, AdvanceStep, FailKeeps DEF BackupBoard, TypeOK, Parts, Areas
  <1>5. CASE BackupFip
    BY <1>5, StageSets, AdvanceStep, FailKeeps DEF BackupFip, TypeOK, Parts, Areas
  <1>6. CASE FormatUbi
    BY <1>6, StageSets, AdvanceStep, FailKeeps DEF FormatUbi
  <1>7. CASE AttachUbi
    BY <1>7, StageSets, AdvanceStep, FailKeeps DEF AttachUbi
  <1>8. CASE CreateVolumes
    BY <1>8, StageSets, AdvanceStep, CreateAll, FailKeeps DEF CreateVolumes, Absent, Torn, Blank
  <1>9. ASSUME NEW v \in DOMAIN Write, WriteVolume(v) PROVE Rest'
    <2>1. stage = Write[v] /\ UNCHANGED <<block0, bak, base, writeStarted>> /\ writeStarted
      BY <1>9, StageNames DEF WriteVolume
    <2>2. block0 = base.block0
      BY <2>1, StageNames, StageSets
    <2>3. CASE Fail
      BY <2>1, <2>2, <2>3, FailKeeps
    <2>4. CASE Advance /\ vols' = Fill(vols, v, Source(v))
      <3>1. v \in MigVols /\ v \in {"bosa", "ri", "fip", "fit"}
        BY StageNames, VolumeSets
      <3>2. \A w \in MigVols : vols'[w] = IF w = v THEN Source(v) ELSE vols[w]
        BY <2>4, <3>1 DEF Fill, TypeOK
      <3>3. Source(v) \notin {Absent, Torn} /\ (v # "fit" => Source(v) = bak[v])
        BY <3>1, MigConstants DEF Source, TypeOK, Parts, Original, Junk, Absent, Torn
      <3>4. \A w \in MigVols : vols'[w] \notin {Absent, Torn}
        BY <2>1, <3>1, <3>2, <3>3, StageNames
      <3>5. /\ v = "bosa" => stage' = "WRITE_RI"
            /\ v = "ri" => stage' = "WRITE_FIP"
            /\ v = "fip" => stage' = "WRITE_FIT"
            /\ v = "fit" => stage' = "VERIFY_BOSA"
        BY <2>1, <2>4, StageNames, AdvanceStep
      <3>6. {"bosa", "ri", "fip"} \subseteq MigVols
        BY VolumeSets
      <3>7. InvBackup'
        BY <2>1, <3>1, <3>5, StageNames
      <3>8. InvVolumes'
        BY <2>1, <3>1, <3>2, <3>3, <3>4, <3>5, <3>6, StageNames
      <3> QED BY <2>1, <2>2, <3>1, <3>5, <3>7, <3>8
    <2> QED BY <1>9, <2>3, <2>4 DEF WriteVolume
  <1>10. ASSUME NEW v \in DOMAIN Verify, VerifyPart(v) PROVE Rest'
    BY <1>10, StageSets, StageNames, AdvanceStep, FailKeeps DEF VerifyPart, Check
  <1>11. CASE VerifyFit
    BY <1>11, StageSets, AdvanceStep, FailKeeps DEF VerifyFit, Check
  <1>12. CASE CommitBl2
    BY <1>12, StageSets, AdvanceStep, FailKeeps DEF CommitBl2
  <1>13. CASE VerifyBl2
    BY <1>13, StageSets, AdvanceStep, FailKeeps DEF VerifyBl2, Check
  <1>14. ASSUME NEW c \in Uploads, Overwrite(c) PROVE Rest'
    BY <1>14 DEF Overwrite
  <1>15. CASE PowerLoss
    BY <1>15, StageSets DEF PowerLoss
  <1>16. CASE UNCHANGED vars
    BY <1>16 DEF vars
  <1> QED
    BY <1>1, <1>2, <1>3, <1>4, <1>5, <1>6, <1>7, <1>8, <1>9, <1>10, <1>11, <1>12,
       <1>13, <1>14, <1>15, <1>16 DEF Next, Step

\* Every step keeps the invariant.
LEMMA InvStep == IInv /\ [Next]_vars => IInv'
  BY TypeStep, SessionStep, RestStep DEF IInv, Rest

\* The inductive invariant holds throughout.
THEOREM Inductive == Spec => []IInv
  BY InvInit, InvStep, PTL DEF Spec

-----------------------------------------------------------------------------
(* The properties.                                                         *)

\* The variables of the migration keep their types, whatever the constants.
THEOREM TypeCorrect == Spec => []TypeOK
  BY TypeInit, TypeStep, PTL DEF Spec

\* COMMIT_BL2 is the last write: the first block does not change before all
\* volumes are there and hold what the vendor areas held at the start.
THEOREM Bl2IsLast == Spec => []Bl2CommittedLast
  <1>1. IInv => Bl2CommittedLast
    BY DEF IInv
  <1> QED BY <1>1, Inductive, PTL

\* In the first migration of a session the board data are in the vendor
\* area, in a volume or in RAM at every stage, and in their volumes under the
\* pinned BL2 at its end, whatever earlier sessions left behind.
THEOREM BoardDataAreKept == Spec => []BoardDataKept
  <1>1. IInv => BoardDataKept
    <2> SUFFICES ASSUME IInv, attempts = 1 PROVE BoardDataKept
      BY DEF BoardDataKept, FirstMigrationPreserves, BoardDataHeld
    <2>1. \A p \in {"bosa", "ri"} : base.raw[p] = Original
      BY DEF IInv, InvSession
    <2>2. FirstMigrationPreserves
      BY <2>1 DEF FirstMigrationPreserves, IInv, InvBlock, InvBackup, InvVolumes, BosaSaved,
         RiSaved, AllSaved, Formatted, Created, BosaWritten, RiWritten, AllWritten, Committed
    <2>3. CASE stage \in Untouched
      <3>1. base.raw = raw
        BY <2>3 DEF IInv, InvUntouched, FlashNow
      <3> QED BY <2>1, <2>2, <3>1 DEF BoardDataKept, BoardDataHeld
    <2>4. CASE stage \in Formatted
      <3>1. bak["bosa"] = Original /\ bak["ri"] = Original
        BY <2>1, <2>4 DEF IInv, InvBackup, BosaSaved, RiSaved, AllSaved
      <3> QED BY <2>2, <3>1 DEF BoardDataKept, BoardDataHeld
    <2>5. CASE stage \notin Untouched \cup Formatted
      <3>1. ~Active
        BY <2>5, StageSets DEF Active, Untouched, Formatted, Created, BosaWritten, RiWritten,
           AllWritten, Committed
      <3> QED BY <2>2, <3>1 DEF BoardDataKept, BoardDataHeld
    <2> QED BY <2>3, <2>4, <2>5
  <1> QED BY <1>1, Inductive, PTL

\* A migration that is reported as NOT_STARTED has left the flash alone.
THEOREM NotStartedIsUntouched == Spec => []NotStartedMeansUntouched
  <1>1. IInv => NotStartedMeansUntouched
    <2> SUFFICES ASSUME IInv, TransactionState = "NOT_STARTED" PROVE base = FlashNow
      BY DEF NotStartedMeansUntouched
    <2>1. stage # "COMPLETE" /\ ~(stage = "FAILED" /\ writeStarted) /\ ~(Active /\ writeStarted)
      BY DEF TransactionState
    <2>2. stage \in WorkStages \cup {"IDLE", "FAILED"}
      BY <2>1 DEF IInv, TypeOK, Stages
    <2>3. stage = "IDLE" => ~writeStarted
      BY DEF IInv, InvUntouched, Untouched
    <2>4. ~writeStarted
      BY <2>1, <2>2, <2>3 DEF Active
    <2> QED BY <2>4 DEF IInv, InvUntouched
  <1> QED BY <1>1, Inductive, PTL

=============================================================================
