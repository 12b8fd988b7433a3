----------------------------- MODULE FipUpdate -----------------------------
(***************************************************************************)
(* The bootloader (FIP) update of cmd/ursusupdate.c: the stage machine that *)
(* ursus_fip_update_step advances, one call per stage, while the WebFailsafe *)
(* loop keeps serving requests between two calls.  It installs an UrsusBoot *)
(* FIP, repairs a missing or invalid one, or replaces UrsusBoot by the     *)
(* pinned Vanilla U-Boot, on two flash layouts:                            *)
(*   UBI    the FIP is the UBI volume "fip"; candidate, backup and         *)
(*          quarantine are the volumes fip.new, fip.old and fip.bad;       *)
(*   STOCK  the FIP lies in the raw 512 KiB block mtd0, between a prefix   *)
(*          and the vendor environment that must survive.                  *)
(*                                                                         *)
(* Between any two stages, and within a stage, the power can fail, a flash *)
(* operation can fail, and the RAM buffer that holds the candidate can be  *)
(* overwritten by another upload: nothing in ursusweb_begin_upload or      *)
(* ursusweb_feed_bytes looks at whether an update is running.              *)
(*                                                                         *)
(* Simplifications.  Every FIP volume takes one slot of space (each is     *)
(* created with URSUS_UBI_FIP_VOL_SIZE).  A UBI change that fails leaves    *)
(* the table as it was or as it was to be, and UBI read-only until the     *)
(* next boot (ubi_ro_mode).  The announce / 250 ms hold of a stage is the  *)
(* interleaving itself.  Percentages, texts and the unused digest are left *)
(* out.                                                                    *)
(***************************************************************************)
EXTENDS UbiVolumes

CONSTANTS
    UrsusFips,      \* FIPs whose BL33 carries the UrsusBoot, board and SoC marks
    NokiaFips,      \* vendor FIPs of this board
    VanillaFips,    \* FIPs with the SHA256 pinned at build time
    ForeignFips,    \* any other FIP that parses and unpacks
    Oversize,       \* FIPs of URSUS_STOCK_FIP_MAX bytes or more
    Uploads,        \* what a client may place in the candidate buffer
    Capacities,     \* slots UBI can offer the FIP volumes, per boot
    MaxFaults       \* bound on the number of failing flash operations

Fips == UrsusFips \cup NokiaFips \cup VanillaFips \cup ForeignFips

\* What a volume or the FIP area of mtd0 can hold.
Contents == Fips \cup {Absent, Blank, Torn, Unopenable}

ASSUME FipsAreData ==
    Fips \cap {Absent, Blank, Torn, Unopenable} = {}

\* The identities exclude one another: the vanilla validator refuses the
\* UrsusBoot mark, the vendor FIP carries neither.
ASSUME IdentitiesDisjoint ==
    /\ UrsusFips \cap NokiaFips = {}
    /\ UrsusFips \cap VanillaFips = {}
    /\ UrsusFips \cap ForeignFips = {}
    /\ NokiaFips \cap VanillaFips = {}
    /\ NokiaFips \cap ForeignFips = {}
    /\ VanillaFips \cap ForeignFips = {}

ASSUME ConstantsTyped ==
    /\ Oversize \subseteq Fips
    /\ Uploads \subseteq Fips \cup {Torn}
    /\ Capacities \subseteq Nat
    /\ MaxFaults \in Nat

VolNames == {"fip", "fip.new", "fip.old", "fip.bad"}
EnvNames == {"ubootenv", "ubootenv2"}
Kinds == {"URSUSBOOT", "VANILLA"}
Modes == {"NORMAL", "REPAIR_MISSING", "REPAIR_INVALID"}

StockStages == {"STOCK_BACKUP", "STOCK_ERASE", "STOCK_WRITE", "STOCK_VERIFY"}
UbiStages == {"UBI_ATTACH", "UBI_STAGE_PREP", "UBI_STAGE_WRITE",
              "UBI_STAGE_VERIFY", "UBI_PROMOTE", "UBI_VERIFY", "UBI_ROLLBACK"}
WorkStages == {"PRECHECK"} \cup StockStages \cup UbiStages
Stages == {"IDLE", "COMPLETE", "FAILED"} \cup WorkStages

VARIABLES
    \* The flash, which survives a power loss.
    layout,         \* "UBI" iff the UBI magic is at URSUS_UBI_BASE
    vols,           \* the FIP volumes of the UBI layout
    env,            \* the environment volumes: "ursus", "zero", Torn or Absent
    mtd0,           \* the stock boot block: [fip, rest]
    bl2Pinned,      \* ursus_ubi_installed_bl2_matches_pin() = 0
    \* The running bootloader.
    ro,             \* ubi->ro_mode
    capacity,       \* slots UBI has for FIP volumes, used ones included
    ram,            \* the candidate buffer at ursus_up.addr
    \* struct ursus_update_ctx
    stage, failedStage, kind, mode,
    invalidRet,     \* "ENODEV": an intact foreign FIP; "broken": any other error
    writeStarted,
    candidate,      \* ursus_up.stock_candidate
    \* Bookkeeping of the model.
    faults,         \* failing flash operations so far
    base            \* the flash when the running transaction was armed

flash == <<layout, vols, env, mtd0, bl2Pinned>>
ctx == <<stage, failedStage, kind, mode, invalidRet, writeStarted, candidate>>
vars == <<flash, ro, capacity, ram, ctx, faults, base>>

NoBuffer == [fip |-> Absent, rest |-> Absent]
Blocks == [fip : Contents, rest : {"vendor", Torn, Absent}]
Erased == [fip |-> Torn, rest |-> Torn]

TypeOK ==
    /\ layout \in {"UBI", "STOCK"}
    /\ vols \in [VolNames -> Contents]
    /\ env \in [EnvNames -> {"ursus", "zero", Torn, Absent}]
    /\ mtd0 \in Blocks
    /\ bl2Pinned \in BOOLEAN
    /\ ro \in BOOLEAN
    /\ capacity \in Nat
    /\ ram \in Fips \cup {Torn}
    /\ stage \in Stages
    /\ failedStage \in {"NONE"} \cup WorkStages
    /\ kind \in Kinds
    /\ mode \in Modes
    /\ invalidRet \in {"none", "ENODEV", "broken"}
    /\ writeStarted \in BOOLEAN
    /\ candidate \in Blocks
    /\ faults \in 0..MaxFaults
    /\ base \in [vols : [VolNames -> Contents],
                 env : [EnvNames -> {"ursus", "zero", Torn, Absent}],
                 mtd0 : Blocks]

-----------------------------------------------------------------------------
(* What the validators decide.                                             *)

\* Bug: only the table of contents is looked at, not what it points to.
ValidKindBug(k, c, stockLimit) ==
    IF k = "VANILLA" THEN ~stockLimit /\ c \in VanillaFips
                     ELSE c \in UrsusFips \cup {Torn} /\ (stockLimit => c \notin Oversize)

\* ursus_fip_validate_kind: 0 iff c is a FIP of the requested kind.
ValidKind(k, c, stockLimit) ==
    IF k = "VANILLA" THEN ~stockLimit /\ c \in VanillaFips
                     ELSE c \in UrsusFips /\ (stockLimit => c \notin Oversize)

\* ursus_fip_validate_current: the identities it accepts in place.
Recognised == UrsusFips \cup NokiaFips

\* Candidate and installed BL2 together, as start and PRECHECK require them.
Acceptable(k, c) ==
    /\ ValidKind(k, c, layout = "STOCK")
    /\ k = "VANILLA" => bl2Pinned

-----------------------------------------------------------------------------
(* The context.                                                            *)

Active == stage \in WorkStages

\* Bug: a failure after the first write is taken for one before it.
TransactionStateBug ==
    CASE stage = "COMPLETE" -> "COMPLETION_PROVEN"
      [] Active /\ writeStarted -> "IN_PROGRESS"
      [] OTHER -> "NOT_STARTED"

\* ursus_fip_update_transaction_state
TransactionState ==
    CASE stage = "COMPLETE" -> "COMPLETION_PROVEN"
      [] stage = "FAILED" /\ writeStarted -> "WRITE_STATE_UNKNOWN"
      [] Active /\ writeStarted -> "IN_PROGRESS"
      [] OTHER -> "NOT_STARTED"

FlashNow == [vols |-> vols, env |-> env, mtd0 |-> mtd0]

\* memset(&ursus_up, 0, sizeof(ursus_up)), after which a start that is
\* accepted sets the stage and the kind.
ClearContext ==
    /\ failedStage' = "NONE"
    /\ mode' = "NORMAL"
    /\ invalidRet' = "none"
    /\ writeStarted' = FALSE
    /\ candidate' = NoBuffer

Go(s) == stage' = s /\ UNCHANGED failedStage

\* Bug: the failing stage is recorded after it was overwritten.
FailBug == stage' = "FAILED" /\ failedStage' = "FAILED"

\* ursus_update_fail_reason
Fail == stage' = "FAILED" /\ failedStage' = stage

\* One flash operation of the stage fails.
Fault == faults < MaxFaults /\ faults' = faults + 1
NoFault == UNCHANGED faults

-----------------------------------------------------------------------------
(* Arming a transaction.                                                   *)

\* ursus_fip_update_start_kind, all checks passed.
Start(k) ==
    /\ ~Active
    /\ Acceptable(k, ram)
    /\ stage' = "PRECHECK"
    /\ kind' = k
    /\ ClearContext
    /\ base' = FlashNow
    /\ UNCHANGED <<flash, ro, capacity, ram, faults>>

\* A start that is refused: the context is cleared before the checks, so
\* the outcome of the previous transaction is forgotten all the same.
StartRejected(k) ==
    /\ ~Active
    /\ \/ ~Acceptable(k, ram) /\ NoFault
       \/ Fault                             \* the flash header does not read
    /\ stage' = "IDLE"
    /\ kind' = "URSUSBOOT"
    /\ ClearContext
    /\ base' = FlashNow
    /\ UNCHANGED <<flash, ro, capacity, ram>>

\* Bug: a candidate that no longer validates is reported, and the stage stays.
PrecheckBug ==
    /\ stage = "PRECHECK"
    /\ Acceptable(kind, ram)
    /\ Go(IF layout = "UBI" THEN "UBI_ATTACH" ELSE "STOCK_BACKUP")
    /\ NoFault
    /\ UNCHANGED <<flash, ro, capacity, ram, kind, mode, invalidRet,
                   writeStarted, candidate, base>>

\* PRECHECK: layout, candidate and BL2 are looked at again.
Precheck ==
    /\ stage = "PRECHECK"
    /\ \/ /\ Acceptable(kind, ram)
          /\ Go(IF layout = "UBI" THEN "UBI_ATTACH" ELSE "STOCK_BACKUP")
          /\ NoFault
       \/ /\ (~Acceptable(kind, ram) /\ NoFault) \/ Fault
          /\ Fail
    /\ UNCHANGED <<flash, ro, capacity, ram, kind, mode, invalidRet,
                   writeStarted, candidate, base>>

-----------------------------------------------------------------------------
(* STOCK layout: one copy of the bootloader, rewritten in place.           *)

\* What fits into the FIP area of the block.
StockCopy == IF ram \in Oversize THEN Torn ELSE ram

\* Bug: whatever the block holds is overwritten.
StockBackupBug ==
    /\ stage = "STOCK_BACKUP"
    /\ candidate' = [fip |-> StockCopy, rest |-> mtd0.rest]
    /\ Go("STOCK_ERASE")
    /\ NoFault
    /\ UNCHANGED <<flash, ro, capacity, ram, kind, mode, invalidRet,
                   writeStarted, base>>

\* STOCK_BACKUP: the new block is the old one with the RAM buffer over its
\* FIP area.  The buffer is copied as it is at this moment, as many bytes of
\* it as the FIP had that was armed.
StockBackup ==
    /\ stage = "STOCK_BACKUP"
    /\ \/ /\ mtd0.fip \in Recognised \ Oversize
          /\ candidate' = [fip |-> StockCopy, rest |-> mtd0.rest]
          /\ Go("STOCK_ERASE")
          /\ NoFault
       \/ /\ (mtd0.fip \notin Recognised \ Oversize /\ NoFault) \/ Fault
          /\ Fail
          /\ UNCHANGED candidate
    /\ UNCHANGED <<flash, ro, capacity, ram, kind, mode, invalidRet,
                   writeStarted, base>>

\* STOCK_ERASE: the single copy is gone until the next stage has written it.
StockErase ==
    /\ stage = "STOCK_ERASE"
    /\ writeStarted' = TRUE
    /\ \/ mtd0' = Erased /\ Go("STOCK_WRITE") /\ NoFault
       \/ mtd0' \in {mtd0, Erased} /\ Fail /\ Fault
    /\ UNCHANGED <<layout, vols, env, bl2Pinned, ro, capacity, ram, kind, mode,
                   invalidRet, candidate, base>>

StockWrite ==
    /\ stage = "STOCK_WRITE"
    /\ \/ mtd0' = candidate /\ Go("STOCK_VERIFY") /\ NoFault
       \/ mtd0' \in {mtd0, Erased} /\ Fail /\ Fault
    /\ UNCHANGED <<layout, vols, env, bl2Pinned, ro, capacity, ram, kind, mode,
                   invalidRet, writeStarted, candidate, base>>

\* STOCK_VERIFY compares the block with the candidate that was built.
StockVerify ==
    /\ stage = "STOCK_VERIFY"
    /\ \/ /\ mtd0 = candidate
          /\ Go("COMPLETE")
          /\ candidate' = NoBuffer
          /\ NoFault
       \/ /\ (mtd0 # candidate /\ NoFault) \/ Fault
          /\ Fail
          /\ UNCHANGED candidate
    /\ UNCHANGED <<flash, ro, capacity, ram, kind, mode, invalidRet,
                   writeStarted, base>>

-----------------------------------------------------------------------------
(* UBI layout: stage, verify, promote by rename, verify, roll back.         *)

\* ursus_ubi_classify_active_fip without a failing operation.
ClassifiedMode(c) ==
    CASE c = Absent -> "REPAIR_MISSING"
      [] c \in Recognised -> "NORMAL"
      [] OTHER -> "REPAIR_INVALID"

ClassifiedRet(c) ==
    CASE c = Absent \/ c \in Recognised -> "none"
      [] c \in VanillaFips \cup ForeignFips -> "ENODEV"
      [] OTHER -> "broken"

\* UBI_ATTACH: attach (or reuse the attachment) and classify the active
\* fip.  A volume that does not open or read at this moment is called
\* invalid; only an UrsusBoot candidate may repair.
UbiAttach ==
    /\ stage = "UBI_ATTACH"
    /\ \/ /\ Fail                           \* attach, or the map of the buffer
          /\ Fault
          /\ UNCHANGED <<mode, invalidRet>>
       \/ /\ \/ /\ mode' = ClassifiedMode(vols["fip"])
                /\ invalidRet' = ClassifiedRet(vols["fip"])
                /\ NoFault
             \/ /\ Exists(vols, "fip")
                /\ mode' = "REPAIR_INVALID"
                /\ invalidRet' = "broken"
                /\ Fault
          /\ IF mode' # "NORMAL" /\ kind # "URSUSBOOT"
             THEN Fail ELSE Go("UBI_STAGE_PREP")
    /\ UNCHANGED <<flash, ro, capacity, ram, kind, writeStarted, candidate, base>>

\* Bug: a repair clears fip.old away as a normal update does.
StaleAllBug == {"fip.new", "fip.old", "fip.bad"}

\* Bug: the quarantine of an earlier repair is left in place.
StaleKeepsBadBug == IF mode = "NORMAL" THEN {"fip.new", "fip.old"} ELSE {"fip.new"}

\* The volumes UBI_STAGE_PREP clears away, in this order: fip.new, then
\* fip.old in normal mode only, then fip.bad.
Stale == IF mode = "NORMAL" THEN {"fip.new", "fip.old", "fip.bad"}
                            ELSE {"fip.new", "fip.bad"}

\* ursus_ubi_fip_new_headroom: avail >= need.
Headroom(vt) == Cardinality({v \in VolNames : Exists(vt, v)}) < capacity

\* No room beside an active fip that is broken (not merely foreign): it is
\* removed too, and the repair goes on as if it had been missing.
Reclaim ==
    /\ mode = "REPAIR_INVALID"
    /\ invalidRet # "ENODEV"
    /\ ~Headroom(Drop(vols, Stale))

PrepDrops == IF Reclaim THEN Stale \cup {"fip"} ELSE Stale
Cleared == Drop(vols, PrepDrops)

\* The tables UBI_STAGE_PREP passes through.
PrepImages ==
    {Drop(vols, D) : D \in {{}, {"fip.new"}, Stale \ {"fip.bad"}, Stale, PrepDrops}}
    \cup {t \in {Create(Cleared, "fip.new")} : Headroom(Cleared)}

\* UBI_STAGE_PREP.  The results of the removals of stale volumes are
\* ignored; one that fails has made UBI read-only, so "ubi create" fails.
StagePrep ==
    /\ stage = "UBI_STAGE_PREP"
    /\ writeStarted' = TRUE
    /\ \/ /\ ~ro
          /\ Headroom(Cleared)
          /\ vols' = Create(Cleared, "fip.new")
          /\ mode' = IF Reclaim THEN "REPAIR_MISSING" ELSE mode
          /\ Go("UBI_STAGE_WRITE")
          /\ NoFault
          /\ UNCHANGED ro
       \/ /\ ~ro
          /\ ~Headroom(Cleared)             \* UBI_NO_SPACE_FOR_FIP_NEW
          /\ vols' = Cleared
          /\ mode' = IF Reclaim THEN "REPAIR_MISSING" ELSE mode
          /\ Fail
          /\ NoFault
          /\ UNCHANGED ro
       \/ /\ ro
          /\ Fail
          /\ NoFault
          /\ UNCHANGED <<vols, mode, ro>>
       \/ /\ ~ro
          /\ vols' \in PrepImages
          /\ mode' \in {mode} \cup {m \in {"REPAIR_MISSING"} : Reclaim}
          /\ Fail
          /\ Fault
          /\ ro' = TRUE
    /\ UNCHANGED <<layout, env, mtd0, bl2Pinned, capacity, ram, kind, invalidRet,
                   candidate, base>>

\* UBI_STAGE_WRITE: "ubi write" of the buffer as it is now.
StageWrite ==
    /\ stage = "UBI_STAGE_WRITE"
    /\ \/ /\ ~ro
          /\ vols' = Fill(vols, "fip.new", ram)
          /\ Go("UBI_STAGE_VERIFY")
          /\ NoFault
          /\ UNCHANGED ro
       \/ /\ vols' \in {vols, Fill(vols, "fip.new", Torn)}
          /\ Fail
          /\ Fault
          /\ ro' = TRUE
    /\ UNCHANGED <<layout, env, mtd0, bl2Pinned, capacity, ram, kind, mode,
                   invalidRet, writeStarted, candidate, base>>

\* UBI_STAGE_VERIFY: fip.new must validate and equal the buffer.
StageVerify ==
    /\ stage = "UBI_STAGE_VERIFY"
    /\ LET staged == vols["fip.new"]
           good == ValidKind(kind, staged, FALSE) /\ staged = ram
       IN \/ good /\ Go("UBI_PROMOTE") /\ NoFault
          \/ ~good /\ Fail /\ NoFault
          \/ Fail /\ Fault
    /\ UNCHANGED <<flash, ro, capacity, ram, kind, mode, invalidRet, writeStarted,
                   candidate, base>>

\* Bug: a normal update displaces the active fip to fip.bad.
PromotedBug ==
    IF mode = "REPAIR_MISSING" THEN Rename(vols, "fip.new", "fip")
                               ELSE Switch(vols, "fip", "fip.new", "fip.bad")

\* The table after the promotion the mode calls for.
Promoted ==
    CASE mode = "REPAIR_MISSING" -> Rename(vols, "fip.new", "fip")
      [] mode = "REPAIR_INVALID" -> Switch(vols, "fip", "fip.new", "fip.bad")
      [] OTHER                   -> Switch(vols, "fip", "fip.new", "fip.old")

\* "ubi rename" wants the new name unused; the atomic switch opens both
\* volumes for writing.
CanPromote ==
    IF mode = "REPAIR_MISSING" THEN ~Exists(vols, "fip")
                               ELSE Opens(vols, "fip") /\ Opens(vols, "fip.new")

Promote ==
    /\ stage = "UBI_PROMOTE"
    /\ \/ /\ CanPromote
          /\ vols' = Promoted
          /\ Go("UBI_VERIFY")
          /\ NoFault
          /\ UNCHANGED ro
       \/ /\ ~CanPromote
          /\ Fail
          /\ NoFault
          /\ UNCHANGED <<vols, ro>>
       \/ /\ CanPromote
          /\ vols' \in {vols, Promoted}
          /\ Fail
          /\ Fault
          /\ ro' = TRUE
    /\ UNCHANGED <<layout, env, mtd0, bl2Pinned, capacity, ram, kind, mode,
                   invalidRet, writeStarted, candidate, base>>

\* ursus_vanilla_reset_env zeroes ubootenv, then ubootenv2, and stops at the
\* first that is missing or cannot be written and read back.
EnvReset == [e \in EnvNames |-> "zero"]
EnvComplete == \A e \in EnvNames : env[e] # Absent
EnvAbandoned ==
    IF env["ubootenv"] = Absent THEN env ELSE [env EXCEPT !["ubootenv"] = "zero"]
EnvImages ==
    {env} \cup {[env EXCEPT !["ubootenv"] = c] : c \in {Torn, "zero"}}
          \cup {[env EXCEPT !["ubootenv"] = "zero", !["ubootenv2"] = c] : c \in {Torn, "zero"}}

\* UBI_VERIFY when the promoted fip reads back and validates.
VerifiedOk ==
    /\ ValidKind(kind, vols["fip"], FALSE)
    /\ \/ /\ kind = "URSUSBOOT"
          /\ Go("COMPLETE")
          /\ NoFault
          /\ UNCHANGED <<env, ro>>
       \/ /\ kind = "VANILLA"
          /\ EnvComplete
          /\ env' = EnvReset
          /\ Go("COMPLETE")
          /\ NoFault
          /\ UNCHANGED ro
       \/ /\ kind = "VANILLA"
          /\ ~EnvComplete
          /\ env' = EnvAbandoned
          /\ Go("UBI_ROLLBACK")
          /\ NoFault
          /\ UNCHANGED ro
       \/ /\ kind = "VANILLA"
          /\ EnvComplete
          /\ env' \in EnvImages
          /\ Go("UBI_ROLLBACK")
          /\ Fault
          /\ ro' \in BOOLEAN
    /\ UNCHANGED vols

\* UBI_VERIFY when it does not: a fip created by a repair is quarantined,
\* otherwise there is a previous one to go back to.
VerifiedBad ==
    /\ \/ /\ mode = "REPAIR_MISSING"
          /\ vols' \in {vols, Rename(Drop(vols, {"fip.bad"}), "fip", "fip.bad")}
          /\ ro' = (vols' = vols)           \* the quarantine failed as well
          /\ Fail
       \/ /\ mode # "REPAIR_MISSING"
          /\ Go("UBI_ROLLBACK")
          /\ UNCHANGED <<vols, ro>>
    /\ Fault
    /\ UNCHANGED env

UbiVerify ==
    /\ stage = "UBI_VERIFY"
    /\ VerifiedOk \/ VerifiedBad
    /\ UNCHANGED <<layout, mtd0, bl2Pinned, capacity, ram, kind, mode, invalidRet,
                   writeStarted, candidate, base>>

\* Bug: every rollback looks for the previous fip in fip.old.
RolledBackBug == Switch(Drop(vols, {"fip.bad"}), "fip", "fip.old", "fip.bad")

\* The table after the rollback the mode calls for.
RolledBack ==
    IF mode = "REPAIR_INVALID"
    THEN Switch(vols, "fip", "fip.bad", "fip.new")
    ELSE Switch(Drop(vols, {"fip.bad"}), "fip", "fip.old", "fip.bad")

Rollback ==
    /\ stage = "UBI_ROLLBACK"
    /\ \/ ~ro /\ vols' = RolledBack /\ NoFault /\ UNCHANGED ro
       \/ ro /\ NoFault /\ UNCHANGED <<vols, ro>>
       \/ ~ro /\ vols' \in {vols, RolledBack} /\ Fault /\ ro' = TRUE
    /\ Fail
    /\ UNCHANGED <<layout, env, mtd0, bl2Pinned, capacity, ram, kind, mode,
                   invalidRet, writeStarted, candidate, base>>

-----------------------------------------------------------------------------
(* The environment.                                                        *)

\* Another upload writes into the candidate buffer, at any time.
Overwrite(c) ==
    /\ ram' = c
    /\ UNCHANGED <<flash, ro, capacity, ctx, faults, base>>

\* What the flash can look like if the power fails during the stage that is
\* due, its handler having got so far.
CrashVols ==
    CASE stage = "UBI_STAGE_PREP" /\ ~ro -> {vols} \cup PrepImages
      [] stage = "UBI_STAGE_WRITE" -> {vols, Fill(vols, "fip.new", Torn)}
      [] stage = "UBI_PROMOTE" /\ CanPromote -> {vols, Promoted}
      [] stage = "UBI_ROLLBACK" /\ ~ro -> {vols, RolledBack}
      [] OTHER -> {vols}

CrashEnv ==
    IF stage = "UBI_VERIFY" /\ kind = "VANILLA" /\ EnvComplete THEN EnvImages ELSE {env}

CrashBlocks ==
    IF stage \in {"STOCK_ERASE", "STOCK_WRITE"} THEN {mtd0, Erased} ELSE {mtd0}

\* Power loss or reset; UrsusBoot runs again, from flash or over UART.  In
\* between OpenWrt may have grown or shrunk rootfs_data.
PowerLoss ==
    /\ vols' \in CrashVols
    /\ env' \in CrashEnv
    /\ mtd0' \in CrashBlocks
    /\ capacity' \in {n \in Capacities :
                         Cardinality({v \in VolNames : vols'[v] # Absent}) <= n}
    /\ ro' = FALSE
    /\ ram' = Torn
    /\ stage' = "IDLE"
    /\ kind' = "URSUSBOOT"
    /\ ClearContext
    /\ base' = [vols |-> vols', env |-> env', mtd0 |-> mtd0']
    /\ UNCHANGED <<layout, bl2Pinned, faults>>

-----------------------------------------------------------------------------
Init ==
    /\ layout \in {"UBI", "STOCK"}
    /\ vols \in [VolNames -> Contents]
    /\ env \in [EnvNames -> {"ursus", Absent}]
    /\ mtd0 \in [fip : Recognised \ Oversize, rest : {"vendor"}]
    /\ bl2Pinned \in BOOLEAN
    /\ ro = FALSE
    /\ capacity \in {n \in Capacities :
                        Cardinality({v \in VolNames : Exists(vols, v)}) <= n}
    /\ ram = Torn
    /\ stage = "IDLE"
    /\ failedStage = "NONE"
    /\ kind = "URSUSBOOT"
    /\ mode = "NORMAL"
    /\ invalidRet = "none"
    /\ writeStarted = FALSE
    /\ candidate = NoBuffer
    /\ faults = 0
    /\ base = FlashNow

\* ursus_fip_update_step
Step ==
    \/ Precheck
    \/ StockBackup \/ StockErase \/ StockWrite \/ StockVerify
    \/ UbiAttach \/ StagePrep \/ StageWrite \/ StageVerify
    \/ Promote \/ UbiVerify \/ Rollback

Next ==
    \/ \E k \in Kinds : Start(k) \/ StartRejected(k)
    \/ Step
    \/ \E c \in Uploads : Overwrite(c)
    \/ PowerLoss

Spec == Init /\ [][Next]_vars

\* The WebFailsafe loop and ursus_update_run both call the step for as long
\* as the update is active.
Fairness == WF_vars(Step)

-----------------------------------------------------------------------------
(* Properties.                                                             *)

\* BL2 finds a complete FIP in the volume it boots from.
Intact(c) == c \in Fips

\* The active fip was called broken at UBI_ATTACH, or a fip this very
\* transaction created is put away again: the two cases in which
\* ursus_fip_update_step gives a bootable fip up.
GivesUpFip ==
    \/ mode = "REPAIR_INVALID" /\ invalidRet = "broken"
    \/ mode = "REPAIR_MISSING"

\* No step of the update, and no power loss during one, takes the device
\* from a bootable "fip" to none, those two repairs excepted: staging,
\* promotion by rename and rollback in ursus_fip_update_step always leave
\* either the old or a verified FIP under the name BL2 boots.
BootKept ==
    [][Intact(vols["fip"]) /\ ~GivesUpFip => Intact(vols'["fip"])]_vars

\* What COMPLETION_PROVEN (ursus_fip_update_transaction_state) stands for on
\* UBI: fip is of the kind asked for although the RAM buffer may have been
\* overwritten at any time; a normal update kept the previous FIP as
\* fip.old, a repair kept the fip.old it found; Vanilla replaced a
\* recognised FIP only, over the pinned BL2, with both environments reset.
CompletionProven ==
    stage = "COMPLETE" /\ layout = "UBI" =>
        /\ ValidKind(kind, vols["fip"], FALSE)
        /\ vols["fip.old"] = base.vols[IF mode = "NORMAL" THEN "fip" ELSE "fip.old"]
        /\ kind = "VANILLA" =>
              mode = "NORMAL" /\ bl2Pinned /\ env = EnvReset
                /\ vols["fip.old"] \in Recognised

\* A rollback that UBI carried out puts the very FIP back under "fip" that
\* was active when the transaction was armed (stage UBI_ROLLBACK; the
\* renames of the promotion and of the rollback must mirror each other).
RollbackRestores ==
    stage = "FAILED" /\ failedStage = "UBI_ROLLBACK" /\ ~ro =>
        vols["fip"] = base.vols["fip"]

\* "An existing fip.old is preserved" by both repairs, in every stage of
\* them, through failure and rollback.
RepairKeepsOld ==
    mode # "NORMAL" => vols["fip.old"] = base.vols["fip.old"]

\* An intact foreign FIP that was recognised as such (-ENODEV) is still on
\* the flash whatever the repair that displaces it comes to.
ForeignKept ==
    mode # "NORMAL" /\ invalidRet = "ENODEV" =>
        base.vols["fip"] \in {vols["fip"], vols["fip.bad"]}

\* A repair loses nothing that could still be needed: neither the fallback
\* of an earlier update nor an intact FIP of another make.
RepairLosesNothing == RepairKeepsOld /\ ForeignKept

\* ubi_rename_volumes does not look for clashes, and UBI refuses to attach a
\* table with two volumes of one name: the name each switch of UBI_PROMOTE
\* and UBI_ROLLBACK gives to the displaced volume must be free by then.
NamesStayDistinct ==
    /\ stage = "UBI_PROMOTE" =>
          ~Exists(vols, CASE mode = "REPAIR_MISSING" -> "fip"
                          [] mode = "REPAIR_INVALID" -> "fip.bad"
                          [] OTHER -> "fip.old")
    /\ stage = "UBI_ROLLBACK" =>
          ~Exists(vols, IF mode = "REPAIR_INVALID" THEN "fip.new" ELSE "fip.bad")

\* A transaction reported as NOT_STARTED has not changed the flash: the
\* operator may retry or reboot without looking (write_started is raised
\* before the first removal or erase).
NotStartedMeansUntouched ==
    TransactionState = "NOT_STARTED" => base = FlashNow

\* The stock boot block is only ever rewritten over a FIP of this board
\* (STOCK_BACKUP refuses any other), and a completed rewrite has kept the
\* prefix and the vendor environment around it.
StockBlockRespected ==
    /\ mtd0 # base.mtd0 => base.mtd0.fip \in Recognised
    /\ stage = "COMPLETE" /\ layout = "STOCK" => mtd0.rest = base.mtd0.rest

\* Every transaction that is armed comes to an end: the web page polls until
\* ursus_fip_update_active() is false.
Terminates == Active ~> ~Active

-----------------------------------------------------------------------------
(* The update as a transaction on what BL2 boots, on the UBI layout.        *)

BootImage(c) == IF c \in Fips THEN c ELSE Absent

Slot == INSTANCE BootSlot WITH
    Images  <- Fips,
    NoImage <- Absent,
    slot    <- BootImage(vols["fip"]),
    phase   <- IF TransactionState # "NOT_STARTED" THEN TransactionState
               ELSE IF Active THEN "ARMED" ELSE "IDLE",
    old     <- BootImage(base.vols["fip"]),
    goal    <- {c \in Fips : ValidKind(kind, c, FALSE)},
    safe    <- ~GivesUpFip

\* The stages of ursus_fip_update_step implement BootSlot: through every
\* failure and power loss the name "fip" yields the old FIP or one of the
\* kind asked for, the page's transaction state says COMPLETION_PROVEN only
\* over the latter and NOT_STARTED only over an untouched slot, and only a
\* repair that gives a broken fip up may leave nothing to boot.
ImplementsBootSlot == Slot!Spec

-----------------------------------------------------------------------------
(* The inductive invariant: what holds between two stages.                  *)

\* Nothing has been written yet.
UntouchedStages == {"IDLE", "PRECHECK", "STOCK_BACKUP", "STOCK_ERASE",
                    "UBI_ATTACH", "UBI_STAGE_PREP"}
InvUntouched ==
    /\ (stage \in UntouchedStages \/ (stage = "FAILED" /\ ~writeStarted)) =>
          base = FlashNow /\ ~writeStarted
    /\ stage \in WorkStages \ UntouchedStages => writeStarted

\* A stage only runs on its own layout, and on UBI for Vanilla, over the
\* pinned BL2.
InvLayout ==
    /\ stage \in UbiStages => layout = "UBI"
    /\ stage \in StockStages => layout = "STOCK"
    /\ Active /\ kind = "VANILLA" => layout = "UBI" /\ bl2Pinned

\* What the classification of UBI_ATTACH goes on to mean.
InvMode ==
    /\ stage \in {"IDLE", "PRECHECK", "UBI_ATTACH"} \cup StockStages => mode = "NORMAL"
    /\ stage \in UbiStages \ {"UBI_ATTACH"} /\ mode = "NORMAL" => base.vols["fip"] \in Recognised
    /\ stage = "UBI_STAGE_PREP" /\ mode = "REPAIR_MISSING" => base.vols["fip"] = Absent
    /\ stage \in UbiStages \ {"UBI_ATTACH"} /\ kind = "VANILLA" => mode = "NORMAL"
    /\ mode # "NORMAL" /\ invalidRet = "ENODEV" =>
          mode = "REPAIR_INVALID" /\ base.vols["fip"] \in VanillaFips \cup ForeignFips
    /\ mode = "REPAIR_INVALID" => invalidRet # "none"

\* From the clearing of the stale volumes to the promotion.
StagingStages == {"UBI_STAGE_WRITE", "UBI_STAGE_VERIFY", "UBI_PROMOTE"}
InvStaging ==
    stage \in StagingStages =>
        /\ vols["fip"] = IF mode = "REPAIR_MISSING" THEN Absent ELSE base.vols["fip"]
        /\ vols["fip.bad"] = Absent
        /\ mode = "NORMAL" => vols["fip.old"] = Absent
        /\ stage = "UBI_PROMOTE" => ValidKind(kind, vols["fip.new"], FALSE)

\* From the promotion on.
InvPromoted ==
    stage \in {"UBI_VERIFY", "UBI_ROLLBACK"} =>
        /\ ValidKind(kind, vols["fip"], FALSE)
        /\ vols["fip.new"] = Absent
        /\ mode = "NORMAL" => vols["fip.old"] = base.vols["fip"] /\ vols["fip.bad"] = Absent
        /\ mode = "REPAIR_INVALID" => vols["fip.bad"] = base.vols["fip"]
        /\ stage = "UBI_ROLLBACK" => mode # "REPAIR_MISSING"

IInv ==
    /\ TypeOK
    /\ InvUntouched
    /\ InvLayout
    /\ InvMode
    /\ InvStaging
    /\ InvPromoted
    /\ CompletionProven
    /\ RollbackRestores
    /\ RepairKeepsOld
    /\ ForeignKept

-----------------------------------------------------------------------------
(* What the repository says of the update and the code does not keep.       *)

\* cmd/ursusupdate.c, UBI_VERIFY: "Vanilla must not boot with UrsusBoot's
\* environment".  Whenever no update is running, a reboot that finds Vanilla
\* in fip finds the environment volumes reset.
VanillaHasOwnEnv ==
    ~Active /\ vols["fip"] \in VanillaFips => \A e \in EnvNames : env[e] # "ursus"

\* README, the update path lets WebFailsafe "validate, write and read back the
\* bootloader": what a completed STOCK update leaves in mtd0 is an UrsusBoot
\* FIP of this board.
StockInstallsValidated ==
    stage = "COMPLETE" /\ layout = "STOCK" => ValidKind(kind, mtd0.fip, TRUE)

=============================================================================
