# UrsusBoot: a TLA+ model of booting, recovery, flashing and uploads

UrsusBoot is a recovery bootloader for Airoha AN7581 routers: OpenWrt's U-Boot
(vendored under `src/u-boot`) plus a layer of its own in `cmd/ursus*.c`. That
layer serves a web page ("WebFailsafe"), takes images over HTTP into RAM and
rewrites the NAND while the page keeps being served. This directory holds TLA+
modules of that layer, TLC configurations that check them on small instances,
and TLAPS proofs that hold for every value of the constants.

Paths below are relative to `src/src/u-boot` unless they begin with another
top-level name of the repository.

## 1. Inventory

Everything runs on one core without threads. Concurrency comes from three
sources: lwIP callbacks of several TCP connections, operations that advance one
stage per pass of the main loop while requests are served in between, and the
power switch.

| Component | State | Operations | Hard because |
|---|---|---|---|
| **FIP update** `cmd/ursusupdate.c` | `ursus_up` (stage, kind, repair mode, `write_started`), volumes `fip`, `fip.new`, `fip.old`, `fip.bad`, `ubootenv*`, boot block `mtd0` | `ursus_fip_update_start`, `_step` | leftovers of earlier runs, power loss between renames, full UBI, buffer overwritten meanwhile |
| **OpenWrt update** `cmd/ursusubi.c` 640-1030 | `ursus_upd`, volumes `fit`, `fit.new`, `fit.old`, `rootfs_data` and their sizes | `ursus_ubi_update_start`, `_step`, `ursus_ubi_reset_settings` | space arithmetic, two renames, settings kept or reset |
| **UBI boot** `cmd/ursusubi.c` 380-594 | – | `ursus_ubi_probe`, `ursus_ubi_boot` | which volume is taken after an interruption |
| **Migration** `cmd/ursusubi.c` 1033-1530 | `ursus_mig`, RAM copies of bosa/ri/fip, the whole NAND | 17 stages | the data exist in RAM only for a while; retries |
| **Uploads** `cmd/ursusweb.c` 1919-2223, 2416-2589 | five sessions, five flags, three staging windows, the connections | begin, chunk, body, discard | late and duplicated chunks, shared windows |
| **Image validation** `cmd/ursusweb.c` 442-1089, `ursusupdate.c` 287-559 | `ursus_img`, `ursus_expert_img` | FIP, FIT, tar, metadata | parsers on untrusted bytes |
| **Main loop** `cmd/ursusweb.c` 2662-2888 | pending flags, reboot timers, `ursus_current_layout` | serve, step, reboot, boot once | flags and operation contexts can disagree |
| **Console, HTTP replies** `cmd/ursusweb.c` 1821-1917, 2046-2160 | pending command, shared reply buffers | defer, run, send | connection reuse, torn replies |
| **Stock-layout install** `cmd/ursusweb.c` 1323-1537 | raw partitions | `ursus_factory_install`, `ursus_factory_reset_settings` | power loss between root and kernel |
| **Dispatch, stock bridge** `cmd/ursusdispatch.c`, `cmd/ursusstock.c` | sticky recovery latch | button, layout, slot | every return must end in recovery |
| **LED, GPIO, page, build scripts** | – | – | nothing to interleave |

How they interact: the HTTP handlers of the uploads fill a window and raise a
flag; a confirmed request arms one of the three flash operations on that
window; the main loop calls the operation's step function until it is no
longer active; the page polls stage and transaction state. All operations share
the UBI device, and all of them share the RAM windows with later uploads.
`PROJECT.json` lists the hazards line by line with the properties that watch them.

What makes each component correct:

* FIP update: the name BL2 boots is never without a complete FIP; a rollback is
  exact; nothing that could still be needed is deleted; completion means what
  the page says.
* OpenWrt update: an admitted update has its space; staged mode keeps an image
  to load; settings survive when asked for.
* Migration: BL2 last; the board data are never lost.
* Uploads: a flag speaks of the bytes in RAM.
* Main loop: operations that must not meet do not; what was accepted comes to
  an end; what was interrupted is not resumed blindly.
* Console and replies: the output of a command reaches the connection that
  asked for it, and every reply ends.
* Boot chain: nothing is started over a root file system that is not its own,
  and whatever comes back from a boot ends in recovery.

## 2. Modules

| Module | Models |
|---|---|
| `UbiVolumes` | the volume table and what `ubi check/create/remove/write/rename` and `ursus_ubi_atomic_switch` do to it |
| `BootSlot` | abstract: what an update of one boot image promises, whatever its stages |
| `FipUpdate` | `ursusupdate.c`: one action per stage, arming, refusal, overwriting of the buffer, power loss |
| `FipUpdateProofs` | theorems about `FipUpdate` |
| `FitUpdate` | the OpenWrt update, the settings reset and the choice of the boot volume |
| `FitUpdateProofs` | theorems about `FitUpdate` |
| `SharedUbi` | both updates and the settings reset together, over one UBI with space and volume ids |
| `SharedUbiProofs` | theorems about `SharedUbi` |
| `Migration` | the migration from the vendor layout |
| `MigrationProofs` | theorems about `Migration` |
| `Uploads` | uploads, staging windows, boot-once |
| `UploadsProofs` | theorems about `Uploads` |
| `WebLoop` | the main loop: gates, pending flags, reboot timers, what ends the loop and what comes behind it |
| `WebLoopProofs` | theorems about `WebLoop` |
| `WebConsole` | HTTP replies, connections and the deferred console command |
| `WebConsoleProofs` | theorems about `WebConsole` |
| `BootChain` | dispatch, stock bridge, layout probe, the stock-layout installation and its settings reset, the prompt |
| `BootChainProofs` | theorems about `BootChain` |
| `MC*` | instances for TLC |

`FipUpdate` and `FitUpdate` have the stages of the two updates in full, each
alone on the device. `SharedUbi` composes them and keeps of each what the other
can notice: the stages that change the volume table, the space and the ids.
`WebLoop` keeps of the three operations only what its gates can tell apart.
`BootSlot` is implemented by `FipUpdate` and by `FitUpdate`.

### Correspondence with the code

* A **stage machine** is the variable `stage`; each `case` of the step function
  is one action, executed whole. The announcement of a stage and the hold of
  250 or 350 ms before it runs are the interleaving points themselves and have
  no action of their own. `Active` stands for the `active` flag, which the code
  keeps equal to "stage is a working stage".
* **Contents** of a volume or buffer are model values by identity: which FIP,
  which image, `Torn` (does not read or parse), `Blank`, `Absent`, and in
  `FitUpdate` `Hybrid` (good header, damaged body). The validators decide on
  the identity; they are translated by what they accept (`ValidKind`,
  `Recognised`, `HeaderOk`, `Verdicts`).
* **Faults**: every flash operation may fail, at most `MaxFaults` times per
  behaviour, leaving any of the intermediate states the handler passes through
  (`PrepImages`, `ResetImages`, `EnvImages`). A failed UBI change leaves UBI
  read-only until it is attached again, as `ubi_ro_mode` does. `SharedUbi` and
  `BootChain` put no bound on faults.
* **Power loss** may come between stages and inside the stage that is due
  (`CrashVols`, `CrashEnv`, `CrashBlocks`, `CrashTables`, `CrashImages`); RAM
  and contexts are then reset, flash stays. In `BootChain` an erase and a raw
  write have a beginning and an end of their own.
* **Overwrite**: no upload is refused while an operation runs, so the buffer an
  operation reads may change at any time between its stages.
* `base` remembers the flash when the operation was armed; `left`, `begun`,
  `taken`, `heir`, `stale`, `split` and `torn` are bookkeeping of the
  same sort, for properties only.
* In `Uploads` a cell of a window holds the *generation* (the random token of
  an upload) whose byte it is; `wrote` and `seen` are bookkeeping. A request
  that is refused changes nothing and has no action. An UrsusBoot FIP is the
  one kind whose validator does not hash every byte, so its verdict about a
  mixed file is a free choice.
* **Space** is what `ubi->avail_pebs` counts. An attach that finds corrupted
  blocks may leave the bad-block reserve short, with nothing available
  (`drivers/mtd/ubi/eba.c:1452`), and removing a volume fills the reserve first
  (`cmd/ubi.c:300`). `FitUpdate` starts with any shortage up to `BebLevel`
  (`Spare` is then negative); in `SharedUbi` blocks are lost between operations
  and at PRECHECK's attach (`Corrupted`, `lost`). `Avail` is what is left in
  both.
* In `WebLoop` **one pass** is `PassBegins` (the UART), any number of requests
  and callbacks while lwIP delivers, then `RebootStops` or `StepOps`, which
  calls every operation that is pending and active. A connection appears only
  if its release ends the loop. Leaving the loop removes the interface, which
  makes lwIP abort the connections (`ExitLoop`). `img` is the verdict on the
  window that firmware and boot-once share: a UBI image, a stock-layout image or
  an initramfs, never two of them, since beginning an upload of either kind
  clears both (`ursusweb.c:1973`). Every gate that asks for an image asks for
  its own kind.
* In `WebConsole` a connection is the *place* it lives in; a freed place is
  given to the next connection, as malloc and the pool of PCBs do. Lengths are
  counted in pieces; `SndBuf` is what lwIP takes at once.
* In `SharedUbi` volume ids are what the code can tell apart: below 6, the 6
  that `rootfs_data` is created with, and above. A volume without a given id
  takes the lowest free one.
* In `BootChain` the flash of the stock layout is the bootloader, the kernel
  window at 0xc0000 and the rest. The rest is one value: the vendor's, a UBI
  device with or without a whole root, erased, or something in between. An erase
  goes through `ursus-ubi-data`, `-rootfs1` and the slave slot in this order, so
  one that was cut may have left the slave slot whole (`root = "slave"`); the
  stock bridge looks at the slot it was asked for and at no other. The prompt
  offers the commands of this repository only.

`Start` of `FitUpdate` and `Migration` assumes that the image in RAM is the
validated one. That is what `ValidatedIsStaged` of `Uploads` shows.

### The abstract slot

`BootSlot` has one name to boot from, a transaction that is armed, writes any
number of times and ends, and the transaction state the page shows. Its terms:
while the transaction is `safe` a filled slot never becomes empty; what it
yields is the old image or one the transaction may complete with;
`COMPLETION_PROVEN` is said only over the latter, and a transaction that is
reported as not started has not touched the slot. `FipUpdate` maps the slot to
the volume `fip` and is safe unless a broken fip is given up; `FitUpdate` maps
it to whatever `ursus_ubi_boot` would load and is safe in staged mode over a
`fit` that loads. Both are checked as a PROPERTY (`ImplementsBootSlot`).

## 3. Runs

| Run | Configuration | Expected | Question |
|---|---|---|---|
| `fip_ubi` | `FipUbi.cfg` | pass | all safety of the FIP update on UBI; it implements `BootSlot` |
| `fip_live` | `FipLive.cfg` | pass | safety on the vendor layout; every update ends, on both layouts |
| `fit_ubi` | `FitUbi.cfg` | pass | safety of the OpenWrt update and of the space; it implements `BootSlot` |
| `fit_fallback` | `FitFallback.cfg` | violation | a failed staged update leaves an image to load |
| `shared_ubi` | `SharedUbi.cfg` | pass | do the two updates and the reset take each other's room |
| `mig_stock` | `MigStock.cfg` | pass | BL2 last, board data preserved, it ends |
| `mig_retry` | `MigRetry.cfg` | violation | every completed migration preserved the board data |
| `uploads` | `Uploads.cfg` | pass | flags, windows, counts |
| `web_loop` | `WebLoop.cfg` | pass | exclusion, restarts, reboot and the end of operations |
| `web_console` | `WebConsole.cfg` | pass | answers, replies, reused connections |
| `boot_chain` | `BootChain.cfg` | pass | what is booted after an interrupted installation; every dispatch ends |
| `boot_settings` | `BootSettings.cfg` | violation | the settings reset leaves the bootloader alone |

A run marked *violation* checks a statement of the repository itself (a
comment, a message, the README or the CHANGELOG, quoted in `PROJECT.json`) that
the code does not keep; its counterexample is the sequence to look at.

### What the passing runs show

* **BootKept** – from any of the starting tables, no step and no power loss
  takes the device from a bootable `fip` to none, except that a fip *called*
  broken may be removed or quarantined, and a fip made by this repair may be
  quarantined again. **RollbackRestores**, **NamesStayDistinct**: promotion and
  rollback mirror each other in each mode, and no rename hits a used name
  (which would make UBI refuse to attach at the next boot).
  **RepairLosesNothing**: nothing that could still boot is lost by a repair.
  **CompletionProven**: the transaction state of that name is earned even when
  the buffer is overwritten at any time, since fip.new is validated from flash.
* **StockBlockRespected** – the single block is rewritten only over a FIP of
  this board and keeps prefix and environment.
* **StagesCanProceed** – what PRECHECK promises is there after the removals
  (`AdmittedFits`), and the names PROMOTE needs are free (`RenamesPossible`).
  The one exception is a bad-block reserve of which more is missing than the
  margin PRECHECK asks for beyond the image (20 LEBs in staged mode, at most 16
  in direct mode and none at all on a full device): what the removals free goes
  to the reserve first.
  **TransactionHonest** – NOT_STARTED over an untouched table, COMPLETION_PROVEN
  over an installed image. **SettingsKept** – however the update ends.
  **ImplementsBootSlot** – staged mode has an image to load at every instant,
  also between the two renames. `TypeOK` includes that UBI never hands out more
  than it has (`SpaceConserved`).
* **AdmittedFits** (of `SharedUbi`) – in staged mode the headroom of 20 LEBs is
  enough for FIP updates that slip in between PRECHECK and STAGE_PREP, twice the
  size of a FIP volume being the worst of it. In direct mode it is not: there
  `fit` may be removed and its room taken by `fip.new`. Beside that only a
  reserve that is short by more than the margin can leave an admitted update
  without its room.
  **FipRoomKept** – no step of an OpenWrt update, with or
  without the reset, takes the room the next FIP update needs.
* **Bl2CommittedLast**, **BoardDataKept** – the erase order (image before bosa and ri) is what lets the probe of the next
  session refuse a flash whose board data are gone; the property depends on it.
* **NotStartedMeansUntouched** – of the FIP update and of the migration.
* **ValidatedIsStaged**, **WindowHasOneOwner**, **ReceivedWasSent**,
  **ValidMeansComplete** – late, duplicated and abandoned chunks included.
* **UpdateExcludesMigration** – the migration looks at no other context; the
  layout of the session alone keeps it apart from the OpenWrt update, and that
  is enough through restarts and failed migrations. **NotResumed** – an
  operation that was active when the loop ended is never stepped again.
  **Consistent** (`TypeOK`, `StopHasCause`) – no connection of an earlier
  session ends this one.
  **RebootHappens** – the forced timeout does what its comment says.
  **OperationsEnd** – no operation starves another, and the gates let no chain
  of overlapping operations keep the flash busy for ever: again and again none
  is being advanced.
* **Consistent** (`TypeOK`, `PendingExact`), **AnswersReachOwner** – however
  connections end while a command pumps the network, no freed connection is
  written to, and an answer goes astray only to a connection that took the very
  place of the one that asked. **TornOnlyIfSplit** – a reply that fits lwIP's
  buffer is never torn. **ConnectionsServed** – the console does
  not lock up, and a reply that ran out of memory is finished by the poll timer.
* **KernelGoesLast**, **StartsWhole** – wherever the power fails during a first
  installation, no OpenWrt kernel is started without its root. (That the stock
  bridge starts no torn vendor slot is its own check of the hashes, the guard
  `SlotWhole`.) **Consistent** (`TypeOK`, `StickyRecovery`) –
  recovery stays latched. **DispatchEnds** – whatever the flash holds and whichever
  reads fail, a dispatch ends in a system or in WebFailsafe.

### What the violations show

* **MigrationPreserves** (`mig_retry`) – after a migration that failed behind
  FORMAT_UBI the session still believes in the stock layout
  (`ursusweb.c:2252`); armed again, it backs up erased areas and completes.
* **FallbackPreserved** (`fit_fallback`) – the power fails between the two
  renames of PROMOTE and only `fit.old` is left to load. The next staged update
  removes it at STAGE_PREP (`ursusubi.c:938`), and when its create or write
  fails the message says that the fallback was preserved.
* **SettingsKeepBootloader** (`boot_settings`) – an installation that stopped
  before its kernel was written leaves a UBI device behind and the layout STOCK.
  `ursussettings reset` then attaches 0x20000 to the end of the NAND
  (`ursusweb.c:2906`), and UBI erases every block without a header, the
  bootloader first.

### Observations without a run

More disagreements came up while modelling. The models contain them and the
traces are short, but no run is spent on them. Where a formula is named, it is
defined at the end of its module and TLC refutes it.

* `VanillaHasOwnEnv` (FipUpdate): the environment is reset after the Vanilla
  FIP was promoted (`ursusupdate.c:1182`); a power loss in between boots Vanilla
  with UrsusBoot's environment, which the comment above excludes.
* `StockInstallsValidated` (FipUpdate): STOCK_BACKUP copies the RAM buffer
  without looking at it again (`ursusupdate.c:992`); an upload after PRECHECK
  gets unvalidated bytes into the single boot block.
* On a device whose bad-block reserve is short and which has nothing free, a
  direct update of an image as large as `fit` is admitted with no margin
  (`ursusubi.c:909`). STAGE_PREP removes `fit`, the reserve takes what that
  frees (`cmd/ubi.c:300`), and "ubi create fit" finds no room: the update fails
  with no image left, no operation having failed before. `AdmittedFits` excepts
  exactly this.
* `MigrationKeepsFip` (Migration): BACKUP_FIP checks the first block only
  (`ursusubi.c:1358`); after an erase that was cut short the erased bytes become
  the `fip` volume.
* `NoMixing` (Uploads): a late chunk is stored before its generation is compared
  (`ursusweb.c:2453`), while `README.md:453` says a mismatch invalidates the
  session.
* `BootsOnlyValidated` (Uploads): between the arming of boot-once and the end of
  the loop another upload may reset the image (`ursusweb.c:2873`).
* A stock-layout installation and boot-once can both be pending if the second
  image was uploaded after the first request. The installation comes first
  behind the loop, finds its image gone and fails without writing
  (`ursusweb.c:1442`), and boot-once is not carried out (`ursusweb.c:2861`).
* `ResetRecreates` (SharedUbi): `ubi create rootfs_data ... 6`
  (`ursusubi.c:698`) fails once a volume without a fixed id, created while
  `rootfs_data` was missing, has taken id 6; the device is then without it.
* One transient read error at UBI_ATTACH makes an intact `fip` count as broken,
  and with little headroom UBI_STAGE_PREP removes it (`ursusupdate.c:1084`;
  the comment above it says "dropping it loses nothing"). `BootKept` excepts
  this case by name (`GivesUpFip`).
* A `fip` that cannot be opened is classified for repair, but the atomic switch
  of UBI_PROMOTE must open it for writing and fails (`ursusupdate.c:1143`;
  `CHANGELOG.md:18` says it is repaired).
* The OpenWrt update writes RAM as it is, compares the volume with the same RAM
  and looks only at the FDT header again (`ursusubi.c:966`), so an upload that
  overwrites the buffer after arming is reported as "OpenWrt image verified".
* A migration may be armed while a FIP update is active (`ursusweb.c:2292`):
  both are then stepped in one pass.
* An operation that was active when the loop ended stays active: until the next
  power-on every request its gate concerns is refused (`ursusweb.c:2699`).
* The output of a console command goes to a connection that took the place of
  the one that asked, if that one asked for a command too: the check after the
  command (`ursusweb.c:2104`) compares pointers. Status, log and console output
  longer than lwIP's buffer may be torn.
* A reinstallation that is cut short leaves the old kernel bootable over a root
  that is erased (the exception of `StartsWhole`); the vendor's configuration
  is erased before anything is verified; a power loss between the erase of the
  kernel and its first page leaves a layout from which WebFailsafe offers
  neither installation nor migration nor reset. After an erase that was cut
  before the slave slot, `ursusstockboot slave` still starts the vendor's system.
* On the stock layout a missing `rootfs_data` is never created again by the
  reset (`ursusweb.c:1524` returns -ENOENT).
* `ursusubiboot` at the prompt attaches the whole NAND as `ursussettings` does.

### Bounds

* FIP: two UrsusBoot FIPs (one too large for the vendor layout), a vendor FIP,
  a Vanilla and a foreign one: every identity the validators tell apart, and a
  second one of the installed kind so that "the previous" and "the new" differ.
  Capacities of 1, 2 and 4 slots cover no room, room after the removals only,
  and ample room. Two faults: a failing stage and a failing rollback. `FipLive`
  starts from the vendor layout or from a tidy UBI with three slots, so that
  the graph is small enough for the liveness check.
* FIT: eight LEBs, images of two and three, both reserves non-zero and
  different, so that staged, direct and refused all occur with every leftover.
  Up to three LEBs of the bad-block reserve are missing at the start, more than
  either margin, so that the exception of `AdmittedFits` and both sides of its
  bound occur. One fault. `FitFallback` starts from a device that boots the
  image it has, with the reserve full.
* SharedUbi: seven LEBs, a FIP volume of one, images of one and two, reserves of
  two and one. The proportions are those of the device (9 LEBs against 20 and
  16, assumption `HeadroomForFips`), and staged, direct, refused and full all
  occur, with any number of faults, power losses and updates. Three blocks are
  lost at any time an attach can find them (`Losses`), one more than the staged
  headroom.
* Migration: two images, two faults, two attempts per session, any number of
  power losses.
* Uploads: three uploads of sizes 2, 2 and 1 over two connections and all five
  kinds: an old and a new upload of one kind with a third in the sharing kind.
  Connections are interchangeable, hence the symmetry set; no liveness is
  checked there.
* WebLoop: one connection at a time whose release ends the loop, any number one
  after the other; the request outlives its connection, so requests of different
  kinds still meet. Grace one tick, force two: the reply in time, late, and
  never.
* WebConsole: two places, two commands, replies of one and three pieces over a
  buffer of two: replies that fit and replies that need a second callback.
* BootChain: two images, so that a reinstallation differs from what it
  replaces; a debounce of two polls. No bound on power losses or commands.
* `MaxFaults`, `MaxAttempts`, `Gens`, `TotalLebs`, `BebLevel` and `Losses` are
  the only artificial bounds.

### Fairness

* `Terminates` of `FipUpdate` and `Migration`: weak fairness of the step
  function alone. The main loop calls the step in every pass while the operation
  is active, and the command-line entry points (`ursus_update_run`,
  `ursus_ubi_update_fit`, `ursus_ubi_migrate_from_stock`) loop on it. A power
  loss ends an operation too. That the loop goes on is the subject of `WebLoop`:
  `OperationsEnd` there says "or the loop has ended".
* `WebLoop`: weak fairness of the processor, which runs the pass or what comes
  behind it (`Loop \/ Behind`), and of time (`Tick`): one thread that never
  blocks.
* `BootChain`: weak fairness of the dispatch (`Runs`), a straight piece of code.
* `WebConsole`: weak fairness of serving the console (the loop calls it in every
  pass), of lwIP's poll timer for each connection, and of what is queued being
  acknowledged or the connection dying (lwIP gives up after its retransmissions).

Nothing is assumed of clients, users, the button, faults or power.

## 4. Proofs

Every safety property that a passing run checks, invariants, action properties
and both refinements, is also a theorem, for every value of the constants that
the named assumptions allow. Every proof module defines an inductive invariant
`IInv`, proves `Spec => []IInv` from `Init => IInv` and
`IInv /\ [Next]_vars => IInv'` with one step per action, and derives each
property from `IInv`. Each `IInv` was checked by TLC on the instance of the run
before it was proved. The bounds that the runs need (`MaxFaults`, `MaxAttempts`,
`Gens`, `TotalLebs`, `BebLevel`, `Losses`) are arbitrary in the proofs.

**FipUpdateProofs** – for any sets of FIPs, uploads, capacities and any number
of faults. Assumptions: the identities are disjoint, FIPs differ from the marks
for absent or torn data, and the constants have their types
(`FipsAreData`, `IdentitiesDisjoint`, `ConstantsTyped`). None of the properties
is inductive alone. `IInv` adds what each stage relies on: the flash is as it
was at arming until the first writing stage (`InvUntouched`); a stage runs on
its own layout (`InvLayout`); what the mode says about the fip found at
UBI_ATTACH (`InvMode`); between clearing and promotion the active fip is in
place and the name for the displaced one is free (`InvStaging`); after it the
old fip is where the rollback of that mode looks (`InvPromoted`). The action
property `BootKept` follows from `IInv` step by step. For the stock layout
`InvStock` says that the block being rewritten was one of this board and that
the candidate keeps everything around the FIP.

The refinement `UpdateImplementsSlot` is `layout = "UBI" /\ Spec =>
ImplementsBootSlot`: each stage is a step of the slot or a stutter, a power loss
is the slot's. The condition is there because on the vendor layout the FIP is
started from the boot block, not from the volume the mapping names; the run that
checks the refinement starts from UBI as well.

Theorems: `TypeCorrect`, `Inductive`, `Completion`, `RollbackIsExact`,
`RepairPreservesOld`, `ForeignSurvives`, `RepairIsLossless`, `NoNameClash`,
`NotStartedIsHonest`, `StockBlockIsRespected`, `BootIsKept`,
`UpdateImplementsSlot`.

**UploadsProofs** – for any number of uploads, sizes, connections and any
subset of the kinds. The argument: bytes reach a window only through an active
session; a flag belongs to a session that is complete; of the kinds sharing a
window only one has a session (`ActiveIsNotValidated`). For the counts `IInv`
needs `ChunksFit`: a chunk in flight ends within its file, its generation was
begun, and while that upload is current everything before the chunk's position
was stored by it – generations are not used twice, so an old chunk can never be
taken for one of the new upload.

Theorems: `Inductive`, `TypeCorrect` (in place of a run), `FlagSpeaksOfRam`, `OneOwner`, `NoGaps`,
`FlagIsComplete`.

**FitUpdateProofs** – for any device size, images, reserves and number of
faults (`ImagesAreData`, `SpaceTyped`). `StagesCanProceed` needs to know why the
room is there: PRECHECK admits an image by the sum of what is free and what it
will remove, and nothing changes the table until STAGE_PREP removes just that
(`InvUntouched`, `AdmittedFits`). With a short reserve nothing is available at
PRECHECK, and after the removals what they freed less the shortage is; the room
is there as long as the shortage is within the margin, which is the arithmetic
of the invariant. Any shortage up to any `BebLevel` is allowed. `InvStaged` and `InvPromoted` say what lies under
each name between the stages, which is what the renames, `TransactionHonest`
and the refinement rest on.

Theorems: `Inductive`, `TypeCorrect`, `StagesProceed`, `SettingsAreKept`,
`TransactionIsHonest`, `UpdateImplementsSlot`.

**SharedUbiProofs** – for any number of LEBs, sizes of images and of FIP
volumes, with the one proportion the code's constants have (`HeadroomForFips`:
the reserve is at least one FIP volume and the staged headroom two, in the code
16 and 20 LEBs against 9). The argument is about sums. `Rest`, what the volumes
that are not bootloaders leave, is changed by no stage of a FIP update; the
bootloaders never take more than three volumes, since `fip.bad` is removed
before `fip.new` is created (`InvFips`). So a staged image that was admitted
with the active fip and room for two more has its room whatever FIP updates do
in between (`InvStaged`); a direct one has it until one of them creates a volume
(`InvDirect`). An image admitted while the reserve is
short was admitted by what will be removed alone, which then exceeds it by the
margin; this is the second disjunct of each, and gives the second exception of
`AdmittedFits`. The second half of `InvDirect` – two bootloaders fit beside the
image, or it takes no more than it removes – is PRECHECK's minimum of headroom
and reserve, and gives `FipRoomKept`. That ids are not given out twice is an
argument about cardinalities: a rename moves an id, a removal returns it.

Theorems: `Inductive`, `TypeCorrect`, `AdmittedFit`, `FipRoomIsKept`.

**MigrationProofs** – for any images, faults and attempts (`MigConstants`).
`Bl2CommittedLast` compares the volumes with the vendor areas at arming, which
are erased long before: `IInv` carries the contents through the RAM copies, stage
by stage (`InvBackup`, `InvVolumes`), and says that the first block is left alone
until COMMIT_BL2 (`InvBlock`). `BoardDataKept` needs `InvSession`: a first
migration is only armed on a session whose probe found the vendor's image, and
the image is erased before the board data.

Theorems: `Inductive`, `TypeCorrect`, `Bl2IsLast`, `BoardDataAreKept`,
`NotStartedIsUntouched`.

**WebLoopProofs** – for any connections and tick counts (`TicksTyped`). The
exclusion of update and migration is no gate of either request: it follows from
the layout a session has probed (`InvUpdate`). `NotResumed` needs `InvLeft`: what
a loop left is still where it was and not pending in the present session;
`StopHasCause` needs that a connection whose release ends the loop is of this
session (`InvLinks`).

Theorems: `Inductive`, `ConsistentHolds`, `UpdateAndMigrationExclude`,
`LeftIsNotResumed`.

**WebConsoleProofs** – for any number of places, commands, lengths and any send
buffer (`WebConsoleAssumption`). `InvConns` is about each connection by itself
(nothing queued beyond reply or buffer, nothing torn that was not split);
`InvPending` and `InvRun` tie the pending pointer and the running command to the
connection that asked, or to an heir of its place.

Theorems: `Inductive`, `ConsistentHolds`, `WholeUnlessSplit`, `AnswersReach`.

**BootChainProofs** – for any images and debounce (`BootChainAssumption`).
`StartsWhole` and `KernelGoesLast` are about what a *later* boot finds:
`InvKernel` ties a whole kernel to its root unless a reinstallation or a reset
was begun under it, `InvInstall` says what each stage has left, and `InvArmed`
why an installation never runs on a device that is already UBI.

Theorems: `Inductive`, `ConsistentHolds`, `StartsAreWhole`, `KernelIsLast`.

Only model-checked: `Terminates` (of `FipUpdate` and of `Migration`),
`RebootHappens`, `OperationsEnd`, `ConnectionsServed` and `DispatchEnds`, since
liveness under fairness is outside the prover's reach.

## 5. Not modelled

* The parsers of FIP, FIT, tar, fwtool metadata and JSON: sequential code over
  one buffer, of which the models keep the verdicts. What they get wrong would
  show in unit tests on bytes rather than in interleavings.
* The on-flash UBI format, scanning and wear levelling (U-Boot's). `BootChain`
  keeps one consequence of scanning, that blocks without a header are erased.
* The command line the stock bridge assembles for Nokia's kernel (a pure
  function of the environment).
* LED patterns and GPIO (registers only), the page in the browser (its requests
  are left free), the build scripts (sequential, on the build host), and all
  of U-Boot that this repository takes over unchanged.
* Smaller omissions: `rootfs_data_max` in the environment is a constant of
  `SharedUbi` and absent from `FitUpdate`; bad blocks and geometry are faults of
  `Migration` and `BootChain`; console commands that do not return are left out
  of `WebConsole`; the prompt of `BootChain` knows only the commands of this
  repository.

## 6. Plan

The models are complete as far as section 5 says, and every safety property of
the runs is proved. What is left for the proofs:

1. The safety half of the liveness properties: a rank on the stages of
   `FipUpdate`, `FitUpdate` and `Migration` that every step of an active
   operation lowers, as action theorems. With the weak fairness of the step this
   is why `Terminates` holds; the step from there to `<>` stays with TLC.
2. The refinement of `BootSlot` by `FipUpdate` on the vendor layout, with the
   boot block as the slot.
3. What `SharedUbi` leaves out of the two updates, shown by mapping the stages
   of `FipUpdate` to those of `SharedUbi`.
