------------------------------ MODULE BootChain ------------------------------
(***************************************************************************)
(* From power-on to an operating system or to WebFailsafe (cmd/             *)
(* ursusdispatch.c), the stock bridge (cmd/ursusstock.c), the layout probe,  *)
(* the installation of OpenWrt on the stock layout and the reset of its     *)
(* settings (cmd/ursusweb.c), and the commands at the UART prompt, with the *)
(* power failing between any two flash operations.                          *)
(*                                                                         *)
(* The NAND on the stock layout: the bootloader, 8 MiB at 0xc0000 (the      *)
(* OpenWrt kernel, or the head of Nokia's master slot), and the rest, which *)
(* the installation turns into one UBI device (ursus-factory-ubi).  Before  *)
(* that it holds, in the order in which it is erased, Nokia's data, the     *)
(* tail of the master slot and the slave slot.                              *)
(*                                                                         *)
(* Simplifications.  A migrated device is "ok" or "broken" for good: what   *)
(* may happen to it is in FitUpdate, FipUpdate and SharedUbi.  Of the main  *)
(* loop only what leaves it is here (WebLoop).  A running system is not     *)
(* followed.  Nokia's firmware is taken to keep no UBI of its own.          *)
(***************************************************************************)
EXTENDS Naturals

CONSTANTS
    Images,         \* validated OpenWrt images for the stock layout
    Debounce        \* URSUS_RESET_BOOT_DEBOUNCE_MS, in polls of the button

ASSUME BootChainAssumption ==
    /\ Debounce \in Nat
    /\ Images \cap {"vendor", "slave", "ubi", "erased", "cut", "torn", "none"} = {}

Dispatching == {"dispatch", "debounce", "boot", "enter"}
Phases == Dispatching \cup {"off", "os", "web", "install", "fatal", "prompt"}
Stages == {"idle", "check", "erase", "erasing", "format", "data", "write", "verify",
           "kerase", "kwrite", "kwriting", "kverify", "recreate"}
Layouts == {"OPENWRT_UBI", "OPENWRT_STOCK_LAYOUT", "STOCK", "UNKNOWN"}
Waits == 0..Debounce

VARIABLES
    boot,           \* the bootloader: "intact", "erased"
    ubi,            \* UBI# at 0x20000: "no", or what a migrated device would be,
                    \* "ok" or "broken"
    kern,           \* the kernel window: "vendor", "erased", "torn" or an image
    root,           \* the rest: "vendor" (what it has of both slots), "slave" (that
                    \* slot only), "cut" (neither), "erased", "ubi" (no whole rootfs
                    \* in it) or an image
    rdata,          \* there is a volume rootfs_data in it
    phase,          \* where the processor is
    held,           \* the Reset button is pressed
    waited,         \* polls since the debounce began
    latched,        \* ursus_recovery_latched
    caller,         \* ursusweb was called by "dispatch" or at the "prompt"
    layout,         \* ursus_current_layout
    img,            \* the image an installation was armed with
    stage,          \* the next step of the installation or of the reset
    os,             \* what has been started: "none", "vendor", "ubi" or an image
    begun           \* what was begun under a whole kernel: "reinstall", "reset"

flash == <<boot, ubi, kern, root, rdata>>
button == <<held, waited>>
session == <<caller, layout, img, stage>>
vars == <<flash, phase, button, latched, session, os, begun>>

TypeOK ==
    /\ boot \in {"intact", "erased"} /\ ubi \in {"no", "ok", "broken"}
    /\ kern \in {"vendor", "erased", "torn"} \cup Images
    /\ root \in {"vendor", "slave", "cut", "erased", "ubi"} \cup Images
    /\ rdata \in BOOLEAN
    /\ rdata => root \in {"ubi"} \cup Images
    /\ phase \in Phases /\ stage \in Stages
    /\ stage = "recreate" => phase \in {"web", "prompt"}
    /\ stage \notin {"idle", "recreate"} <=> phase = "install"
    /\ held \in BOOLEAN /\ waited \in Waits
    /\ latched \in BOOLEAN /\ caller \in {"dispatch", "prompt"}
    /\ layout \in Layouts /\ img \in {"none"} \cup Images
    /\ os \in {"none", "vendor", "ubi"} \cup Images
    /\ begun \subseteq {"reinstall", "reset"}

\* The state of the processor becomes p and all else stays.
Goto(p) ==
    /\ phase' = p
    /\ UNCHANGED <<flash, button, latched, session, os, begun>>

-----------------------------------------------------------------------------
(* ursusdispatch.                                                          *)

\* Somebody presses or releases the button, whenever it is looked at.
Button ==
    /\ phase \in {"off", "dispatch", "debounce"}
    /\ held' = ~held
    /\ UNCHANGED <<flash, phase, waited, latched, session, os, begun>>

\* Bug: a dispatch from the prompt forgets that recovery is latched.
StickyBug == FALSE

\* ursus_recovery_latched at the head of do_ursusdispatch.
Sticky == latched

\* The first look: latched, no button or a read error, released, or pressed.
Dispatch ==
    /\ phase = "dispatch"
    /\ phase' \in IF Sticky THEN {"enter"}
                  ELSE IF held THEN {"debounce", "boot"} ELSE {"boot"}
    /\ waited' = 0
    /\ UNCHANGED <<flash, held, latched, session, os, begun>>

\* One poll.  The read may fail; then, or if released, the boot is normal.
Poll ==
    /\ phase = "debounce"
    /\ \/ phase' = "boot" /\ UNCHANGED waited
       \/ held /\ waited = Debounce /\ phase' = "enter" /\ UNCHANGED waited
       \/ held /\ waited < Debounce /\ waited' = waited + 1 /\ UNCHANGED phase
    /\ UNCHANGED <<flash, held, latched, session, os, begun>>

\* A system is started and takes over.
Start(s) ==
    /\ phase' = "os"
    /\ os' = s
    /\ UNCHANGED <<flash, button, latched, session, begun>>

\* Bug: a boot that comes back leaves the prompt.
ReturnedBug == Goto("prompt")

\* A boot that comes back ends in WebFailsafe.
Returned == Goto("enter")

\* UBI# at 0x20000: ursus_ubi_boot.
BootUbi ==
    /\ phase = "boot" /\ ubi # "no"
    /\ (ubi = "ok" /\ Start("ubi")) \/ Returned

\* FDT magic at 0xc0000: read the window and bootm it.  bootm verifies the
\* hashes of the FIT, so that a torn kernel comes back.
BootFactory ==
    /\ phase = "boot" /\ ubi = "no" /\ kern \in {"torn"} \cup Images
    /\ (kern \in Images /\ Start(kern)) \/ Returned

\* inspect_slot, reading the FIT, its second check and fit_all_image_verify:
\* the whole FIT of that slot is read, not its head only.
SlotWhole(slot) ==
    CASE slot = "master" -> kern = "vendor" /\ root = "vendor"
      [] slot = "slave" -> root \in {"vendor", "slave"}

\* ursusstockboot: bad blocks, the environment's CRC or bootm may still stop
\* it.  The other slot is inspected and never taken instead.
StockBoot(slot) == SlotWhole(slot) /\ Start("vendor")

\* Neither: ursusstockboot without an argument is for the master.
BootStock ==
    /\ phase = "boot" /\ ubi = "no" /\ kern \in {"vendor", "erased"}
    /\ StockBoot("master") \/ Returned

\* A header cannot be read: the paths that are left all come back.
BootMisread == phase = "boot" /\ Returned

\* ursus_probe_device: UBI#, FDT magic or a TOC at 0xc0000.
Probed ==
    CASE ubi # "no" -> "OPENWRT_UBI"
      [] ubi = "no" /\ kern \in {"torn"} \cup Images -> "OPENWRT_STOCK_LAYOUT"
      [] ubi = "no" /\ kern = "vendor" -> "STOCK"
      [] OTHER -> "UNKNOWN"

\* do_ursusweb probes the device, which a read error may hide.
WebUp(by) ==
    /\ phase' = "web"
    /\ caller' = by
    /\ layout' \in {Probed, "UNKNOWN"}
    /\ UNCHANGED <<flash, button, img, stage, os, begun>>

\* ursus_enter_webfailsafe.  Without a network device ursusweb fails at once.
EnterWeb ==
    /\ phase = "enter"
    /\ latched' = TRUE
    /\ \/ WebUp("dispatch")
       \/ phase' = "fatal" /\ UNCHANGED <<flash, button, session, os, begun>>

-----------------------------------------------------------------------------
(* WebFailsafe, and the installation behind its loop.                       *)

Web == phase = "web" /\ stage = "idle"

\* Where a failure of ursusweb leads.
Failed == IF caller = "dispatch" THEN "fatal" ELSE "prompt"

\* Ctrl-C on the UART, or the network is lost.
WebEnds == Web /\ (Goto("prompt") \/ Goto(Failed))

\* Ctrl-C ends ursus_led_fatal_wait.
FatalEnds == phase = "fatal" /\ Goto("prompt")

\* POST /api/install-openwrt-stock-layout, once its reply has ended the loop.
Install(i) ==
    /\ Web
    /\ layout \in {"STOCK", "OPENWRT_STOCK_LAYOUT"}
    /\ img' = i
    /\ phase' = "install" /\ stage' = "check"
    /\ UNCHANGED <<flash, button, latched, caller, layout, os, begun>>

\* One step of ursus_factory_install that succeeds.
Step(from, to) ==
    /\ phase = "install" /\ stage = from
    /\ stage' = to
    /\ UNCHANGED <<phase, boot, ubi, button, latched, caller, layout, img, os>>

\* Partitions, concatenation and the capacity of the kernel window.
InstallCheck ==
    /\ Step("check", "erase")
    /\ UNCHANGED <<kern, root, rdata, begun>>

\* What an erase may have left: Nokia's data goes first, then the tail of the
\* master slot, then the slave slot; of a UBI device any of volume table,
\* rootfs and rootfs_data may be gone.
Partial ==
    CASE root = "vendor" -> {"vendor", "slave", "cut"}
      [] root = "slave" -> {"slave", "cut"}
      [] root \in {"ubi"} \cup Images -> {root, "ubi", "cut"}
      [] OTHER -> {root}

\* Bug: the kernel window is erased together with the rest.
EraseRootBeginsBug ==
    /\ Step("erase", "erasing")
    /\ root' \in Partial
    /\ rdata' \in {FALSE, rdata /\ root' # "cut"}
    /\ kern' = "erased"
    /\ UNCHANGED begun

\* The erase has begun, and may be cut anywhere.
EraseRootBegins ==
    /\ Step("erase", "erasing")
    /\ root' \in Partial
    /\ rdata' \in {FALSE, rdata /\ root' # "cut"}
    /\ begun' = IF kern \in Images THEN begun \cup {"reinstall"} ELSE begun
    /\ UNCHANGED kern

EraseRootEnds ==
    /\ Step("erasing", "format")
    /\ root' = "erased" /\ rdata' = FALSE
    /\ UNCHANGED <<kern, begun>>

\* Attaching the empty device writes a volume table; then rootfs is created.
FormatRoot ==
    /\ Step("format", "data")
    /\ root' = "ubi"
    /\ UNCHANGED <<kern, rdata, begun>>

CreateData ==
    /\ Step("data", "write")
    /\ rdata' = TRUE
    /\ begun' = begun \ {"reset"}
    /\ UNCHANGED <<kern, root>>

\* The write may go wrong without telling.
WriteRoot ==
    /\ Step("write", "verify")
    /\ root' \in {img, "ubi"}
    /\ UNCHANGED <<kern, rdata, begun>>

\* Bug: what is read back is not compared.
RootVerifiedBug == TRUE

\* ursus_compare_stage_readback on rootfs.
RootVerified == root = img

VerifyRoot ==
    /\ RootVerified
    /\ Step("verify", "kerase")
    /\ UNCHANGED <<kern, root, rdata, begun>>

\* The kernel last.  Its first block goes first, and with it the magic.
EraseKernel ==
    /\ Step("kerase", "kwrite")
    /\ kern' = "erased"
    /\ begun' = begun \ {"reinstall"}
    /\ UNCHANGED <<root, rdata>>

WriteKernelBegins ==
    /\ Step("kwrite", "kwriting")
    /\ kern' = "torn"
    /\ UNCHANGED <<root, rdata, begun>>

WriteKernelEnds ==
    /\ Step("kwriting", "kverify")
    /\ kern' \in {img, "torn"}
    /\ UNCHANGED <<root, rdata, begun>>

\* All that is not in the flash is lost.
PowerDown ==
    /\ phase' = "off" /\ stage' = "idle"
    /\ waited' = 0 /\ latched' = FALSE
    /\ caller' = "prompt" /\ layout' = "UNKNOWN" /\ img' = "none" /\ os' = "none"
    /\ UNCHANGED <<held, flash, begun>>

\* Compared, complete, and reset.
VerifyKernel ==
    /\ phase = "install" /\ stage = "kverify" /\ kern = img
    /\ PowerDown

\* Any command or comparison fails (or, at the end, the reset returns).
InstallFails ==
    /\ phase = "install"
    /\ phase' = Failed /\ stage' = "idle" /\ img' = "none"
    /\ UNCHANGED <<flash, button, latched, caller, layout, os, begun>>

-----------------------------------------------------------------------------
(* ursus_factory_reset_settings, from the page or from the prompt.          *)

\* Attach, look for rootfs_data, remove it.  Attaching an empty device
\* formats it; without rootfs_data there is nothing else to do.
FactoryReset ==
    /\ IF rdata
       THEN /\ rdata' = FALSE
            /\ begun' = IF kern \in Images THEN begun \cup {"reset"} ELSE begun
            /\ stage' = "recreate"
            /\ UNCHANGED root
       ELSE /\ root' = IF root = "erased" THEN "ubi" ELSE root
            /\ UNCHANGED <<rdata, stage, begun>>
    /\ UNCHANGED <<phase, boot, ubi, kern, button, latched, caller, img, os>>

WebReset ==
    /\ Web /\ layout = "OPENWRT_STOCK_LAYOUT"
    /\ FactoryReset
    /\ UNCHANGED layout

Recreate ==
    /\ stage = "recreate"
    /\ rdata' = TRUE
    /\ begun' = begun \ {"reset"}
    /\ stage' = "idle"
    /\ UNCHANGED <<phase, boot, ubi, kern, root, button, latched, caller, layout, img, os>>

RecreateFails ==
    /\ stage = "recreate"
    /\ stage' = "idle"
    /\ UNCHANGED <<phase, flash, button, latched, caller, layout, img, os, begun>>

-----------------------------------------------------------------------------
(* The prompt.                                                             *)

\* "ubi part ursus-ubi-full" on a device that is not migrated.  If UBI finds
\* the volume table of the stock-layout device, every block that has no UBI
\* header is taken for the remains of an erase and erased (scan_peb), and
\* gets a header then, the one at 0x20000 too.
AttachFull ==
    IF ubi = "no" /\ root \in {"ubi"} \cup Images
    THEN boot' = "erased" /\ kern' = "erased" /\ ubi' = "broken"
    ELSE UNCHANGED <<boot, kern, ubi>>

Prompt == phase = "prompt" /\ stage = "idle"

PromptDispatch == Prompt /\ Goto("dispatch")
PromptWeb == Prompt /\ WebUp("prompt") /\ UNCHANGED latched
PromptStockBoot(slot) == Prompt /\ StockBoot(slot)

\* ursusubiboot: attach, then there is no fip, unless the device is migrated.
PromptUbiBoot ==
    /\ Prompt
    /\ \/ ubi = "ok" /\ Start("ubi")
       \/ AttachFull /\ UNCHANGED <<phase, root, rdata, button, latched, session, os, begun>>

\* ursussettings reset: "A direct probe is useful on serial even if the
\* cached classifier was stale."  A migrated device is left to SharedUbi.
PromptSettings ==
    /\ Prompt /\ ubi = "no"
    /\ layout' = Probed
    /\ IF layout' = "OPENWRT_STOCK_LAYOUT" THEN FactoryReset
       ELSE AttachFull /\ UNCHANGED <<phase, root, rdata, button, latched, caller, img,
                                      stage, os, begun>>

-----------------------------------------------------------------------------
PowerLoss == phase # "off" /\ PowerDown

\* The bootloader starts, and runs ursusdispatch unless a key stops it.
PowerOn ==
    /\ phase = "off"
    /\ boot = "intact"
    /\ Goto("dispatch") \/ Goto("prompt")

Init ==
    /\ boot = "intact"
    /\ \/ ubi = "no" /\ kern = "vendor" /\ root = "vendor" /\ rdata = FALSE
       \/ ubi = "no" /\ kern \in Images /\ root = kern /\ rdata = TRUE
       \/ ubi \in {"ok", "broken"} /\ kern = "erased" /\ root = "cut" /\ rdata = FALSE
    /\ phase = "off" /\ stage = "idle"
    /\ held = FALSE /\ waited = 0 /\ latched = FALSE
    /\ caller = "prompt" /\ layout = "UNKNOWN" /\ img = "none" /\ os = "none"
    /\ begun = {}

Runs == Dispatch \/ Poll \/ BootUbi \/ BootFactory \/ BootStock \/ BootMisread \/ EnterWeb

InstallSteps ==
    \/ InstallCheck \/ EraseRootBegins \/ EraseRootEnds \/ FormatRoot \/ CreateData
    \/ WriteRoot \/ VerifyRoot \/ EraseKernel \/ WriteKernelBegins \/ WriteKernelEnds
    \/ VerifyKernel \/ InstallFails

Next ==
    \/ Button \/ Runs
    \/ WebEnds \/ FatalEnds \/ WebReset \/ Recreate \/ RecreateFails
    \/ \E i \in Images : Install(i)
    \/ InstallSteps
    \/ PromptDispatch \/ PromptWeb \/ PromptUbiBoot \/ PromptSettings
    \/ \E slot \in {"master", "slave"} : PromptStockBoot(slot)
    \/ PowerLoss \/ PowerOn

Spec == Init /\ [][Next]_vars

\* The processor goes on with the dispatch; nothing is assumed of the
\* button, of users or of the power.
Fairness == WF_vars(Runs)

-----------------------------------------------------------------------------
(* Properties.                                                             *)

\* OpenWrt is started over its own root file system and with a rootfs_data.
\* The only exceptions are an installation or a reset that was begun under a
\* kernel that was whole and has not been finished since: a first
\* installation never gets a kernel started before its root is verified,
\* whatever the power did.
StartsWhole ==
    os \in Images =>
        /\ root = os \/ "reinstall" \in begun
        /\ rdata \/ begun # {}

\* "keep the currently bootable kernel untouched until the new UBI root has
\* been fully written and read back" (ursus_factory_install), through
\* failures, power cuts and repeated installations: where the kernel window
\* holds no kernel, which is a state WebFailsafe cannot install from, there
\* is a complete root file system.
KernelGoesLast ==
    kern = "erased" /\ ubi = "no" => root \in Images

\* Once recovery is latched no dispatch boots normally, however the user
\* moves between WebFailsafe, the fatal wait and the prompt.
StickyRecovery == latched => phase \notin {"debounce", "boot"}

\* The state is of its types, and a latched recovery is respected.
Consistent == TypeOK /\ StickyRecovery

\* README, ursusdispatch: "Every path that returns falls back to WebFailsafe
\* rather than to a dead prompt."  With any flash content, button and read
\* errors, a dispatch ends in a system or in WebFailsafe (or in its fatal
\* wait if there is no network), unless the power goes.
DispatchEnds ==
    phase \in Dispatching ~> phase \in {"os", "web", "fatal", "off"}

-----------------------------------------------------------------------------
(* What the repository says and the code does not keep.                     *)

\* README, ursussettings: "Erase and recreate only `rootfs_data` on an
\* OpenWrt UBI or factory layout. Firmware and bootloader are untouched."
SettingsKeepBootloader == [][PromptSettings => boot' = boot]_vars

=============================================================================
