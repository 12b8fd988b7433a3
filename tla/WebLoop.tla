------------------------------ MODULE WebLoop ------------------------------
(***************************************************************************)
(* The main loop of WebFailsafe, do_ursusweb of cmd/ursusweb.c, with the    *)
(* gates of the requests that arm something (ursus_route_ready), the        *)
(* connections that end the loop when their reply is out, the reboot        *)
(* timers, and what happens behind the loop.                                *)
(*                                                                         *)
(* One pass: look at the UART, let lwIP deliver (any number of requests,    *)
(* acknowledgements and resets), look at the reboot timers, then call the   *)
(* step function of every operation that is pending and active.  Setting    *)
(* ursus_stop in the middle of a pass does not end the pass.                *)
(*                                                                         *)
(* Simplifications.  The three flash operations are reduced to what the     *)
(* gates can tell apart, one that failed counting as idle; the stages are   *)
(* in FipUpdate, FitUpdate and Migration.  Of the uploads (Uploads) only the *)
(* verdict on the window that firmware and boot-once share is here; a FIP    *)
(* and a preloader have windows of their own and can always be uploaded.    *)
(* Connections that end nothing are left out.  STOCK and                    *)
(* OPENWRT_STOCK_LAYOUT pass the same gates and are one value.  Time is     *)
(* counted in ticks that come in no fixed relation to the passes.           *)
(***************************************************************************)
EXTENDS Naturals, FiniteSets

CONSTANTS
    Conns,          \* TCP connections lwIP has room for
    GraceTicks,     \* URSUS_REBOOT_GRACE_MS
    ForceTicks      \* URSUS_REBOOT_FORCE_MS

ASSUME TicksTyped ==
    /\ GraceTicks \in Nat
    /\ ForceTicks \in Nat

Ops == {"upd", "mig", "fip"}
Ends == {"reboot", "factory", "expert"}
OpPhases == {"IDLE", "ARMED", "IN_PROGRESS", "COMPLETION_PROVEN"}
Layouts == {"OPENWRT_UBI", "STOCK", "UNKNOWN"}
Phases == {"off", "web", "stopped", "failed", "shell", "reset", "os"}
Links == {"free", "factory", "expert", "reboot", "reboot_queued"}
Causes == {"none", "uart", "network"} \cup Ends
Images == {"UBI", "NONUBI", "initramfs"}
NoImage == "none"

VARIABLES
    phase,          \* where the processor is: off, in the loop, behind it, ...
    pc,             \* within a pass: "top", or "rx" up to the end of the pass
    stop,           \* ursus_stop: "none", or what set it first
    netFailed,      \* ursus_network_failed
    pend,           \* the ursus_pending_* flags that are set
    op,             \* the contexts of the three operations
    img,            \* ursus_img, ursus_expert_img: the verdict on the shared window
    layout,         \* ursus_current_layout, probed at the start of a session
    flash,          \* what a probe of the NAND would say now
    link,           \* the connections with stop_after_response
    queued,         \* ursus_reboot_response_queued
    grace, force,   \* ticks until either reboot timer expires
    left            \* operations that were active when a loop ended

session == <<netFailed, pend, img, layout, queued, grace, force>>
vars == <<phase, pc, stop, session, op, flash, link, left>>

TypeOK ==
    /\ phase \in Phases
    /\ pc \in {"top", "rx"}
    /\ stop \in Causes /\ netFailed \in BOOLEAN /\ queued \in BOOLEAN
    /\ pend \subseteq Ops \cup Ends
    /\ op \in [Ops -> OpPhases]
    /\ img \in Images \cup {NoImage}
    /\ layout \in Layouts
    /\ flash \in Layouts
    /\ link \in [Conns -> Links]
    /\ grace \in 0..GraceTicks /\ force \in 0..ForceTicks
    /\ left \subseteq Ops

Active(o) == op[o] \in {"ARMED", "IN_PROGRESS"}
Complete(o) == op[o] = "COMPLETION_PROVEN"

\* The loop calls the step function of the operation.
Stepped(o) == o \in pend /\ Active(o)

StopFor(cause) == stop' = IF stop = "none" THEN cause ELSE stop

-----------------------------------------------------------------------------
(* Requests, served while lwIP delivers.                                    *)

Serving == phase = "web" /\ pc = "rx"

\* What serving a request leaves alone, beside what it is about.
Still == UNCHANGED <<phase, pc, netFailed, layout, flash, left>>
Quiet == Still /\ UNCHANGED img
NoReply == UNCHANGED <<stop, link, queued, grace, force>>

\* The begin of an upload into the shared window, or a discard, clears the
\* verdicts on what either kind of image had left there.
ImageCleared ==
    /\ Serving
    /\ img # NoImage
    /\ img' = NoImage
    /\ UNCHANGED <<pend, op>>
    /\ NoReply
    /\ Still

\* The last chunk of the upload that has the window, and its verdict.
ImageValidated(i) ==
    /\ Serving
    /\ img = NoImage
    /\ img' = i
    /\ UNCHANGED <<pend, op>>
    /\ NoReply
    /\ Still

Arm(o) ==
    /\ op' = [op EXCEPT ![o] = "ARMED"]
    /\ pend' = pend \cup {o}
    /\ NoReply
    /\ Quiet

\* POST /api/install-ubi on the UBI layout.
InstallUbiGate == img = "UBI" /\ layout = "OPENWRT_UBI" /\ \A o \in Ops : ~Active(o)

\* Bug: the layout is not looked at.
MigrateGateBug == img = "UBI" /\ ~Active("mig")

\* ... on a stock layout: ursus_ubi_migration_start asks for its own context.
MigrateGate == img = "UBI" /\ layout = "STOCK" /\ ~Active("mig")

\* POST /api/update-ursusboot and /api/replace-with-vanilla
FipGate == ~Active("mig") /\ ~Active("fip")

InstallUbi == Serving /\ InstallUbiGate /\ Arm("upd")
Migrate == Serving /\ MigrateGate /\ Arm("mig")
UpdateFip == Serving /\ FipGate /\ Arm("fip")

\* The start clears the context of the last update before it refuses.
UpdateFipRefused ==
    /\ Serving
    /\ FipGate
    /\ op' = [op EXCEPT !["fip"] = "IDLE"]
    /\ UNCHANGED pend
    /\ NoReply
    /\ Quiet

\* Either needs an image of its own kind, validated in the shared window.
EndGate(e) ==
    CASE e = "factory" -> img = "NONUBI" /\ layout = "STOCK"
      [] e = "expert" -> img = "initramfs"

\* POST /api/install-openwrt-stock-layout and POST /api/expert/boot-once: no
\* operation is asked for; the loop is to end when the reply is out.
ArmEnd(e, c) ==
    /\ Serving
    /\ link[c] = "free"
    /\ EndGate(e)
    /\ pend' = pend \cup {e}
    /\ link' = [link EXCEPT ![c] = e]
    /\ UNCHANGED <<stop, op, queued, grace, force>>
    /\ Quiet

\* The end of ursus_http_pump on a connection with reboot_after_response:
\* only the first reply starts the grace period.
Queue ==
    /\ queued' = TRUE
    /\ grace' = IF queued THEN grace ELSE GraceTicks

\* POST /api/reboot: some operation has completed.  tcp_write may be out of
\* memory, and the reply then waits for lwIP's timer.
RequestReboot(c) ==
    /\ Serving
    /\ link[c] = "free"
    /\ \E o \in Ops : Complete(o)
    /\ pend' = pend \cup {"reboot"}
    /\ force' = ForceTicks
    /\ \/ link' = [link EXCEPT ![c] = "reboot_queued"] /\ Queue
       \/ link' = [link EXCEPT ![c] = "reboot"] /\ UNCHANGED <<queued, grace>>
    /\ UNCHANGED <<phase, pc, stop, netFailed, img, layout, op, flash, left>>

\* ursus_http_poll or ursus_http_sent gets the rest of a reply out.
Pump(c) ==
    /\ Serving
    /\ link[c] = "reboot"
    /\ link' = [link EXCEPT ![c] = "reboot_queued"]
    /\ Queue
    /\ UNCHANGED <<stop, pend, op, force>>
    /\ Quiet

\* ursus_conn_release: the reply is acknowledged, or writing it failed.
Release(c) ==
    /\ Serving
    /\ link[c] # "free"
    /\ link' = [link EXCEPT ![c] = "free"]
    /\ StopFor(IF link[c] \in {"factory", "expert"} THEN link[c] ELSE "reboot")
    /\ UNCHANGED <<pend, op, queued, grace, force>>
    /\ Quiet

\* ursus_http_err: the client resets the connection, or lwIP gives it up.
ConnError(c) ==
    /\ Serving
    /\ link[c] # "free"
    /\ link' = [link EXCEPT ![c] = "free"]
    /\ UNCHANGED <<stop, pend, op, queued, grace, force>>
    /\ Quiet

\* ursus_rx_report: the Ethernet device is not active any more.
NetworkFails ==
    /\ Serving
    /\ netFailed' = TRUE
    /\ StopFor("network")
    /\ UNCHANGED <<phase, pc, pend, op, img, layout, flash, link, queued, grace, force, left>>

Tick ==
    /\ phase = "web"
    /\ grace > 0 \/ force > 0
    /\ grace' = IF grace > 0 THEN grace - 1 ELSE 0
    /\ force' = IF force > 0 THEN force - 1 ELSE 0
    /\ UNCHANGED <<phase, pc, stop, netFailed, pend, op, img, layout, flash, link, queued,
                   left>>

-----------------------------------------------------------------------------
(* The pass.                                                               *)

\* Bug: the connections outlive the loop; only the listener is closed.
ExitLoopBug ==
    /\ phase' = "stopped"
    /\ pc' = "top"
    /\ left' = left \cup {o \in Ops : Active(o)}
    /\ queued' = FALSE /\ grace' = 0 /\ force' = 0
    /\ UNCHANGED <<netFailed, pend, op, img, layout, flash>>
    /\ UNCHANGED link

\* The loop is left: listener, interface and Ethernet are taken down.
\* Removing the interface aborts every connection (lwIP, netif_remove), and
\* their error callback frees them.  The reboot timers are not looked at
\* again before the next session; the model drops them here.
ExitLoop ==
    /\ phase' = "stopped"
    /\ pc' = "top"
    /\ left' = left \cup {o \in Ops : Active(o)}
    /\ queued' = FALSE /\ grace' = 0 /\ force' = 0
    /\ UNCHANGED <<netFailed, pend, op, img, layout, flash>>
    /\ link' = [c \in Conns |-> "free"]

\* while (!ursus_stop), then ursus_uart_shell_poll without a Ctrl-C.
PassBegins ==
    /\ phase = "web" /\ pc = "top"
    /\ IF stop # "none" THEN ExitLoop
               ELSE /\ pc' = "rx"
                    /\ UNCHANGED <<phase, netFailed, pend, op, img, layout, flash, link,
                                   queued, grace, force, left>>
    /\ UNCHANGED stop

\* Ctrl-C on the UART: out of the loop at once.
CtrlC ==
    /\ phase = "web" /\ pc = "top"
    /\ stop = "none"
    /\ stop' = "uart"
    /\ ExitLoop

\* Bug: the migration goes first and keeps the others from being stepped,
\* whether or not its own request is still pending.
StepToStarveBug(o) ==
    IF Stepped(o) /\ (o = "mig" \/ ~Active("mig"))
    THEN IF op[o] = "ARMED" THEN {"IN_PROGRESS", "IDLE"}
                            ELSE {"COMPLETION_PROVEN", "IDLE"}
    ELSE {op[o]}

\* One call of a step function, as far as the page can tell.
StepTo(o) ==
    IF Stepped(o)
    THEN IF op[o] = "ARMED" THEN {"IN_PROGRESS", "IDLE"}
                            ELSE {"COMPLETION_PROVEN", "IDLE"}
    ELSE {op[o]}

Finishes(o) == ~Complete(o) /\ op'[o] = "COMPLETION_PROVEN"

\* Bug: the timers only count once the reply is queued.
RebootDueBug == "reboot" \in pend /\ queued /\ grace = 0

\* Either reboot timer has run out.
RebootDue == "reboot" \in pend /\ ((queued /\ grace = 0) \/ force = 0)

\* The steps of one pass, in the order upd, mig, fip.  A finished update
\* probes the device again, a finished migration sets the layout.
StepOps ==
    /\ Serving
    /\ ~RebootDue
    /\ op' \in {next \in [Ops -> OpPhases] : \A o \in Ops : next[o] \in StepTo(o)}
    /\ flash' \in CASE Finishes("mig") -> {"OPENWRT_UBI"}
                    [] "IN_PROGRESS" \in {op["mig"], op'["mig"]} /\ Stepped("mig") -> Layouts
                    [] OTHER -> {flash}
    /\ layout' = CASE Finishes("mig") -> "OPENWRT_UBI"
                   [] Finishes("upd") -> flash
                   [] OTHER -> layout
    /\ pc' = "top"
    /\ UNCHANGED <<phase, stop, netFailed, pend, img, link, queued, grace, force, left>>

\* A due reboot ends the pass before any step.
RebootStops ==
    /\ Serving
    /\ RebootDue
    /\ StopFor("reboot")
    /\ pc' = "top"
    /\ UNCHANGED <<phase, session, op, flash, link, left>>

-----------------------------------------------------------------------------
(* Behind the loop.                                                        *)

\* The image is not looked at again before the next session sets it anew; the
\* model drops it here.
Afterwards(p, f) ==
    /\ phase = "stopped"
    /\ phase' = p
    /\ flash' \in f
    /\ img' = NoImage
    /\ UNCHANGED <<pc, stop, netFailed, pend, layout, queued, grace, force, op, link, left>>

\* After a network failure nothing else is done.
ReturnNetFailed == netFailed /\ Afterwards("failed", {flash})

\* The reset that was asked for; "failed" if it returned three times.
DoReset ==
    /\ ~netFailed /\ "reboot" \in pend
    /\ Afterwards("reset", {flash}) \/ Afterwards("failed", {flash})

\* ursus_factory_install, then the reset (BootChain has the details).  It
\* looks at the layout and the image again and fails without writing.
DoFactoryInstall ==
    /\ ~netFailed /\ "reboot" \notin pend /\ "factory" \in pend
    /\ \/ img = "NONUBI" /\ layout = "STOCK" /\ Afterwards("reset", {"STOCK"})
       \/ img = "NONUBI" /\ layout = "STOCK" /\ Afterwards("failed", Layouts)
       \/ Afterwards("failed", {flash})

\* bootm of the image staged for boot-once, which is not looked at again: if
\* it was cleared meanwhile its address is 0.
DoExpertBoot ==
    /\ ~netFailed /\ {"reboot", "factory"} \cap pend = {} /\ "expert" \in pend
    /\ (img = "initramfs" /\ Afterwards("os", {flash})) \/ Afterwards("failed", {flash})

ReturnSuccess == ~netFailed /\ Ends \cap pend = {} /\ Afterwards("shell", {flash})

\* CMD_RET_FAILURE: ursus_enter_webfailsafe waits for a Ctrl-C, then prompt.
FailureToPrompt ==
    /\ phase = "failed"
    /\ phase' = "shell"
    /\ UNCHANGED <<pc, stop, session, op, flash, link, left>>

\* Bug: the pending flags are not cleared.
NewSessionBug ==
    /\ pend' = pend /\ img' = NoImage
    /\ layout' = flash
    /\ netFailed' = FALSE /\ queued' = FALSE /\ grace' = 0 /\ force' = 0

\* The assignments at the head of do_ursusweb.  The contexts of the
\* operations are not among them.
NewSession ==
    /\ pend' = {} /\ img' = NoImage
    /\ layout' = flash
    /\ netFailed' = FALSE /\ queued' = FALSE /\ grace' = 0 /\ force' = 0

\* do_ursusweb, from the prompt or from ursusdispatch at power-on.
Enter ==
    /\ phase \in {"shell", "off"}
    /\ NewSession
    /\ phase' = "web" /\ pc' = "top" /\ stop' = "none"
    /\ UNCHANGED <<op, flash, link, left>>

\* Ethernet or the listener cannot be set up, before the probe or after it.
EnterFails ==
    /\ phase \in {"shell", "off"}
    /\ NewSession
    /\ phase' = "failed"
    /\ UNCHANGED <<pc, stop, op, flash, link, left>>

\* The power fails or the device is reset; all but the flash is gone.
PowerOff ==
    /\ phase # "off"
    /\ phase' = "off" /\ pc' = "top" /\ stop' = "none"
    /\ pend' = {} /\ img' = NoImage /\ layout' = "UNKNOWN"
    /\ netFailed' = FALSE /\ queued' = FALSE /\ grace' = 0 /\ force' = 0
    /\ op' = [o \in Ops |-> "IDLE"]
    /\ link' = [c \in Conns |-> "free"]
    /\ left' = {}
    /\ UNCHANGED flash

-----------------------------------------------------------------------------
Init ==
    /\ phase = "off" /\ pc = "top" /\ stop = "none"
    /\ pend = {} /\ img = NoImage /\ layout = "UNKNOWN"
    /\ netFailed = FALSE /\ queued = FALSE /\ grace = 0 /\ force = 0
    /\ op = [o \in Ops |-> "IDLE"]
    /\ flash \in {"OPENWRT_UBI", "STOCK"}
    /\ link = [c \in Conns |-> "free"]
    /\ left = {}

Loop == PassBegins \/ StepOps \/ RebootStops
Behind == ReturnNetFailed \/ DoReset \/ DoFactoryInstall \/ DoExpertBoot \/ ReturnSuccess

Next ==
    \/ Loop \/ Behind \/ Tick
    \/ ImageCleared \/ (\E i \in Images : ImageValidated(i))
    \/ InstallUbi \/ Migrate \/ UpdateFip \/ UpdateFipRefused
    \/ \E c \in Conns :
          \/ \E e \in {"factory", "expert"} : ArmEnd(e, c)
          \/ RequestReboot(c) \/ Pump(c) \/ Release(c) \/ ConnError(c)
    \/ NetworkFails \/ CtrlC
    \/ FailureToPrompt \/ Enter \/ EnterFails \/ PowerOff

Spec == Init /\ [][Next]_vars

\* The processor runs the loop and what is behind it; time goes on.  Nothing
\* is assumed of clients, the UART or the power.
Fairness == WF_vars(Loop \/ Behind) /\ WF_vars(Tick)

-----------------------------------------------------------------------------
(* Properties.                                                             *)

\* The OpenWrt update and the migration, which both detach and attach UBI
\* and write the same volumes, are never both advanced by the loop.  Only
\* install-ubi looks at the other contexts; for the migration it is the
\* layout of the session that keeps them apart, through restarts, failed
\* migrations and installations.
UpdateExcludesMigration == ~(Stepped("upd") /\ Stepped("mig"))

\* "NAND operation is not restarted blindly" (ursus_rx_report): an operation
\* that was active when the loop ended is not advanced by a later session,
\* whatever is requested in it.
NotResumed ==
    [][\A o \in left : op'[o] = op[o] \/ phase' = "off"]_vars

\* The loop never ends by accident: a connection whose release stops it
\* belongs to a request of this session, whose pending flag is there to be
\* acted on.  A connection of an earlier session must not stop this one.
StopHasCause ==
    phase \in {"web", "stopped"} /\ stop \in Ends => stop \in pend

\* The state of the session is of its types, and what stops it is pending.
Consistent == TypeOK /\ StopHasCause

\* "Once a confirmed reboot POST has been accepted, never depend forever on
\* the HTTP reply": whatever the client does to its connections, and
\* whatever else is armed meanwhile, an accepted reboot ends in the reset
\* (or in a failure: the reset returned three times, or the network died),
\* unless the request is made anew, which starts the timeout again.
RebootHappens ==
    (phase = "web" /\ "reboot" \in pend /\ force < ForceTicks)
        ~> (phase \in {"reset", "failed", "off"} \/ force = ForceTicks)

\* An accepted operation is carried to its end for as long as the loop runs,
\* and the gates let no chain of overlapping operations keep the flash busy
\* for ever, whatever is requested: again and again none is being advanced.
OperationsEnd ==
    []<>((\A o \in Ops : ~Stepped(o)) \/ phase # "web")

=============================================================================
