-------------------------- MODULE BootChainProofs --------------------------
(***************************************************************************)
(* Proofs about the boot chain: its types, the latched recovery, what a     *)
(* started system finds, and the order of an installation on the stock      *)
(* layout, for any set of images and any length of the debounce.            *)
(***************************************************************************)
EXTENDS BootChain, TLAPS

\* The stages of ursus_factory_install before the kernel window is touched,
\* the ones in which the old root is going or gone, and the ones behind the
\* comparison of the new root.
KernelKept == {"check", "erase", "erasing", "format", "data", "write", "verify", "kerase"}
RootGone == {"erasing", "format", "data", "write", "verify", "kerase"}
RootProven == {"kerase", "kwrite", "kwriting", "kverify"}
DataThere == {"write", "verify"} \cup RootProven

\* An installation is armed and run only from a probe that found a kernel or
\* Nokia's TOC, and nothing has erased it since.
InvArmed ==
    /\ phase = "web" /\ layout \in {"STOCK", "OPENWRT_STOCK_LAYOUT"} =>
         ubi = "no" /\ kern # "erased"
    /\ phase = "install" => img \in Images
    /\ stage \in KernelKept => ubi = "no" /\ kern # "erased"

\* What the stages behind an installation have left.
InvInstall ==
    /\ stage = "data" => root = "ubi"
    /\ stage \in {"write", "verify"} => root \in {"ubi"} \cup Images
    /\ stage \in DataThere => rdata
    /\ stage \in RootProven => root = img
    /\ stage \in RootGone /\ kern \in Images => "reinstall" \in begun
    /\ stage = "recreate" => root \in {"ubi"} \cup Images

\* A whole kernel has its root file system and a rootfs_data, unless an
\* installation or a reset was begun under it.
InvKernel ==
    kern \in Images =>
        /\ root = kern \/ "reinstall" \in begun
        /\ rdata \/ begun # {}

\* A started system runs until the power goes.
InvStarted == os # "none" => phase = "os"

IInv ==
    /\ TypeOK /\ StickyRecovery
    /\ InvArmed /\ InvInstall /\ InvKernel /\ InvStarted
    /\ StartsWhole /\ KernelGoesLast

-----------------------------------------------------------------------------
(* Types.                                                                  *)

\* The debounce counts from zero.
LEMMA WaitsFromZero == 0 \in Waits
  BY BootChainAssumption DEF Waits

\* The states the device is switched on in are well typed.
LEMMA TypeInit == Init => TypeOK
  BY WaitsFromZero, BootChainAssumption DEF Init, TypeOK, Phases, Dispatching, Stages, Layouts

\* The processor goes somewhere else, outside an installation.
LEMMA GotoTyped ==
    ASSUME TypeOK, stage = "idle", NEW p \in Phases \ {"install"}, Goto(p)
    PROVE  TypeOK'
  BY DEF TypeOK, Goto, flash, button, session

\* A system is started.
LEMMA StartTyped ==
    ASSUME TypeOK, stage = "idle", NEW s \in {"vendor", "ubi"} \cup Images, Start(s)
    PROVE  TypeOK'
  BY DEF TypeOK, Start, flash, button, session, Phases

\* A step of the installation, by what it does to the flash.
LEMMA StepTyped ==
    ASSUME TypeOK, NEW from, NEW to \in Stages \ {"idle", "recreate"}, Step(from, to),
           kern' \in {"vendor", "erased", "torn"} \cup Images,
           root' \in {"vendor", "slave", "cut", "erased", "ubi"} \cup Images,
           rdata' \in BOOLEAN, rdata' => root' \in {"ubi"} \cup Images,
           begun' \subseteq {"reinstall", "reset"}
    PROVE  TypeOK'
  BY DEF TypeOK, Step, button

\* Every step keeps the variables within their types; that a rootfs_data lies
\* in a UBI device needs what the stages of the installation have left.
LEMMA TypeStep == TypeOK /\ InvInstall /\ InvArmed /\ [Next]_vars => TypeOK'
  <1> SUFFICES ASSUME TypeOK, InvInstall, InvArmed, [Next]_vars PROVE TypeOK'
    OBVIOUS
  <1>i. phase \notin {"web", "prompt", "install"} => stage = "idle"
    BY DEF TypeOK, Stages
  <1>p. Phases = {"dispatch", "debounce", "boot", "enter", "off", "os", "web", "install",
                  "fatal", "prompt"}
    BY DEF Phases, Dispatching
  <1>4. CASE BootUbi
    BY <1>4, <1>i, <1>p, GotoTyped, StartTyped DEF BootUbi, Returned
  <1>5. CASE BootFactory
    BY <1>5, <1>i, <1>p, GotoTyped, StartTyped DEF BootFactory, Returned
  <1>6. CASE BootStock
    BY <1>6, <1>i, <1>p, GotoTyped, StartTyped DEF BootStock, StockBoot, Returned
  <1>7. CASE BootMisread
    BY <1>7, <1>i, <1>p, GotoTyped DEF BootMisread, Returned
  <1>9. CASE WebEnds
    BY <1>9, <1>p, GotoTyped DEF WebEnds, Web, Failed
  <1>10. CASE FatalEnds
    BY <1>10, <1>i, <1>p, GotoTyped DEF FatalEnds
  <1>26. CASE PromptDispatch
    BY <1>26, <1>p, GotoTyped DEF PromptDispatch, Prompt
  <1>31. CASE PowerOn
    BY <1>31, <1>i, <1>p, GotoTyped DEF PowerOn
  <1>33. ASSUME NEW slot \in {"master", "slave"}, PromptStockBoot(slot) PROVE TypeOK'
    BY <1>33, StartTyped DEF PromptStockBoot, Prompt, StockBoot
  <1> USE WaitsFromZero DEF TypeOK, Goto, flash, button, session, Phases, Dispatching,
          Stages, Layouts
  <1>1. CASE Button
    BY <1>1 DEF Button
  <1>2. CASE Dispatch
    BY <1>2 DEF Dispatch, Sticky
  <1>3. CASE Poll
    BY <1>3, BootChainAssumption DEF Poll, Waits
  <1>8. CASE EnterWeb
    BY <1>8 DEF EnterWeb, WebUp, Probed
  <1>11. CASE WebReset
    <2>1. CASE rdata
      BY <1>11, <2>1 DEF WebReset, Web, FactoryReset
    <2>2. CASE ~rdata
      BY <1>11, <2>2 DEF WebReset, Web, FactoryReset
    <2> QED BY <2>1, <2>2
  <1>12. CASE Recreate
    BY <1>12 DEF Recreate, InvInstall
  <1>13. CASE RecreateFails
    BY <1>13 DEF RecreateFails
  <1>14. CASE InstallCheck
    BY <1>14 DEF InstallCheck, Step
  <1>15. CASE EraseRootBegins
    <2>1. /\ root' \in {root, "slave", "ubi", "cut"}
          /\ rdata /\ root' # "cut" => root' = root \/ root' = "ubi"
      BY <1>15, BootChainAssumption DEF EraseRootBegins, Partial
    <2>2. rdata' \in BOOLEAN /\ (rdata' => rdata /\ root' # "cut")
      BY <1>15 DEF EraseRootBegins
    <2> QED BY <1>15, <2>1, <2>2 DEF EraseRootBegins, Step
  <1>16. CASE EraseRootEnds
    <2>1. rdata' \in BOOLEAN /\ ~rdata' /\ root' = "erased"
      BY <1>16 DEF EraseRootEnds
    <2>2. UNCHANGED <<kern, begun>> /\ phase = "install"
      BY <1>16 DEF EraseRootEnds, Step
    <2> QED BY <1>16, <2>1, <2>2, StepTyped DEF EraseRootEnds
  <1>17. CASE FormatRoot
    BY <1>17 DEF FormatRoot, Step
  <1>18. CASE CreateData
    BY <1>18 DEF CreateData, InvInstall, Step
  <1>19. CASE WriteRoot
    BY <1>19 DEF WriteRoot, InvInstall, InvArmed, Step
  <1>20. CASE VerifyRoot
    BY <1>20 DEF VerifyRoot, Step, RootVerified
  <1>21. CASE EraseKernel
    BY <1>21 DEF EraseKernel, Step
  <1>22. CASE WriteKernelBegins
    BY <1>22 DEF WriteKernelBegins, Step
  <1>23. CASE WriteKernelEnds
    BY <1>23 DEF WriteKernelEnds, InvArmed, Step
  <1>24. CASE VerifyKernel
    BY <1>24 DEF VerifyKernel, PowerDown
  <1>25. CASE InstallFails
    BY <1>25 DEF InstallFails, Failed
  <1>27. CASE PromptWeb
    BY <1>27 DEF PromptWeb, Prompt, WebUp, Probed
  <1>28. CASE PromptUbiBoot
    <2>1. CASE Start("ubi")
      BY <1>28, <2>1, StartTyped DEF PromptUbiBoot, Prompt
    <2>2. CASE AttachFull /\ ~Start("ubi")
      <3>1. /\ boot' \in {boot, "erased"} /\ kern' \in {kern, "erased"}
            /\ ubi' \in {ubi, "broken"}
        BY <2>2 DEF AttachFull
      <3>2. UNCHANGED <<phase, root, rdata, button, latched, session, os, begun>>
        BY <1>28, <2>2 DEF PromptUbiBoot
      <3> QED BY <3>1, <3>2
    <2> QED BY <1>28, <2>1, <2>2 DEF PromptUbiBoot
  <1>29. CASE PromptSettings
    BY <1>29 DEF PromptSettings, Prompt, FactoryReset, AttachFull, Probed
  <1>30. CASE PowerLoss
    BY <1>30 DEF PowerLoss, PowerDown
  <1>32. ASSUME NEW i \in Images, Install(i) PROVE TypeOK'
    BY <1>32 DEF Install, Web
  <1>34. CASE UNCHANGED vars
    BY <1>34 DEF vars
  <1> QED
    BY <1>1, <1>2, <1>3, <1>4, <1>5, <1>6, <1>7, <1>8, <1>9, <1>10, <1>11,
       <1>12, <1>13, <1>14, <1>15, <1>16, <1>17, <1>18, <1>19, <1>20, <1>21,
       <1>22, <1>23, <1>24, <1>25, <1>26, <1>27, <1>28, <1>29, <1>30, <1>31,
       <1>32, <1>33, <1>34
    DEF Next, Runs, InstallSteps

-----------------------------------------------------------------------------
(* The inductive invariant.                                                *)

\* A device that is off and complete satisfies it.
LEMMA InvInit == Init => IInv
  BY TypeInit, BootChainAssumption
  DEF Init, IInv, StickyRecovery, InvArmed, InvInstall, InvKernel, InvStarted,
      StartsWhole, KernelGoesLast, KernelKept, RootGone, RootProven,
      DataThere

\* Every step of the dispatch, of WebFailsafe, of an installation, of a reset
\* and of the prompt, and a power loss anywhere, keeps it.
LEMMA InvStep == IInv /\ [Next]_vars => IInv'
  <1> SUFFICES ASSUME IInv, [Next]_vars PROVE IInv'
    OBVIOUS
  <1> DEFINE Rest == /\ StickyRecovery /\ InvArmed /\ InvInstall /\ InvKernel /\ InvStarted
                     /\ StartsWhole /\ KernelGoesLast
  <1>t. TypeOK /\ TypeOK' /\ Rest
    BY TypeStep DEF IInv
  <1> SUFFICES Rest'
    BY <1>t DEF IInv
  <1> USE <1>t, BootChainAssumption
      DEF TypeOK, StickyRecovery, InvArmed, InvInstall, InvKernel, InvStarted,
          StartsWhole, KernelGoesLast, KernelKept, RootGone, RootProven,
          DataThere, Goto, flash, button, session
  <1>1. CASE Button
    BY <1>1 DEF Button
  <1>2. CASE Dispatch
    BY <1>2 DEF Dispatch, Sticky
  <1>3. CASE Poll
    BY <1>3 DEF Poll
  <1>4. CASE BootUbi
    BY <1>4 DEF BootUbi, Start, Returned
  <1>5. CASE BootFactory
    BY <1>5 DEF BootFactory, Start, Returned
  <1>6. CASE BootStock
    BY <1>6 DEF BootStock, StockBoot, SlotWhole, Start, Returned
  <1>7. CASE BootMisread
    BY <1>7 DEF BootMisread, Returned
  <1>8. CASE EnterWeb
    BY <1>8 DEF EnterWeb, WebUp, Probed
  <1>9. CASE WebEnds
    BY <1>9 DEF WebEnds, Web, Failed
  <1>10. CASE FatalEnds
    BY <1>10 DEF FatalEnds
  <1>11. CASE WebReset
    BY <1>11 DEF WebReset, Web, FactoryReset
  <1>12. CASE Recreate
    BY <1>12 DEF Recreate
  <1>13. CASE RecreateFails
    BY <1>13 DEF RecreateFails
  <1>14. CASE InstallCheck
    BY <1>14 DEF InstallCheck, Step
  <1>15. CASE EraseRootBegins
    BY <1>15 DEF EraseRootBegins, Step, Partial
  <1>16. CASE EraseRootEnds
    BY <1>16 DEF EraseRootEnds, Step
  <1>17. CASE FormatRoot
    BY <1>17 DEF FormatRoot, Step
  <1>18. CASE CreateData
    BY <1>18 DEF CreateData, Step
  <1>19. CASE WriteRoot
    BY <1>19 DEF WriteRoot, Step
  <1>20. CASE VerifyRoot
    BY <1>20 DEF VerifyRoot, Step, RootVerified
  <1>21. CASE EraseKernel
    BY <1>21 DEF EraseKernel, Step
  <1>22. CASE WriteKernelBegins
    BY <1>22 DEF WriteKernelBegins, Step
  <1>23. CASE WriteKernelEnds
    BY <1>23 DEF WriteKernelEnds, Step
  <1>24. CASE VerifyKernel
    BY <1>24 DEF VerifyKernel, PowerDown
  <1>25. CASE InstallFails
    BY <1>25 DEF InstallFails, Failed
  <1>26. CASE PromptDispatch
    BY <1>26 DEF PromptDispatch, Prompt
  <1>27. CASE PromptWeb
    BY <1>27 DEF PromptWeb, Prompt, WebUp, Probed
  <1>28. CASE PromptUbiBoot
    BY <1>28 DEF PromptUbiBoot, Prompt, Start, AttachFull
  <1>29. CASE PromptSettings
    BY <1>29 DEF PromptSettings, Prompt, FactoryReset, AttachFull, Probed
  <1>30. CASE PowerLoss
    BY <1>30 DEF PowerLoss, PowerDown
  <1>31. CASE PowerOn
    BY <1>31 DEF PowerOn
  <1>32. ASSUME NEW i \in Images, Install(i) PROVE Rest'
    BY <1>32 DEF Install, Web
  <1>33. ASSUME NEW slot \in {"master", "slave"}, PromptStockBoot(slot) PROVE Rest'
    BY <1>33 DEF PromptStockBoot, Prompt, StockBoot, SlotWhole, Start
  <1>34. CASE UNCHANGED vars
    BY <1>34 DEF vars
  <1> QED
    BY <1>1, <1>2, <1>3, <1>4, <1>5, <1>6, <1>7, <1>8, <1>9, <1>10, <1>11,
       <1>12, <1>13, <1>14, <1>15, <1>16, <1>17, <1>18, <1>19, <1>20, <1>21,
       <1>22, <1>23, <1>24, <1>25, <1>26, <1>27, <1>28, <1>29, <1>30, <1>31,
       <1>32, <1>33, <1>34
    DEF Next, Runs, InstallSteps

\* The inductive invariant holds throughout.
THEOREM Inductive == Spec => []IInv
  BY InvInit, InvStep, PTL DEF Spec

-----------------------------------------------------------------------------
(* The properties.                                                         *)

\* The variables keep their types, and once recovery is latched no dispatch
\* looks at the button or boots normally until the power goes.
THEOREM ConsistentHolds == Spec => []Consistent
  <1>1. IInv => Consistent
    BY DEF IInv, Consistent
  <1> QED BY <1>1, Inductive, PTL

\* OpenWrt is started only over its own root and with a rootfs_data, unless a
\* reinstallation or a reset was begun under the whole kernel and not
\* finished, whatever the power did.
THEOREM StartsAreWhole == Spec => []StartsWhole
  <1>1. IInv => StartsWhole
    BY DEF IInv
  <1> QED BY <1>1, Inductive, PTL

\* ursus_factory_install erases the kernel window only over a root file
\* system that was read back, and nothing takes that root away again.
THEOREM KernelIsLast == Spec => []KernelGoesLast
  <1>1. IInv => KernelGoesLast
    BY DEF IInv
  <1> QED BY <1>1, Inductive, PTL

=============================================================================
