--------------------------- MODULE WebLoopProofs ---------------------------
(***************************************************************************)
(* Proofs about the main loop of WebFailsafe: its types, what stops it,     *)
(* which operations it advances together and which never again, for any     *)
(* number of connections and any length of the reboot timers.               *)
(***************************************************************************)
EXTENDS WebLoop, TLAPS

\* A connection that will end the loop belongs to this session, whose
\* pending flag tells what is to be done behind the loop.
InvLinks ==
    \A c \in Conns :
        /\ link[c] # "free" => phase = "web"
        /\ link[c] \in {"factory", "expert"} => link[c] \in pend
        /\ link[c] \in {"reboot", "reboot_queued"} => "reboot" \in pend

\* An operation that an earlier loop left is still where it was, and this
\* session does not have it pending.
InvLeft == \A o \in left : Active(o) /\ (phase = "web" => o \notin pend)

\* The layout of the session is what keeps a migration away from an update.
InvUpdate == Stepped("upd") => layout = "OPENWRT_UBI"

IInv ==
    /\ TypeOK /\ StopHasCause
    /\ InvLinks /\ InvLeft /\ InvUpdate
    /\ UpdateExcludesMigration

-----------------------------------------------------------------------------
(* What the steps do.                                                      *)

\* What follows the loop moves the processor on and may change the flash.
LEMMA BehindStep ==
    ASSUME TypeOK, Behind
    PROVE  /\ phase = "stopped" /\ phase' \in {"failed", "reset", "os", "shell"}
           /\ flash' \in Layouts
           /\ img' = NoImage
           /\ UNCHANGED <<pc, stop, netFailed, pend, layout, queued, grace, force, op, link,
                          left>>
  BY DEF TypeOK, Behind, ReturnNetFailed, DoReset, DoFactoryInstall, DoExpertBoot,
         ReturnSuccess, Afterwards, Layouts

\* The steps of a pass: an operation whose flag is not set stays where it is,
\* and none becomes active.
LEMMA OpsStep ==
    ASSUME TypeOK, StepOps
    PROVE  /\ op' \in [Ops -> OpPhases]
           /\ \A o \in Ops : ~Stepped(o) => op'[o] = op[o]
           /\ \A o \in Ops : op'[o] \in {"ARMED", "IN_PROGRESS"} => Active(o)
           /\ \A o \in Ops : Stepped(o)' => Stepped(o)
  <1>1. op' \in [Ops -> OpPhases] /\ \A o \in Ops : op'[o] \in StepTo(o)
    BY DEF StepOps
  <1>2. pend' = pend
    BY DEF StepOps
  <1>3. \A o \in Ops : ~Stepped(o) => op'[o] = op[o]
    BY <1>1 DEF StepTo
  <1>4. \A o \in Ops : op'[o] \in {"ARMED", "IN_PROGRESS"} => Active(o)
    BY <1>1 DEF StepTo, Stepped, Active
  <1>5. \A o \in Ops : Stepped(o)' => Stepped(o)
    BY <1>2, <1>4 DEF Stepped, Active
  <1> QED BY <1>1, <1>3, <1>4, <1>5

\* The reboot timers are set to their full length, cleared or counted down.
LEMMA TimersTyped ==
    ASSUME TypeOK, [Next]_vars
    PROVE  grace' \in 0..GraceTicks /\ force' \in 0..ForceTicks
  <1>1. CASE Tick
    BY <1>1, TicksTyped DEF Tick, TypeOK
  <1>2. CASE ~Tick
    <2>1. grace' \in {grace, 0, GraceTicks} /\ force' \in {force, 0, ForceTicks}
      BY <1>2, BehindStep
      DEF Next, Loop, PassBegins, StepOps, RebootStops, InstallUbi, Migrate, UpdateFip,
          UpdateFipRefused, ImageCleared, ImageValidated, Still, ArmEnd, RequestReboot, Pump, Queue, Release, ConnError,
          NetworkFails, CtrlC, ExitLoop, FailureToPrompt, Enter, EnterFails, NewSession,
          PowerOff, Arm, NoReply, session, vars
    <2> QED BY <2>1, TicksTyped DEF TypeOK
  <1> QED BY <1>1, <1>2

-----------------------------------------------------------------------------
(* Types.                                                                  *)

\* The device is off.
LEMMA TypeInit == Init => TypeOK
  <1> SUFFICES ASSUME Init PROVE TypeOK
    OBVIOUS
  <1>1. grace \in 0..GraceTicks /\ force \in 0..ForceTicks
    BY TicksTyped DEF Init
  <1> QED BY <1>1 DEF Init, TypeOK, Phases, Causes, Ops, Ends, OpPhases, Layouts, Links,
       Images, NoImage

\* Every step keeps the variables within their types.
LEMMA TypeStep == TypeOK /\ [Next]_vars => TypeOK'
  <1> SUFFICES ASSUME TypeOK, [Next]_vars PROVE TypeOK'
    OBVIOUS
  <1> DEFINE Timers == grace \in 0..GraceTicks /\ force \in 0..ForceTicks
             Control == /\ phase \in Phases /\ pc \in {"top", "rx"}
                        /\ stop \in Causes /\ netFailed \in BOOLEAN /\ queued \in BOOLEAN
                        /\ pend \subseteq Ops \cup Ends
                        /\ op \in [Ops -> OpPhases]
                        /\ img \in Images \cup {NoImage}
                        /\ layout \in Layouts /\ flash \in Layouts
                        /\ link \in [Conns -> Links]
                        /\ left \subseteq Ops
  <1>t. Timers'
    BY TimersTyped
  <1>c. Control
    BY DEF TypeOK
  <1> SUFFICES Control'
    BY <1>t DEF TypeOK
  <1> USE <1>c DEF session, Phases, Causes, Ops, Ends, OpPhases, Layouts, Links,
       Images, NoImage
  <1>1. CASE PassBegins
    BY <1>1 DEF PassBegins, ExitLoop
  <1>2. CASE StepOps
    BY <1>2, OpsStep DEF StepOps, Serving, Finishes
  <1>3. CASE RebootStops
    BY <1>3 DEF RebootStops, Serving, StopFor
  <1>4. CASE Tick
    BY <1>4 DEF Tick
  <1>5. CASE Behind
    BY <1>5, BehindStep
  <1>6. CASE InstallUbi
    BY <1>6 DEF InstallUbi, InstallUbiGate, Arm, Serving, NoReply, Quiet, Still
  <1>7. CASE Migrate
    BY <1>7 DEF Migrate, MigrateGate, Arm, Serving, NoReply, Quiet, Still
  <1>8. CASE UpdateFip
    BY <1>8 DEF UpdateFip, FipGate, Arm, Serving, NoReply, Quiet, Still
  <1>9. CASE UpdateFipRefused
    BY <1>9 DEF UpdateFipRefused, FipGate, Serving, NoReply, Quiet, Still
  <1>10. ASSUME NEW c \in Conns, NEW e \in {"factory", "expert"}, ArmEnd(e, c) PROVE Control'
    BY <1>10 DEF ArmEnd, Serving, Quiet, Still
  <1>11. ASSUME NEW c \in Conns, RequestReboot(c) PROVE Control'
    BY <1>11 DEF RequestReboot, Serving, Queue
  <1>12. ASSUME NEW c \in Conns, Pump(c) PROVE Control'
    BY <1>12 DEF Pump, Serving, Queue, Quiet, Still
  <1>13. ASSUME NEW c \in Conns, Release(c) PROVE Control'
    BY <1>13 DEF Release, Serving, StopFor, Quiet, Still
  <1>14. ASSUME NEW c \in Conns, ConnError(c) PROVE Control'
    BY <1>14 DEF ConnError, Serving, Quiet, Still
  <1>15. CASE NetworkFails
    BY <1>15 DEF NetworkFails, Serving, StopFor
  <1>16. CASE CtrlC
    BY <1>16 DEF CtrlC, ExitLoop
  <1>17. CASE FailureToPrompt
    BY <1>17 DEF FailureToPrompt
  <1>18. CASE Enter
    BY <1>18 DEF Enter, NewSession
  <1>19. CASE EnterFails
    BY <1>19 DEF EnterFails, NewSession
  <1>20. CASE PowerOff
    BY <1>20 DEF PowerOff
  <1>21. CASE UNCHANGED vars
    BY <1>21 DEF vars
  <1>22. CASE ImageCleared
    BY <1>22 DEF ImageCleared, Serving, NoReply, Still
  <1>23. ASSUME NEW i \in Images, ImageValidated(i) PROVE Control'
    BY <1>23 DEF ImageValidated, Serving, NoReply, Still
  <1> QED
    BY <1>1, <1>2, <1>3, <1>4, <1>5, <1>6, <1>7, <1>8, <1>9, <1>10, <1>11, <1>12,
       <1>13, <1>14, <1>15, <1>16, <1>17, <1>18, <1>19, <1>20, <1>21, <1>22, <1>23
    DEF Next, Loop

-----------------------------------------------------------------------------
(* The inductive invariant.                                                *)

\* Nothing is pending, active or connected when the power comes.
LEMMA InvInit == Init => IInv
  BY TypeInit DEF Init, IInv, StopHasCause, InvLinks, InvLeft, InvUpdate,
     UpdateExcludesMigration, Stepped, Ends

\* What stops the loop is pending: every step keeps StopHasCause and
\* InvLinks.
LEMMA StopStep ==
    ASSUME TypeOK, StopHasCause, InvLinks, [Next]_vars
    PROVE  StopHasCause' /\ InvLinks'
  <1> DEFINE G == StopHasCause' /\ InvLinks'
  <1> USE DEF TypeOK, StopHasCause, InvLinks, session, Ends, Links
  <1>1. CASE PassBegins
    BY <1>1 DEF PassBegins, ExitLoop
  <1>2. CASE StepOps
    BY <1>2, OpsStep DEF StepOps, Serving, Finishes
  <1>3. CASE RebootStops
    BY <1>3 DEF RebootStops, RebootDue, Serving, StopFor
  <1>4. CASE Tick
    BY <1>4 DEF Tick
  <1>5. CASE Behind
    BY <1>5, BehindStep
  <1>6. CASE InstallUbi
    BY <1>6 DEF InstallUbi, InstallUbiGate, Arm, Serving, NoReply, Quiet, Still
  <1>7. CASE Migrate
    BY <1>7 DEF Migrate, MigrateGate, Arm, Serving, NoReply, Quiet, Still
  <1>8. CASE UpdateFip
    BY <1>8 DEF UpdateFip, FipGate, Arm, Serving, NoReply, Quiet, Still
  <1>9. CASE UpdateFipRefused
    BY <1>9 DEF UpdateFipRefused, FipGate, Serving, NoReply, Quiet, Still
  <1>10. ASSUME NEW c \in Conns, NEW e \in {"factory", "expert"}, ArmEnd(e, c) PROVE G
    BY <1>10 DEF ArmEnd, Serving, Quiet, Still
  <1>11. ASSUME NEW c \in Conns, RequestReboot(c) PROVE G
    BY <1>11 DEF RequestReboot, Serving, Queue
  <1>12. ASSUME NEW c \in Conns, Pump(c) PROVE G
    BY <1>12 DEF Pump, Serving, Queue, Quiet, Still
  <1>13. ASSUME NEW c \in Conns, Release(c) PROVE G
    BY <1>13 DEF Release, Serving, StopFor, Quiet, Still
  <1>14. ASSUME NEW c \in Conns, ConnError(c) PROVE G
    BY <1>14 DEF ConnError, Serving, Quiet, Still
  <1>15. CASE NetworkFails
    BY <1>15 DEF NetworkFails, Serving, StopFor
  <1>16. CASE CtrlC
    BY <1>16 DEF CtrlC, ExitLoop
  <1>17. CASE FailureToPrompt
    BY <1>17 DEF FailureToPrompt
  <1>18. CASE Enter
    BY <1>18 DEF Enter, NewSession
  <1>19. CASE EnterFails
    BY <1>19 DEF EnterFails, NewSession
  <1>20. CASE PowerOff
    BY <1>20 DEF PowerOff
  <1>21. CASE UNCHANGED vars
    BY <1>21 DEF vars
  <1>22. CASE ImageCleared
    BY <1>22 DEF ImageCleared, Serving, NoReply, Still
  <1>23. ASSUME NEW i \in Images, ImageValidated(i) PROVE G
    BY <1>23 DEF ImageValidated, Serving, NoReply, Still
  <1> QED
    BY <1>1, <1>2, <1>3, <1>4, <1>5, <1>6, <1>7, <1>8, <1>9, <1>10, <1>11, <1>12,
       <1>13, <1>14, <1>15, <1>16, <1>17, <1>18, <1>19, <1>20, <1>21, <1>22, <1>23
    DEF Next, Loop

\* The operations: every step keeps InvLeft, InvUpdate and
\* UpdateExcludesMigration.
LEMMA OperationsStep ==
    ASSUME TypeOK, InvLeft, InvUpdate, UpdateExcludesMigration, [Next]_vars
    PROVE  InvLeft' /\ InvUpdate' /\ UpdateExcludesMigration'
  <1> DEFINE G == InvLeft' /\ InvUpdate' /\ UpdateExcludesMigration'
  <1> USE DEF TypeOK, InvLeft, InvUpdate, UpdateExcludesMigration, Stepped, Active,
          session, Ops, OpPhases
  <1>1. CASE PassBegins
    BY <1>1 DEF PassBegins, ExitLoop
  <1>2. CASE StepOps
    BY <1>2, OpsStep DEF StepOps, Serving, Finishes
  <1>3. CASE RebootStops
    BY <1>3 DEF RebootStops, Serving, StopFor
  <1>4. CASE Tick
    BY <1>4 DEF Tick
  <1>5. CASE Behind
    BY <1>5, BehindStep
  <1>6. CASE InstallUbi
    BY <1>6 DEF InstallUbi, InstallUbiGate, Arm, Serving, NoReply, Quiet, Still
  <1>7. CASE Migrate
    BY <1>7 DEF Migrate, MigrateGate, Arm, Serving, NoReply, Quiet, Still
  <1>8. CASE UpdateFip
    BY <1>8 DEF UpdateFip, FipGate, Arm, Serving, NoReply, Quiet, Still
  <1>9. CASE UpdateFipRefused
    BY <1>9 DEF UpdateFipRefused, FipGate, Serving, NoReply, Quiet, Still
  <1>10. ASSUME NEW c \in Conns, NEW e \in {"factory", "expert"}, ArmEnd(e, c) PROVE G
    BY <1>10 DEF ArmEnd, Serving, Quiet, Still
  <1>11. ASSUME NEW c \in Conns, RequestReboot(c) PROVE G
    BY <1>11 DEF RequestReboot, Serving, Queue
  <1>12. ASSUME NEW c \in Conns, Pump(c) PROVE G
    BY <1>12 DEF Pump, Serving, Queue, Quiet, Still
  <1>13. ASSUME NEW c \in Conns, Release(c) PROVE G
    BY <1>13 DEF Release, Serving, StopFor, Quiet, Still
  <1>14. ASSUME NEW c \in Conns, ConnError(c) PROVE G
    BY <1>14 DEF ConnError, Serving, Quiet, Still
  <1>15. CASE NetworkFails
    BY <1>15 DEF NetworkFails, Serving, StopFor
  <1>16. CASE CtrlC
    BY <1>16 DEF CtrlC, ExitLoop
  <1>17. CASE FailureToPrompt
    BY <1>17 DEF FailureToPrompt
  <1>18. CASE Enter
    BY <1>18 DEF Enter, NewSession
  <1>19. CASE EnterFails
    BY <1>19 DEF EnterFails, NewSession
  <1>20. CASE PowerOff
    BY <1>20 DEF PowerOff
  <1>21. CASE UNCHANGED vars
    BY <1>21 DEF vars
  <1>22. CASE ImageCleared
    BY <1>22 DEF ImageCleared, Serving, NoReply, Still
  <1>23. ASSUME NEW i \in Images, ImageValidated(i) PROVE G
    BY <1>23 DEF ImageValidated, Serving, NoReply, Still
  <1> QED
    BY <1>1, <1>2, <1>3, <1>4, <1>5, <1>6, <1>7, <1>8, <1>9, <1>10, <1>11, <1>12,
       <1>13, <1>14, <1>15, <1>16, <1>17, <1>18, <1>19, <1>20, <1>21, <1>22, <1>23
    DEF Next, Loop

\* Every step of the loop, of a request, of a connection, behind the loop and
\* of the power keeps the invariant.
LEMMA InvStep == IInv /\ [Next]_vars => IInv'
  BY TypeStep, StopStep, OperationsStep DEF IInv

\* The inductive invariant holds throughout.
THEOREM Inductive == Spec => []IInv
  BY InvInit, InvStep, PTL DEF Spec

-----------------------------------------------------------------------------
(* The properties.                                                         *)

\* The session is of its types, and a connection never stops a loop in which
\* nothing is pending for it: none outlives the session it belongs to.
THEOREM ConsistentHolds == Spec => []Consistent
  <1>1. IInv => Consistent
    BY DEF IInv, Consistent
  <1> QED BY <1>1, Inductive, PTL

\* The OpenWrt update and the migration are never both advanced by the loop,
\* through restarts, failures and installations.
THEOREM UpdateAndMigrationExclude == Spec => []UpdateExcludesMigration
  <1>1. IInv => UpdateExcludesMigration
    BY DEF IInv
  <1> QED BY <1>1, Inductive, PTL

\* An operation that was active when the loop ended is not advanced by a
\* later session.
THEOREM LeftIsNotResumed == Spec => NotResumed
  <1>1. IInv /\ [Next]_vars =>
          [\A o \in left : op'[o] = op[o] \/ phase' = "off"]_vars
    <2> SUFFICES ASSUME IInv, Next, NEW o \in left
                 PROVE  op'[o] = op[o] \/ phase' = "off"
      BY DEF vars
    <2>1. o \in Ops /\ Active(o) /\ (phase = "web" => ~Stepped(o)) /\ op \in [Ops -> OpPhases]
      BY DEF IInv, TypeOK, InvLeft, Stepped
    <2>2. CASE StepOps
      BY <2>1, <2>2, OpsStep DEF IInv, StepOps, Serving
    <2>3. CASE Behind
      BY <2>3, BehindStep DEF IInv
    <2>4. CASE InstallUbi \/ Migrate \/ UpdateFip \/ UpdateFipRefused
      BY <2>1, <2>4 DEF InstallUbi, Migrate, UpdateFip, UpdateFipRefused, InstallUbiGate,
         MigrateGate, FipGate, Arm
    <2> QED
      BY <2>2, <2>3, <2>4
      DEF Next, Loop, PassBegins, RebootStops, Tick, ImageCleared, ImageValidated, ArmEnd, RequestReboot, Pump, Release,
          ConnError, NetworkFails, CtrlC, ExitLoop, FailureToPrompt, Enter, EnterFails,
          PowerOff
  <1> QED BY <1>1, Inductive, PTL DEF Spec, NotResumed

=============================================================================
