---------------------------- MODULE MCFitUpdate ----------------------------
(***************************************************************************)
(* FitUpdate for TLC: a UBI of a few LEBs and images of two sizes.          *)
(***************************************************************************)
EXTENDS FitUpdate, TLC

CONSTANTS f1, f2

MCFits == {f1, f2}
MCFitLebs == (f1 :> 2) @@ (f2 :> 3)
MCUploads == {f1, f2, Torn, Hybrid}
MCImageUploads == {f1, f2}

\* Any sizes; fit.old and fit.new as an earlier update may have left them.
SmallInit ==
    /\ tab \in [FitVols -> {Gone} \cup [c : {f1, "user", Torn}, n : 1..TotalLebs]]
    /\ tab["rootfs_data"].c \in {"user", Absent}
    /\ tab["fit"].c \in {f1, Torn, Absent}
    /\ tab["fit.old"].c \in {f1, Absent}
    /\ tab["fit.new"].c \in {Torn, Absent}
    /\ \A v \in {"fit", "fit.old", "fit.new"} : tab[v].n \in {0, 2, 3}
    /\ tab["rootfs_data"].n \in {0, 1, 6}
    /\ Spare(tab) >= -BebLevel
    /\ coreOk \in BOOLEAN
    /\ ram = Torn
    /\ stage = "IDLE"
    /\ failedStage = "NONE"
    /\ need = 0
    /\ keepSettings = FALSE
    /\ directMode = FALSE
    /\ writeStarted = FALSE
    /\ faults = 0
    /\ base = tab

SmallSpec == SmallInit /\ [][Next]_vars

\* A device that boots the image it has.
BootingInit ==
    /\ SmallInit
    /\ coreOk
    /\ tab["fit"].c = f1
    /\ tab["fit.new"] = Gone
    /\ tab["rootfs_data"].n > 0

BootingSpec == BootingInit /\ [][Next]_vars

=============================================================================
