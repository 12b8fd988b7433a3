-------------------------- MODULE FitUpdateProofs --------------------------
(***************************************************************************)
(* Proofs about the OpenWrt update and the settings reset: types and the    *)
(* space of UBI, what a stage finds, the settings, the transaction state,   *)
(* and that the update implements BootSlot, for any images and sizes, any   *)
(* amount of space and any number of faults and power losses.               *)
(***************************************************************************)
EXTENDS FitUpdate, TLAPS

Behind == {"STAGE_WRITE", "STAGE_VERIFY", "PROMOTE", "FINAL_VERIFY", "COMPLETE"}

\* An armed update has an image of some size.
InvNeed == Active => need # 0

\* Nothing is removed before STAGE_PREP, and write_started tells.
InvUntouched ==
    /\ stage \in {"IDLE", "PRECHECK", "STAGE_PREP"} => ~writeStarted
    /\ stage \in Behind => writeStarted
    /\ ~writeStarted => tab = base

\* Between STAGE_PREP and PROMOTE the candidate is there, the leftovers are
\* gone, and in staged mode fit is the one the update began with.
InvStaged ==
    /\ stage \in {"STAGE_WRITE", "STAGE_VERIFY", "PROMOTE"} =>
         /\ Present(tab, Target)
         /\ tab["fit.old"] = Gone
         /\ directMode => tab["fit.new"] = Gone
         /\ ~directMode => tab["fit"] = base["fit"]
    /\ stage = "PROMOTE" => ~directMode /\ HeaderOk(tab["fit.new"].c)

\* Behind PROMOTE, or in direct mode behind STAGE_VERIFY, the new image is
\* active and the old one is fit.old.
InvPromoted ==
    stage = "FINAL_VERIFY" =>
        /\ HeaderOk(tab["fit"].c)
        /\ tab["fit.new"] = Gone
        /\ tab["fit.old"] = IF directMode THEN Gone ELSE base["fit"]

Rest ==
    /\ InvNeed /\ InvUntouched /\ InvStaged /\ InvPromoted
    /\ SettingsKept /\ AdmittedFits

IInv == TypeOK /\ Rest

-----------------------------------------------------------------------------
(* The volume table operations, name by name, and the space they take.      *)

\* A table UBI can have: no more LEBs than there are, none without a volume.
Sound(t) ==
    /\ t \in Tables
    /\ \A v \in FitVols : t[v].c = Absent <=> t[v].n = 0
    /\ Spare(t) >= -BebLevel

\* The free LEBs are a number, no less than what the volumes leave, and Gone
\* is an entry of the table.
LEMMA AvailTyped ==
    /\ Gone \in [c : Contents, n : Nat]
    /\ \A t \in Tables : Spare(t) \in Int
    /\ \A t \in Tables : Avail(t) \in Nat /\ Avail(t) >= Spare(t)
    /\ BebLevel \in Nat
  <1>1. Gone \in [c : Contents, n : Nat]
    BY DEF Gone, Contents
  <1>2. \A t \in Tables : Spare(t) \in Int
    BY SpaceTyped DEF Tables, Spare, FitVols
  <1>3. \A t \in Tables : Avail(t) \in Nat /\ Avail(t) >= Spare(t)
    BY <1>2 DEF Avail
  <1> QED BY <1>1, <1>2, <1>3, SpaceTyped

\* "ubi remove": the volumes of D are gone, and no LEB is lost.
LEMMA WithoutAt ==
    ASSUME NEW t, Sound(t), NEW D
    PROVE  /\ Without(t, D) \in Tables
           /\ \A v \in FitVols : Without(t, D)[v] = IF v \in D THEN Gone ELSE t[v]
           /\ Spare(Without(t, D)) >= Spare(t)
           /\ Sound(Without(t, D))
  <1>1. /\ Without(t, D) \in Tables
        /\ \A v \in FitVols : Without(t, D)[v] = IF v \in D THEN Gone ELSE t[v]
    BY AvailTyped DEF Without, Tables, Sound
  <1>2. \A v \in FitVols : t[v].n \in Nat /\ Without(t, D)[v].n \in {0, t[v].n}
    BY <1>1 DEF Sound, Tables, Gone
  <1>3. Spare(Without(t, D)) >= Spare(t)
    BY <1>2, SpaceTyped DEF Spare, FitVols
  <1>4. \A v \in FitVols : Without(t, D)[v].c = Absent <=> Without(t, D)[v].n = 0
    BY <1>1 DEF Sound, Gone
  <1>5. Spare(Without(t, D)) >= -BebLevel
    BY <1>1, <1>3, AvailTyped DEF Sound
  <1> QED BY <1>1, <1>3, <1>4, <1>5 DEF Sound

\* One entry is replaced: what that makes of the table and of the space.
LEMMA ReplaceAt ==
    ASSUME NEW t, Sound(t), NEW v \in FitVols, NEW e \in [c : Contents, n : Nat],
           e.c = Absent <=> e.n = 0,
           e.n <= t[v].n + Avail(t)
    PROVE  /\ \A w \in FitVols : [t EXCEPT ![v] = e][w] = IF w = v THEN e ELSE t[w]
           /\ Spare([t EXCEPT ![v] = e]) = Spare(t) + t[v].n - e.n
           /\ Sound([t EXCEPT ![v] = e])
  <1> DEFINE u == [t EXCEPT ![v] = e]
  <1>1. u \in Tables /\ \A w \in FitVols : u[w] = IF w = v THEN e ELSE t[w]
    BY DEF Sound, Tables
  <1>2. \A w \in FitVols : t[w].n \in Nat /\ u[w].n = IF w = v THEN e.n ELSE t[w].n
    BY <1>1 DEF Sound, Tables
  <1>3. e.n \in Nat
    OBVIOUS
  <1> HIDE DEF u
  <1>4. Spare(u) = Spare(t) + t[v].n - e.n
    BY <1>2, <1>3, SpaceTyped DEF Spare, FitVols
  <1>5. \A w \in FitVols : u[w].c = Absent <=> u[w].n = 0
    BY <1>1 DEF Sound
  <1>6. Spare(u) >= -BebLevel
    <2>1. t[v].n \in Nat /\ Spare(t) \in Int /\ BebLevel \in Nat /\ Spare(t) >= -BebLevel
      BY <1>2, AvailTyped DEF Sound
    <2>2. e.n <= t[v].n + (IF Spare(t) > 0 THEN Spare(t) ELSE 0)
      BY DEF Avail
    <2> QED BY <1>3, <1>4, <2>1, <2>2
  <1> QED BY <1>1, <1>4, <1>5, <1>6 DEF Sound, u

\* "ubi create" where there is room.
LEMMA CreatedAt ==
    ASSUME NEW t, Sound(t), NEW v \in FitVols, t[v] = Gone,
           NEW n \in Nat \ {0}, Avail(t) >= n
    PROVE  /\ \A w \in FitVols :
                Created(t, v, n)[w] = IF w = v THEN [c |-> Blank, n |-> n] ELSE t[w]
           /\ Sound(Created(t, v, n))
  <1> DEFINE e == [c |-> Blank, n |-> n]
  <1>1. e \in [c : Contents, n : Nat] /\ e.c # Absent /\ e.n = n /\ n # 0
    BY DEF Contents, Blank, Absent
  <1>2. n <= t[v].n + Avail(t)
    BY AvailTyped DEF Gone, Sound
  <1> HIDE DEF e
  <1>3. /\ \A w \in FitVols : [t EXCEPT ![v] = e][w] = IF w = v THEN e ELSE t[w]
        /\ Sound([t EXCEPT ![v] = e])
    BY <1>1, <1>2, ReplaceAt
  <1> QED BY <1>3 DEF Created, e

\* "ubi write" to a volume that is there.
LEMMA WrittenAt ==
    ASSUME NEW t, Sound(t), NEW v \in FitVols, Present(t, v),
           NEW c \in Contents \ {Absent}
    PROVE  /\ \A w \in FitVols :
                Written(t, v, c)[w] = IF w = v THEN [c |-> c, n |-> t[v].n] ELSE t[w]
           /\ Sound(Written(t, v, c))
  <1> DEFINE e == [c |-> c, n |-> t[v].n]
  <1>1. t[v].n \in Nat /\ t[v].n # 0 /\ Avail(t) \in Nat /\ t[v] \in [c : Contents, n : Nat]
    BY AvailTyped DEF Sound, Tables, Present
  <1>2. e \in [c : Contents, n : Nat] /\ e.c # Absent /\ e.n = t[v].n
    BY <1>1
  <1>3. e.n <= t[v].n + Avail(t)
    BY <1>1, <1>2
  <1>4. Written(t, v, c) = [t EXCEPT ![v] = e]
    BY DEF Written
  <1> HIDE DEF e
  <1>5. /\ \A w \in FitVols : [t EXCEPT ![v] = e][w] = IF w = v THEN e ELSE t[w]
        /\ Sound([t EXCEPT ![v] = e])
    BY <1>1, <1>2, <1>3, ReplaceAt
  <1> QED BY <1>4, <1>5 DEF e

\* "ubi rename": what had the new name is lost, and its LEBs with it.
LEMMA MovedAt ==
    ASSUME NEW t, Sound(t), NEW a \in FitVols, NEW b \in FitVols, a # b
    PROVE  /\ \A w \in FitVols :
                Moved(t, a, b)[w] = IF w = a THEN Gone ELSE IF w = b THEN t[a] ELSE t[w]
           /\ Sound(Moved(t, a, b))
  <1> DEFINE u == Moved(t, a, b)
  <1>1. /\ u \in Tables
        /\ \A w \in FitVols : u[w] = IF w = a THEN Gone ELSE IF w = b THEN t[a] ELSE t[w]
    BY AvailTyped DEF Moved, Sound, Tables
  <1>2. \A w \in FitVols :
          t[w].n \in Nat /\ u[w].n = IF w = a THEN 0 ELSE IF w = b THEN t[a].n ELSE t[w].n
    BY <1>1 DEF Sound, Tables, Gone
  <1>3. \A w \in FitVols : u[w].c = Absent <=> u[w].n = 0
    BY <1>1 DEF Sound, Gone
  <1> HIDE DEF u
  <1>4. Spare(u) >= -BebLevel
    BY <1>2, SpaceTyped DEF Spare, FitVols, Sound
  <1> QED BY <1>1, <1>3, <1>4 DEF Sound, u

-----------------------------------------------------------------------------
(* The tables the stages leave.                                            *)

\* The volumes satisfy what TypeOK says of them.
LEMMA SoundNow == TypeOK <=> /\ Sound(tab)
                             /\ coreOk \in BOOLEAN
                             /\ ram \in Fits \cup {Torn, Hybrid}
                             /\ stage \in Stages
                             /\ failedStage \in {"NONE"} \cup WorkStages
                             /\ need \in Nat
                             /\ keepSettings \in BOOLEAN
                             /\ directMode \in BOOLEAN
                             /\ writeStarted \in BOOLEAN
                             /\ faults \in 0..MaxFaults
                             /\ base \in Tables
  BY DEF TypeOK, SpaceConserved, Sound

\* STAGE_PREP removes both leftovers and, in direct mode, fit.
LEMMA ClearedAt ==
    ASSUME Sound(tab)
    PROVE  /\ Sound(Cleared)
           /\ Cleared["fit.new"] = Gone /\ Cleared["fit.old"] = Gone
           /\ Cleared["fit"] = IF directMode THEN Gone ELSE tab["fit"]
           /\ Cleared["rootfs_data"] = tab["rootfs_data"]
  <1> DEFINE D == {"fit.new", "fit.old"} \cup (IF directMode THEN {"fit"} ELSE {})
  <1>1. /\ Sound(Cleared)
        /\ \A v \in FitVols : Cleared[v] = IF v \in D THEN Gone ELSE tab[v]
    BY WithoutAt DEF Cleared
  <1> QED BY <1>1 DEF FitVols

\* What the volumes leave then, in either mode.
LEMMA RoomAt ==
    ASSUME Sound(tab), NEW d \in BOOLEAN
    PROVE  Spare(Without(tab, {"fit.new", "fit.old"} \cup (IF d THEN {"fit"} ELSE {})))
             = Spare(tab) + tab["fit.old"].n + tab["fit.new"].n
                 + (IF d THEN tab["fit"].n ELSE 0)
  <1> DEFINE u == Without(tab, {"fit.new", "fit.old"} \cup (IF d THEN {"fit"} ELSE {}))
  <1>1. \A v \in FitVols : tab[v].n \in Nat
    BY DEF Sound, Tables
  <1>2. /\ u["fit.new"].n = 0 /\ u["fit.old"].n = 0
        /\ u["fit"].n = IF d THEN 0 ELSE tab["fit"].n
        /\ u["rootfs_data"].n = tab["rootfs_data"].n
    BY WithoutAt DEF Gone, FitVols
  <1>3. TotalLebs \in Nat
    BY SpaceTyped
  <1> HIDE DEF u
  <1>4. CASE d
    BY <1>1, <1>2, <1>3, <1>4 DEF Spare, FitVols, u
  <1>5. CASE ~d
    BY <1>1, <1>2, <1>3, <1>5 DEF Spare, FitVols, u
  <1> QED BY <1>4, <1>5

\* Wherever STAGE_PREP stops, the settings and, in staged mode, fit are kept.
LEMMA PrepAt ==
    ASSUME Sound(tab), need \in Nat \ {0}
    PROVE  /\ \A t \in PrepImages \cup {Cleared} :
                /\ Sound(t)
                /\ t["rootfs_data"] = tab["rootfs_data"]
                /\ ~directMode => t["fit"] = tab["fit"]
           /\ Avail(Cleared) >= need =>
                LET t == Created(Cleared, Target, need)
                IN  /\ Sound(t)
                    /\ Present(t, Target)
                    /\ t["rootfs_data"] = tab["rootfs_data"]
                    /\ t["fit.old"] = Gone
                    /\ directMode => t["fit.new"] = Gone
                    /\ ~directMode => t["fit"] = tab["fit"]
  <1> DEFINE Ok(t) == /\ Sound(t)
                      /\ t["rootfs_data"] = tab["rootfs_data"]
                      /\ ~directMode => t["fit"] = tab["fit"]
             u == Created(Cleared, Target, need)
  <1>v. FitVols = {"fit", "fit.new", "fit.old", "rootfs_data"}
    BY DEF FitVols
  <1>1. Ok(tab)
    OBVIOUS
  <1>2. Ok(Without(tab, {"fit.new"})) /\ Ok(Without(tab, {"fit.new", "fit.old"}))
    BY <1>v, WithoutAt
  <1>3. Ok(Cleared)
    BY ClearedAt
  <1>4. ASSUME Avail(Cleared) >= need
        PROVE  /\ Ok(u) /\ Present(u, Target)
               /\ u["fit.old"] = Gone
               /\ directMode => u["fit.new"] = Gone
    <2>1. /\ Target \in FitVols /\ Cleared[Target] = Gone
          /\ Target = IF directMode THEN "fit" ELSE "fit.new"
      BY ClearedAt DEF Target, FitVols
    <2>2. /\ \A w \in FitVols : u[w] = IF w = Target THEN [c |-> Blank, n |-> need] ELSE Cleared[w]
          /\ Sound(u)
      BY <1>4, <2>1, ClearedAt, CreatedAt
    <2> HIDE DEF u
    <2>3. Present(u, Target)
      BY <2>1, <2>2 DEF Present, Blank, Absent
    <2> QED BY <1>v, <2>1, <2>2, <2>3, ClearedAt
  <1> QED BY <1>1, <1>2, <1>3, <1>4 DEF PrepImages

\* PROMOTE: fit becomes fit.old where there is one, then fit.new becomes fit.
LEMMA PromotedAt ==
    ASSUME Sound(tab)
    PROVE  /\ Sound(Aside) /\ Sound(Promoted)
           /\ Aside["rootfs_data"] = tab["rootfs_data"]
           /\ Aside["fit.old"] = IF Present(tab, "fit") THEN tab["fit"] ELSE tab["fit.old"]
           /\ Present(tab, "fit") => Aside["fit"] = Gone
           /\ ~Present(tab, "fit") => Aside = tab
           /\ Promoted["rootfs_data"] = tab["rootfs_data"]
           /\ Promoted["fit"] = tab["fit.new"] /\ Promoted["fit.new"] = Gone
           /\ Promoted["fit.old"] = Aside["fit.old"]
  <1>1. /\ Sound(Aside) /\ Aside["rootfs_data"] = tab["rootfs_data"]
        /\ Aside["fit.new"] = tab["fit.new"]
        /\ Aside["fit.old"] = IF Present(tab, "fit") THEN tab["fit"] ELSE tab["fit.old"]
        /\ Present(tab, "fit") => Aside["fit"] = Gone
        /\ ~Present(tab, "fit") => Aside = tab
    BY MovedAt DEF Aside, FitVols
  <1>2. /\ Sound(Promoted) /\ Promoted["rootfs_data"] = Aside["rootfs_data"]
        /\ Promoted["fit"] = Aside["fit.new"] /\ Promoted["fit.new"] = Gone
        /\ Promoted["fit.old"] = Aside["fit.old"]
    BY <1>1, MovedAt DEF Promoted, FitVols
  <1> QED BY <1>1, <1>2

\* A reset, wherever it stops, is about rootfs_data alone; if it comes to its
\* end exactly the reserve is left free.
LEMMA ResetAt ==
    ASSUME Sound(tab)
    PROVE  /\ \A t \in ResetImages \cup {NoRootfs} :
                Sound(t) /\ \A v \in FitVols \ {"rootfs_data"} : t[v] = tab[v]
           /\ ResetPossible =>
                /\ Sound(ResetTable)
                /\ \A v \in FitVols \ {"rootfs_data"} : ResetTable[v] = tab[v]
                /\ ResetTable["rootfs_data"].c = "clean"
                /\ Avail(ResetTable) = Reserve
  <1> DEFINE e == [c |-> "clean", n |-> Avail(NoRootfs) - Reserve]
  <1>v. "rootfs_data" \in FitVols
    BY DEF FitVols
  <1>1. Sound(NoRootfs) /\ \A v \in FitVols \ {"rootfs_data"} : NoRootfs[v] = tab[v]
    BY WithoutAt DEF NoRootfs
  <1>2. Spare(NoRootfs) = Spare(tab) + tab["rootfs_data"].n
    <2>1. \A v \in FitVols : tab[v].n \in Nat
      BY DEF Sound, Tables
    <2>2. NoRootfs["rootfs_data"].n = 0
          /\ \A v \in FitVols \ {"rootfs_data"} : NoRootfs[v].n = tab[v].n
      BY WithoutAt DEF NoRootfs, Gone, FitVols
    <2> QED BY <2>1, <2>2, SpaceTyped DEF Spare, FitVols
  <1>3. ASSUME ResetPossible
        PROVE  /\ Sound(ResetTable)
               /\ \A v \in FitVols \ {"rootfs_data"} : ResetTable[v] = tab[v]
               /\ ResetTable["rootfs_data"].c = "clean"
               /\ Avail(ResetTable) = Reserve
    <2>0. Reserve \in Nat /\ Avail(NoRootfs) \in Nat /\ Avail(NoRootfs) > Reserve
          /\ Avail(tab) \in Nat /\ Spare(tab) \in Int /\ Avail(tab) >= Spare(tab)
          /\ tab["rootfs_data"].n \in Nat /\ Spare(NoRootfs) \in Int
      BY <1>v, <1>1, <1>3, SpaceTyped, AvailTyped DEF ResetPossible, Sound, Tables
    <2>1. Avail(NoRootfs) = Spare(NoRootfs)
      BY <2>0 DEF Avail
    <2>2. Avail(NoRootfs) - Reserve \in Nat \ {0}
      BY <2>0
    <2>3. e \in [c : Contents, n : Nat] /\ e.c = "clean" /\ e.n = Avail(NoRootfs) - Reserve
      BY <2>2 DEF Contents, Settings
    <2>4. e.c # Absent /\ e.n # 0 /\ e.n <= tab["rootfs_data"].n + Avail(tab)
      BY <1>2, <2>0, <2>1, <2>2, <2>3 DEF Absent
    <2>5. ResetTable = [tab EXCEPT !["rootfs_data"] = e]
      BY DEF ResetTable
    <2> HIDE DEF e
    <2> DEFINE u == [tab EXCEPT !["rootfs_data"] = e]
    <2>6. /\ \A w \in FitVols : u[w] = IF w = "rootfs_data" THEN e ELSE tab[w]
          /\ Spare(u) = Spare(tab) + tab["rootfs_data"].n - e.n
          /\ Sound(u)
      BY <1>v, <2>3, <2>4, ReplaceAt
    <2> HIDE DEF u
    <2>7. Avail(ResetTable) = Reserve
      <3>1. Spare(ResetTable) = Reserve
        BY <1>2, <2>0, <2>1, <2>3, <2>5, <2>6 DEF u
      <3> QED BY <2>0, <3>1 DEF Avail
    <2> QED BY <1>v, <2>3, <2>5, <2>6, <2>7 DEF u
  <1> QED BY <1>1, <1>3 DEF ResetImages

\* A write to the volume a stage has created, whole or torn.
LEMMA WriteAt ==
    ASSUME IInv, stage = "STAGE_WRITE", NEW c \in {ram, Torn}
    PROVE  LET t == Written(tab, Target, c)
           IN  /\ Sound(t)
               /\ \A w \in FitVols : w # Target => t[w] = tab[w]
               /\ t[Target].c = c /\ Present(t, Target)
  <1>1. Sound(tab) /\ Target \in FitVols /\ Present(tab, Target)
    BY SoundNow DEF IInv, Rest, InvStaged, Target, FitVols
  <1>2. c \in Contents \ {Absent}
    BY SoundNow, ImagesAreData DEF IInv, Contents, Torn, Hybrid, Absent
  <1>3. LET t == Written(tab, Target, c)
        IN  /\ \A w \in FitVols :
                 t[w] = IF w = Target THEN [c |-> c, n |-> tab[Target].n] ELSE tab[w]
            /\ Sound(t)
    BY <1>1, <1>2, WrittenAt
  <1> QED BY <1>1, <1>2, <1>3 DEF Present

\* OpenWrt makes room for its settings where there is some.
LEMMA OpenWrtAt ==
    ASSUME Sound(tab), OpenWrtRuns
    PROVE  Sound(tab') /\ \A v \in FitVols \ {"rootfs_data"} : tab'[v] = tab[v]
  <1> DEFINE k == IF Present(tab, "rootfs_data") THEN tab["rootfs_data"].n ELSE Avail(tab)
             e == [c |-> "user", n |-> k]
  <1>1. k > 0 /\ tab' = [tab EXCEPT !["rootfs_data"] = e]
    BY DEF OpenWrtRuns
  <1>2. "rootfs_data" \in FitVols /\ tab["rootfs_data"].n \in Nat /\ Avail(tab) \in Nat
    BY AvailTyped DEF FitVols, Sound, Tables
  <1>3. k \in Nat /\ k # 0 /\ k <= tab["rootfs_data"].n + Avail(tab)
    BY <1>1, <1>2
  <1> HIDE DEF k
  <1>4. e \in [c : Contents, n : Nat] /\ e.c # Absent /\ e.n = k
    BY <1>3 DEF Contents, Settings, Absent
  <1> HIDE DEF e
  <1> DEFINE u == [tab EXCEPT !["rootfs_data"] = e]
  <1>5. Sound(u) /\ \A w \in FitVols : u[w] = IF w = "rootfs_data" THEN e ELSE tab[w]
    BY <1>2, <1>3, <1>4, ReplaceAt
  <1> QED BY <1>1, <1>2, <1>5

\* Whatever the power leaves behind is a table UBI can have.
LEMMA CrashAt ==
    ASSUME IInv
    PROVE  \A t \in CrashTables : Sound(t)
  <1>1. Sound(tab)
    BY SoundNow DEF IInv
  <1>2. stage = "STAGE_PREP" => need \in Nat \ {0}
    BY SoundNow DEF IInv, Rest, InvNeed, Active, WorkStages
  <1>3. CASE stage = "STAGE_PREP"
    BY <1>1, <1>2, <1>3, PrepAt DEF CrashTables
  <1>4. CASE stage = "STAGE_WRITE"
    BY <1>1, <1>4, WriteAt DEF CrashTables
  <1>5. CASE stage = "PROMOTE"
    BY <1>1, <1>5, PromotedAt DEF CrashTables
  <1>6. CASE stage \notin {"STAGE_PREP", "STAGE_WRITE", "PROMOTE"}
    BY <1>1, <1>6, ResetAt DEF CrashTables
  <1> QED BY <1>3, <1>4, <1>5, <1>6

-----------------------------------------------------------------------------
(* Types.                                                                  *)

\* Any table without more LEBs than there are.
LEMMA TypeInit == Init => TypeOK
  <1> SUFFICES ASSUME Init PROVE TypeOK
    OBVIOUS
  <1>1. Sound(tab)
    BY DEF Init, Sound
  <1>2. faults \in 0..MaxFaults /\ need \in Nat
    BY SpaceTyped DEF Init
  <1> QED BY <1>1, <1>2, SoundNow DEF Init, Stages, Sound

\* No step hands out space UBI does not have.
LEMMA SoundStep ==
    ASSUME IInv, [Next]_vars
    PROVE  Sound(tab')
  <1>s. Sound(tab)
    BY SoundNow DEF IInv
  <1>1. CASE StagePrep
    <2>1. need \in Nat \ {0}
      BY <1>1, SoundNow DEF IInv, Rest, InvNeed, Active, WorkStages, StagePrep
    <2> QED BY <1>1, <1>s, <2>1, PrepAt DEF StagePrep
  <1>2. CASE StageWrite
    BY <1>2, <1>s, WriteAt DEF StageWrite
  <1>3. CASE Promote
    BY <1>3, <1>s, PromotedAt DEF Promote
  <1>4. CASE FinalVerify
    BY <1>4, <1>s, ResetAt DEF FinalVerify
  <1>5. CASE ResetSettings
    BY <1>5, <1>s, ResetAt DEF ResetSettings
  <1>6. CASE PowerLoss
    BY <1>6, CrashAt DEF PowerLoss
  <1>7. CASE OpenWrtRuns
    BY <1>7, <1>s, OpenWrtAt
  <1>8. CASE tab' = tab
    BY <1>8, <1>s
  <1> QED
    BY <1>1, <1>2, <1>3, <1>4, <1>5, <1>6, <1>7, <1>8
    DEF Next, Step, Start, Precheck, StageVerify, Overwrite, vars

\* The counter of faults stays within its bound.
LEMMA FaultTyped ==
    ASSUME faults \in 0..MaxFaults, Fault \/ NoFault
    PROVE  faults' \in 0..MaxFaults /\ (faults' = 0 => NoFault)
  BY SpaceTyped DEF Fault, NoFault

\* Every step keeps the variables within their types.
LEMMA TypeStep == IInv /\ [Next]_vars => TypeOK'
  <1> SUFFICES ASSUME IInv, [Next]_vars PROVE TypeOK'
    OBVIOUS
  <1> DEFINE Context == /\ stage \in Stages
                        /\ failedStage \in {"NONE"} \cup WorkStages
                        /\ need \in Nat
                        /\ keepSettings \in BOOLEAN
                        /\ directMode \in BOOLEAN
                        /\ writeStarted \in BOOLEAN
             Others == /\ coreOk \in BOOLEAN
                       /\ ram \in Fits \cup {Torn, Hybrid}
                       /\ faults \in 0..MaxFaults
                       /\ base \in Tables
  <1>s. Sound(tab') /\ tab' \in Tables
    BY SoundStep DEF Sound
  <1>c. Context /\ Others /\ tab \in Tables
    BY SoundNow DEF IInv, Sound
  <1>f. Fault \/ NoFault => faults' \in 0..MaxFaults
    BY <1>c, FaultTyped
  <1> SUFFICES Context' /\ Others'
    BY <1>s, SoundNow DEF TypeOK, SpaceConserved, Sound
  <1>w. Stages = {"IDLE", "COMPLETE", "FAILED", "PRECHECK", "STAGE_PREP", "STAGE_WRITE",
                  "STAGE_VERIFY", "PROMOTE", "FINAL_VERIFY"}
        /\ WorkStages = {"PRECHECK", "STAGE_PREP", "STAGE_WRITE", "STAGE_VERIFY", "PROMOTE",
                         "FINAL_VERIFY"}
    BY DEF Stages, WorkStages
  <1>1. ASSUME NEW keep \in BOOLEAN, Start(keep) PROVE Context' /\ Others'
    BY <1>1, <1>c, <1>w, SpaceTyped DEF Start
  <1>2. CASE Precheck
    BY <1>2, <1>c, <1>f, <1>w DEF Precheck, Go, Fail
  <1>3. CASE StagePrep
    BY <1>3, <1>c, <1>f, <1>w DEF StagePrep, Go, Fail
  <1>4. CASE StageWrite
    BY <1>4, <1>c, <1>f, <1>w DEF StageWrite, Go, Fail
  <1>5. CASE StageVerify
    BY <1>5, <1>c, <1>f, <1>w DEF StageVerify, Go, Fail
  <1>6. CASE Promote
    BY <1>6, <1>c, <1>f, <1>w DEF Promote, Go, Fail
  <1>7. CASE FinalVerify
    BY <1>7, <1>c, <1>f, <1>w DEF FinalVerify, Go, Fail
  <1>8. CASE ResetSettings
    <2>1. base' \in Tables
      BY <1>8, <1>c, <1>s DEF ResetSettings, Tables, FitVols
    <2> QED BY <1>8, <1>c, <1>f, <2>1 DEF ResetSettings, ctx
  <1>9. ASSUME NEW c \in Uploads, Overwrite(c) PROVE Context' /\ Others'
    BY <1>9, <1>c, SpaceTyped DEF Overwrite, ctx
  <1>10. CASE PowerLoss \/ OpenWrtRuns
    <2>1. Cleanup
      BY <1>10 DEF PowerLoss, OpenWrtRuns
    <2>2. need' \in Nat
      BY <2>1 DEF Cleanup
    <2>3. stage' \in Stages /\ failedStage' \in {"NONE"} \cup WorkStages
      BY <2>1, <1>w DEF Cleanup
    <2>4. keepSettings' \in BOOLEAN /\ directMode' \in BOOLEAN /\ writeStarted' \in BOOLEAN
      BY <2>1 DEF Cleanup
    <2>5. Others'
      BY <1>c, <1>s, <2>1 DEF Cleanup
    <2> QED BY <2>2, <2>3, <2>4, <2>5
  <1>11. CASE UNCHANGED vars
    BY <1>11, <1>c DEF vars, ctx
  <1> QED
    BY <1>1, <1>2, <1>3, <1>4, <1>5, <1>6, <1>7, <1>8, <1>9, <1>10, <1>11 DEF Next, Step

-----------------------------------------------------------------------------
(* The inductive invariant.                                                *)

\* It holds before any update.
LEMMA InvInit == Init => IInv
  BY TypeInit
  DEF Init, IInv, Rest, InvNeed, InvUntouched, InvStaged, InvPromoted,
      SettingsKept, AdmittedFits, Active, WorkStages, Behind

\* PRECHECK sends an update on only where the cleared volumes leave room, or
\* more of the reserve is missing than the margin it keeps.
LEMMA PrecheckRoom ==
    ASSUME TypeOK, Precheck, stage' = "STAGE_PREP"
    PROVE  Avail(Cleared)' >= need' \/ (-Spare(tab) > Margin)'
  <1>1. /\ Sound(tab) /\ tab' = tab /\ need' = need /\ need \in Nat
        /\ directMode' \in BOOLEAN /\ directMode' = ~FitsStaged
        /\ FitsStaged \/ FitsDirect
    BY SoundNow DEF Precheck, Fail, Go
  <1> DEFINE d == directMode'
             old == tab["fit.old"].n
             new == tab["fit.new"].n
             fit == tab["fit"].n
             W == Without(tab, {"fit.new", "fit.old"} \cup (IF d THEN {"fit"} ELSE {}))
  <1>2. /\ old \in Nat /\ new \in Nat /\ fit \in Nat /\ StagedHeadroom \in Nat
        /\ Reserve \in Nat /\ Spare(tab) \in Int /\ Spare(W) \in Int /\ Avail(W) \in Nat
        /\ Avail(W) >= Spare(W)
    <2>1. W \in Tables
      BY <1>1, WithoutAt
    <2> QED BY <1>1, <2>1, AvailTyped, SpaceTyped DEF Sound, Tables, FitVols
  <1>3. /\ Avail(Cleared)' = Avail(W)
        /\ (-Spare(tab) > Margin)'
             <=> -Spare(tab) > (IF d THEN DirectMargin(tab) ELSE StagedHeadroom)
    BY <1>1 DEF Cleared, Avail, Spare, Without, Margin, DirectMargin, Headroom
  <1>4. Spare(W) = Spare(tab) + old + new + (IF d THEN fit ELSE 0)
    BY <1>1, RoomAt
  <1>5. Headroom(tab) = (IF Spare(tab) > 0 THEN Spare(tab) ELSE 0) + old + new
    BY DEF Headroom, Avail
  <1> HIDE DEF W, old, new, fit, d
  <1>6. CASE FitsStaged
    <2>1. Headroom(tab) >= need + StagedHeadroom /\ ~d
      BY <1>1, <1>6 DEF FitsStaged, d
    <2>2. Avail(W) >= need \/ -Spare(tab) > StagedHeadroom
      BY <1>1, <1>2, <1>4, <1>5, <2>1
    <2> QED BY <1>1, <1>3, <2>1, <2>2
  <1>7. CASE ~FitsStaged
    <2>1. d /\ Headroom(tab) + fit >= need + DirectMargin(tab)
      BY <1>1, <1>7 DEF FitsDirect, d, fit
    <2>2. DirectMargin(tab) = IF Headroom(tab) < Reserve THEN Headroom(tab) ELSE Reserve
      BY DEF DirectMargin
    <2>3. Avail(W) >= need \/ -Spare(tab) > DirectMargin(tab)
      BY <1>1, <1>2, <1>4, <1>5, <2>1, <2>2
    <2> QED BY <1>1, <1>3, <2>1, <2>3
  <1> QED BY <1>6, <1>7

\* The stages as the proofs tell them apart, and what TypeOK says of tables.
LEMMA Known ==
    ASSUME IInv
    PROVE  /\ Sound(tab) /\ tab \in Tables /\ base \in Tables
           /\ stage \in Stages /\ need \in Nat
           /\ keepSettings \in BOOLEAN /\ directMode \in BOOLEAN /\ writeStarted \in BOOLEAN
           /\ faults \in 0..MaxFaults
           /\ InvNeed /\ InvUntouched /\ InvStaged /\ InvPromoted
           /\ SettingsKept /\ AdmittedFits
  BY SoundNow DEF IInv, Rest, Sound

\* Every step keeps it.
LEMMA RestStep == IInv /\ [Next]_vars => Rest'
  <1> SUFFICES ASSUME IInv, [Next]_vars PROVE Rest'
    OBVIOUS
  <1>k. /\ Sound(tab) /\ tab \in Tables /\ base \in Tables
        /\ stage \in Stages /\ need \in Nat
        /\ keepSettings \in BOOLEAN /\ directMode \in BOOLEAN /\ writeStarted \in BOOLEAN
        /\ faults \in 0..MaxFaults
        /\ InvNeed /\ InvUntouched /\ InvStaged /\ InvPromoted
        /\ SettingsKept /\ AdmittedFits
    BY Known
  <1> USE DEF InvNeed, InvUntouched, InvStaged, InvPromoted, SettingsKept,
              AdmittedFits, Active, WorkStages, Behind
  <1>v. FitVols = {"fit", "fit.new", "fit.old", "rootfs_data"}
    BY DEF FitVols
  <1>1. ASSUME NEW keep \in BOOLEAN, Start(keep) PROVE Rest'
    BY <1>1, SpaceTyped DEF Start, Rest
  <1>2. CASE Precheck
    <2>1. stage' \in {"STAGE_PREP", "FAILED"} /\ ~writeStarted' /\ tab' = base'
          /\ tab' = tab /\ base' = base /\ keepSettings' = keepSettings /\ need' = need
      BY <1>2, <1>k DEF Precheck, Go, Fail
    <2>2. AdmittedFits'
      BY <1>2, PrecheckRoom DEF IInv
    <2> QED BY <1>2, <1>k, <2>1, <2>2 DEF Rest, Precheck
  <1>3. CASE StagePrep
    <2>1. need \in Nat \ {0} /\ stage = "STAGE_PREP" /\ tab = base
      BY <1>3, <1>k DEF StagePrep
    <2>2. /\ writeStarted' /\ base' = base /\ keepSettings' = keepSettings /\ need' = need
          /\ directMode' = directMode
      BY <1>3 DEF StagePrep
    <2>3. CASE /\ Avail(Cleared) >= need
               /\ tab' = Created(Cleared, Target, need) /\ Go("STAGE_WRITE")
      <3>1. /\ Present(tab', Target)
            /\ tab'["rootfs_data"] = base["rootfs_data"]
            /\ tab'["fit.old"] = Gone
            /\ directMode => tab'["fit.new"] = Gone
            /\ ~directMode => tab'["fit"] = base["fit"]
        BY <1>k, <2>1, <2>3, PrepAt
      <3>2. Target' = Target /\ stage' = "STAGE_WRITE"
        BY <2>2, <2>3 DEF Target, Go
      <3> QED BY <2>1, <2>2, <3>1, <3>2 DEF Rest, Present
    <2>4. CASE tab' \in PrepImages \cup {Cleared} /\ Fail
      <3>1. tab'["rootfs_data"] = base["rootfs_data"]
        BY <1>k, <2>1, <2>4, PrepAt
      <3> QED BY <2>1, <2>2, <2>4, <3>1 DEF Rest, Fail
    <2> QED BY <1>3, <2>3, <2>4 DEF StagePrep
  <1>4. CASE StageWrite
    <2>1. /\ writeStarted' /\ base' = base /\ keepSettings' = keepSettings /\ need' = need
          /\ directMode' = directMode /\ Target' = Target /\ stage = "STAGE_WRITE"
      BY <1>4, <1>k DEF StageWrite, Target
    <2>2. tab'["rootfs_data"] = tab["rootfs_data"]
      BY <1>4, <1>k, <2>1, <1>v, WriteAt DEF StageWrite, Target
    <2>3. CASE tab' = Written(tab, Target, ram) /\ Go("STAGE_VERIFY") /\ NoFault
      <3>1. Present(tab', Target) /\ \A w \in FitVols : w # Target => tab'[w] = tab[w]
        BY <2>1, <2>3, WriteAt
      <3> QED BY <1>k, <1>v, <2>1, <2>2, <2>3, <3>1 DEF Rest, Go, Target, Present
    <2>4. CASE Fail
      BY <1>k, <2>1, <2>2, <2>4 DEF Rest, Fail
    <2> QED BY <1>4, <2>3, <2>4 DEF StageWrite
  <1>5. CASE StageVerify
    <2>1. /\ writeStarted' /\ base' = base /\ keepSettings' = keepSettings /\ need' = need
          /\ directMode' = directMode /\ Target' = Target /\ stage = "STAGE_VERIFY"
          /\ tab' = tab
      BY <1>5, <1>k DEF StageVerify, Target
    <2>2. CASE Fail
      BY <1>k, <2>1, <2>2 DEF Rest, Fail
    <2>3. CASE /\ tab[Target].c = ram /\ HeaderOk(ram)
               /\ Go(IF directMode THEN "FINAL_VERIFY" ELSE "PROMOTE")
      BY <1>k, <2>1, <2>3 DEF Rest, Go, Target, Present
    <2> QED BY <1>5, <2>2, <2>3 DEF StageVerify
  <1>6. CASE Promote
    <2>1. /\ writeStarted' /\ base' = base /\ keepSettings' = keepSettings /\ need' = need
          /\ directMode' = directMode /\ ~directMode /\ stage = "PROMOTE"
      BY <1>6, <1>k DEF Promote
    <2>2. tab'["rootfs_data"] = tab["rootfs_data"]
      BY <1>6, <1>k, PromotedAt DEF Promote
    <2>3. CASE tab' = Promoted /\ Go("FINAL_VERIFY") /\ NoFault
      <3>1. /\ HeaderOk(tab'["fit"].c) /\ tab'["fit.new"] = Gone
            /\ tab'["fit.old"] = IF Present(tab, "fit") THEN tab["fit"] ELSE Gone
        BY <1>k, <2>1, <2>3, PromotedAt
      <3>2. ~Present(tab, "fit") => tab["fit"] = Gone
        BY <1>k, <1>v DEF Present, Gone, Sound, Tables
      <3>3. tab'["fit.old"] = base["fit"]
        BY <1>k, <2>1, <3>1, <3>2
      <3> QED BY <1>k, <2>1, <2>2, <2>3, <3>1, <3>3 DEF Rest, Go
    <2>4. CASE Fail
      BY <1>k, <2>1, <2>2, <2>4 DEF Rest, Fail
    <2> QED BY <1>6, <2>3, <2>4 DEF Promote
  <1>7. CASE FinalVerify
    <2>1. /\ writeStarted' /\ base' = base /\ keepSettings' = keepSettings /\ need' = need
          /\ directMode' = directMode /\ stage = "FINAL_VERIFY"
      BY <1>7, <1>k DEF FinalVerify
    <2>2. keepSettings => tab' = tab
      BY <1>7 DEF FinalVerify
    <2>3. (stage' = "COMPLETE" /\ failedStage' = failedStage) \/ Fail
      BY <1>7 DEF FinalVerify, Go
    <2> QED BY <1>k, <2>1, <2>2, <2>3 DEF Rest, Fail
  <1>8. CASE ResetSettings
    <2>1. /\ UNCHANGED <<coreOk, ram, ctx>> /\ stage \notin WorkStages
          /\ base' = [base EXCEPT !["rootfs_data"] = tab'["rootfs_data"]]
      BY <1>8 DEF ResetSettings
    <2>2. \A v \in FitVols \ {"rootfs_data"} : tab'[v] = tab[v]
      BY <1>8, <1>k, ResetAt DEF ResetSettings
    <2>3. tab' \in Tables
      BY SoundStep DEF Sound
    <2>4. \A v \in FitVols : base'[v] = IF v = "rootfs_data" THEN tab'[v] ELSE base[v]
      BY <1>k, <2>1 DEF Tables
    <2>5. tab = base => tab' = base'
      BY <1>k, <2>1, <2>2, <2>3 DEF Tables
    <2> QED BY <1>k, <1>v, <2>1, <2>4, <2>5 DEF Rest, ctx
  <1>9. ASSUME NEW c \in Uploads, Overwrite(c) PROVE Rest'
    BY <1>9, <1>k DEF Overwrite, ctx, Rest, Cleared, Without, Target, Present, Avail, Spare, Margin,
               DirectMargin, Headroom
  <1>10. CASE PowerLoss \/ OpenWrtRuns
    <2>1. Cleanup
      BY <1>10 DEF PowerLoss, OpenWrtRuns
    <2>2. stage' = "IDLE" /\ ~writeStarted' /\ tab' = base'
      BY <2>1 DEF Cleanup
    <2> QED BY <2>2 DEF Rest
  <1>11. CASE UNCHANGED vars
    BY <1>11, <1>k DEF vars, ctx, Rest, Cleared, Without, Target, Present, Avail, Spare, Margin,
                DirectMargin, Headroom
  <1> QED
    BY <1>1, <1>2, <1>3, <1>4, <1>5, <1>6, <1>7, <1>8, <1>9, <1>10, <1>11 DEF Next, Step

\* IInv is inductive: it is what every result below rests on.
THEOREM Inductive == Spec => []IInv
  <1>1. IInv /\ [Next]_vars => IInv'
    BY TypeStep, RestStep DEF IInv
  <1> QED BY InvInit, <1>1, PTL DEF Spec

-----------------------------------------------------------------------------
(* What the update promises.                                               *)

\* The variables keep their types, and no sequence of updates, resets, faults
\* and power losses hands out more LEBs than UBI has.
THEOREM TypeCorrect == Spec => []TypeOK
  BY Inductive, PTL DEF IInv

\* An update that PRECHECK admitted finds its room at STAGE_PREP, unless more
\* of the bad-block reserve was missing than the margin PRECHECK keeps, and
\* both of its renames possible at PROMOTE.
THEOREM StagesProceed == Spec => []StagesCanProceed
  <1>1. IInv => StagesCanProceed
    BY DEF IInv, Rest, InvStaged, StagesCanProceed, AdmittedFits, RenamesPossible, Present,
           Target, Gone
  <1> QED BY Inductive, <1>1, PTL

\* The settings survive every update that was asked to keep them.
THEOREM SettingsAreKept == Spec => []SettingsKept
  BY Inductive, PTL DEF IInv, Rest

\* What FINAL_VERIFY completes is installed.
LEMMA CompleteStep ==
    ASSUME IInv, [Next]_vars, stage # "COMPLETE", stage' = "COMPLETE"
    PROVE  Installed'
  <1>1. FinalVerify
    BY DEF Next, Step, Start, Precheck, StagePrep, StageWrite, StageVerify, Promote,
           ResetSettings, Overwrite, PowerLoss, OpenWrtRuns, Cleanup, Go, Fail, vars, ctx
  <1>2. /\ FinalGood /\ (keepSettings \/ ResetPossible)
        /\ tab' = IF keepSettings THEN tab ELSE ResetTable
        /\ ManifestOk(tab')
        /\ UNCHANGED <<coreOk, keepSettings, directMode, base>>
        /\ stage = "FINAL_VERIFY"
    BY <1>1 DEF FinalVerify, Go, Fail
  <1>3. Sound(tab) /\ InvPromoted /\ SettingsKept
    BY Known
  <1>4. \A v \in FitVols \ {"rootfs_data"} : tab'[v] = tab[v]
    BY <1>2, <1>3, ResetAt
  <1>5. /\ HeaderOk(tab'["fit"].c) /\ tab'["fit.new"] = Gone
        /\ tab'["fit.old"] = IF directMode THEN Gone ELSE base["fit"]
    BY <1>2, <1>3, <1>4 DEF InvPromoted, FitVols
  <1>6. CASE keepSettings
    BY <1>2, <1>3, <1>5, <1>6 DEF Installed, SettingsKept, ManifestOk
  <1>7. CASE ~keepSettings
    <2>1. tab'["rootfs_data"].c = "clean" /\ Avail(tab') = Reserve
      BY <1>2, <1>3, <1>7, ResetAt
    <2> QED BY <1>2, <1>5, <1>7, <2>1 DEF Installed, ManifestOk, Avail, Spare
  <1> QED BY <1>6, <1>7

\* NOT_STARTED is said only of volumes that are as they were at arming,
\* COMPLETION_PROVEN only over an installed image.
THEOREM TransactionIsHonest == Spec => TransactionHonest
  <1>1. IInv' => (TransactionState' = "NOT_STARTED" => tab' = base')
    BY DEF IInv, TypeOK, Rest, InvUntouched, TransactionState, Active, Stages, WorkStages,
           Behind
  <1>2. IInv /\ IInv' /\ [Next]_vars =>
          [/\ TransactionState' = "NOT_STARTED" => tab' = base'
           /\ stage # "COMPLETE" /\ stage' = "COMPLETE" => Installed']_vars
    BY <1>1, CompleteStep
  <1> QED BY Inductive, <1>2, PTL DEF Spec, TransactionHonest

-----------------------------------------------------------------------------
(* The update implements BootSlot.                                         *)

\* The abstract phase and undertaking, as ImplementsBootSlot maps them.
SlotPhase ==
    IF TransactionState # "NOT_STARTED" THEN TransactionState
    ELSE IF Active THEN "ARMED" ELSE "IDLE"
SlotSafe == ~directMode /\ HeaderOk(base["fit"].c)
SlotImages == Fits \cup {Hybrid}

\* What the table yields is an image or nothing, and is an image where fit has
\* a good header; Absent is no image.
LEMMA LoadedAt ==
    /\ Absent \notin SlotImages
    /\ \A t : LoadedImage(t) \in SlotImages \cup {Absent}
    /\ \A t : HeaderOk(t["fit"].c) => LoadedImage(t) \in SlotImages
    /\ \A t : t["fit"] = Gone /\ HeaderOk(t["fit.old"].c) => LoadedImage(t) \in SlotImages
  <1>1. Absent \notin SlotImages
    BY ImagesAreData DEF SlotImages, Absent, Hybrid
  <1>2. \A t : LoadedImage(t) \in SlotImages \cup {Absent}
    BY DEF LoadedImage, Loads, HeaderOk, SlotImages
  <1>3. \A c : HeaderOk(c) => c # Absent /\ c \in SlotImages
    BY <1>1 DEF HeaderOk, SlotImages
  <1>4. \A t : HeaderOk(t["fit"].c) => LoadedImage(t) \in SlotImages
    BY <1>3 DEF LoadedImage, Loads, BootVolume, Present
  <1>5. \A t : t["fit"] = Gone /\ HeaderOk(t["fit.old"].c) => LoadedImage(t) \in SlotImages
    BY <1>3 DEF LoadedImage, Loads, BootVolume, Present, Gone
  <1> QED BY <1>1, <1>2, <1>4, <1>5

\* The two tables load the same if they agree on fit and fit.old.
LEMMA LoadedSame ==
    ASSUME NEW t, NEW u, t["fit"] = u["fit"], t["fit.old"] = u["fit.old"]
    PROVE  LoadedImage(t) = LoadedImage(u)
  BY DEF LoadedImage, Loads, BootVolume, Present

\* The phase by stage and write_started.
PhaseOf(s, w) ==
    IF s = "COMPLETE" THEN "COMPLETION_PROVEN"
    ELSE IF s = "IDLE" THEN "IDLE"
    ELSE IF s = "FAILED" THEN IF w THEN "WRITE_STATE_UNKNOWN" ELSE "IDLE"
    ELSE IF w THEN "IN_PROGRESS" ELSE "ARMED"

\* The mapped phase depends on these two alone, before and after a step.
LEMMA PhaseAt ==
    ASSUME IInv, IInv'
    PROVE  /\ SlotPhase = PhaseOf(stage, writeStarted)
           /\ SlotPhase' = PhaseOf(stage', writeStarted')
  <1> USE DEF SlotPhase, PhaseOf, TransactionState, Active, WorkStages, Stages
  <1>1. SlotPhase = PhaseOf(stage, writeStarted)
    BY DEF IInv, TypeOK, Rest, InvUntouched
  <1>2. SlotPhase' = PhaseOf(stage', writeStarted')
    BY DEF IInv, TypeOK, Rest, InvUntouched
  <1> QED BY <1>1, <1>2

\* The tables a stage may leave, also where the power cuts it short.
StageTables ==
    CrashTables \cup {t \in {Written(tab, Target, ram)} : stage = "STAGE_WRITE"}

\* A staged update over a good fit leaves ursus_ubi_boot an image, whatever
\* the stage and wherever it stops.
LEMMA StageYields ==
    ASSUME IInv, SlotSafe, NEW t \in StageTables
    PROVE  LoadedImage(t) \in SlotImages \/ t = tab
  <1>k. /\ Sound(tab) /\ ~directMode /\ HeaderOk(base["fit"].c) /\ need \in Nat
        /\ InvNeed /\ InvUntouched /\ InvStaged /\ InvPromoted
    BY Known DEF SlotSafe
  <1>1. CASE stage = "STAGE_PREP"
    <2>1. t \in PrepImages
      BY <1>1 DEF StageTables, CrashTables
    <2>2. need \in Nat \ {0} /\ tab = base
      BY <1>1, <1>k DEF InvNeed, InvUntouched, Active, WorkStages
    <2>3. t["fit"] = base["fit"]
      BY <1>k, <2>1, <2>2, PrepAt
    <2> QED BY <1>k, <2>3, LoadedAt
  <1>2. CASE stage = "STAGE_WRITE"
    <2>1. t \in {tab, Written(tab, Target, Torn), Written(tab, Target, ram)}
      BY <1>2 DEF StageTables, CrashTables
    <2>2. Target = "fit.new" /\ tab["fit"] = base["fit"]
      BY <1>2, <1>k DEF InvStaged, Target
    <2>3. t["fit"] = base["fit"]
      BY <1>2, <2>1, <2>2, WriteAt DEF FitVols
    <2> QED BY <1>k, <2>3, LoadedAt
  <1>3. CASE stage = "PROMOTE"
    <2>1. t \in {tab, Aside, Promoted}
      BY <1>3 DEF StageTables, CrashTables
    <2>2. tab["fit"] = base["fit"] /\ HeaderOk(tab["fit.new"].c)
      BY <1>3, <1>k DEF InvStaged
    <2>3. HeaderOk(Promoted["fit"].c)
      BY <1>k, <2>2, PromotedAt
    <2>4. Present(tab, "fit")
      BY <1>k, <2>2, LoadedAt DEF Present, HeaderOk, SlotImages
    <2>5. Aside["fit"] = Gone /\ HeaderOk(Aside["fit.old"].c)
      BY <1>k, <2>2, <2>4, PromotedAt
    <2> QED BY <2>1, <2>3, <2>5, LoadedAt
  <1>4. CASE stage = "FINAL_VERIFY"
    <2>1. t \in ResetImages \cup {tab}
      BY <1>4 DEF StageTables, CrashTables
    <2>2. HeaderOk(t["fit"].c)
      BY <1>4, <1>k, <2>1, ResetAt DEF InvPromoted, FitVols
    <2> QED BY <2>2, LoadedAt
  <1>5. CASE stage \notin {"STAGE_PREP", "STAGE_WRITE", "PROMOTE", "FINAL_VERIFY"}
    BY <1>5 DEF StageTables, CrashTables
  <1> QED BY <1>1, <1>2, <1>3, <1>4, <1>5

\* So whatever a stage leaves is what BootSlot lets a write yield.
LEMMA StageMayYield ==
    ASSUME IInv, NEW t \in StageTables
    PROVE  \/ LoadedImage(t) \in SlotImages
           \/ LoadedImage(t) = Absent /\ (~SlotSafe \/ LoadedImage(tab) = Absent)
  BY StageYields, LoadedAt

\* Any device with a fit that loads or not is an empty or a filled slot.
LEMMA SlotInit == Init => Slot!Init
  <1> SUFFICES ASSUME Init PROVE Slot!Init
    OBVIOUS
  <1>1. SlotPhase = "IDLE" /\ base = tab /\ LoadedImage(tab) \in SlotImages \cup {Absent}
        /\ SlotSafe \in BOOLEAN
    BY LoadedAt DEF Init, SlotPhase, TransactionState, Active, WorkStages, SlotSafe
  <1> QED BY <1>1 DEF Slot!Init, SlotPhase, SlotImages, SlotSafe

\* Every step of the update is a step of BootSlot or leaves it alone.
LEMMA SlotStep ==
    ASSUME IInv, IInv', [Next]_vars
    PROVE  [Slot!Next]_(Slot!vars)
  <1>k. /\ Sound(tab) /\ tab \in Tables /\ base \in Tables /\ stage \in Stages
        /\ writeStarted \in BOOLEAN /\ InvUntouched /\ InvPromoted
    BY Known
  <1>p. SlotPhase = PhaseOf(stage, writeStarted) /\ SlotPhase' = PhaseOf(stage', writeStarted')
    BY PhaseAt
  <1>l. /\ LoadedImage(tab) \in SlotImages \cup {Absent}
        /\ SlotSafe' \in BOOLEAN /\ SlotImages \in SUBSET SlotImages
    BY LoadedAt DEF SlotSafe, HeaderOk
  <1> DEFINE Kept == LoadedImage(base)' = LoadedImage(base) /\ SlotSafe' = SlotSafe
             Stutter == Kept /\ LoadedImage(tab)' = LoadedImage(tab) /\ SlotPhase' = SlotPhase
             Wrote == /\ SlotPhase \in {"ARMED", "IN_PROGRESS"} /\ Kept
                      /\ \/ /\ SlotPhase' \in {"IN_PROGRESS", "WRITE_STATE_UNKNOWN"}
                            /\ \/ LoadedImage(tab)' \in SlotImages
                               \/ /\ LoadedImage(tab)' = Absent
                                  /\ ~SlotSafe \/ LoadedImage(tab) = Absent
                         \/ /\ SlotPhase' = "COMPLETION_PROVEN"
                            /\ LoadedImage(tab)' \in SlotImages
  <1>s. Stutter => UNCHANGED Slot!vars
    BY DEF Slot!vars, SlotPhase, SlotSafe
  <1>w. Wrote => Slot!Write
    BY DEF Slot!Write, Slot!MayYield, Slot!Active, SlotPhase, SlotSafe, SlotImages
  <1>t. ASSUME tab' \in StageTables
        PROVE  \/ LoadedImage(tab)' \in SlotImages
               \/ LoadedImage(tab)' = Absent /\ (~SlotSafe \/ LoadedImage(tab) = Absent)
    <2>1. LoadedImage(tab)' = LoadedImage(tab')
      BY DEF LoadedImage, Loads, BootVolume, Present, HeaderOk
    <2> QED BY <1>t, <2>1, StageMayYield
  <1>1. ASSUME NEW keep \in BOOLEAN, Start(keep) PROVE Slot!Arm
    <2>1. /\ SlotPhase \in {"IDLE", "COMPLETION_PROVEN", "WRITE_STATE_UNKNOWN"}
          /\ SlotPhase' = "ARMED"
      BY <1>1, <1>k, <1>p DEF PhaseOf, Start, Active, WorkStages, Stages
    <2>2. LoadedImage(base)' = LoadedImage(tab) /\ LoadedImage(tab)' = LoadedImage(tab)
      BY <1>1 DEF Start, LoadedImage, Loads, BootVolume, Present, HeaderOk
    <2> QED
      BY <2>1, <2>2, <1>l
      DEF Slot!Arm, Slot!Ended, Slot!NewTerms, SlotPhase, SlotSafe, SlotImages
  <1>2. CASE Precheck
    <2>1. /\ SlotPhase = "ARMED" /\ SlotPhase' \in {"ARMED", "IDLE"}
      BY <1>2, <1>k, <1>p DEF PhaseOf, Precheck, Go, Fail, InvUntouched
    <2>2. LoadedImage(base)' = LoadedImage(base) /\ LoadedImage(tab)' = LoadedImage(tab)
      BY <1>2 DEF Precheck, LoadedImage, Loads, BootVolume, Present, HeaderOk
    <2> QED
      BY <2>1, <2>2, <1>l
      DEF Slot!Decide, Slot!FailBeforeWriting, Slot!Next, SlotPhase, SlotSafe, SlotImages
  <1>3. CASE StagePrep \/ StageWrite \/ StageVerify \/ Promote
    <2>1. /\ UNCHANGED <<base, directMode>> /\ tab' \in StageTables
      <3>1. CASE StagePrep
        BY <1>k, <3>1 DEF StagePrep, StageTables, CrashTables, PrepImages
      <3>2. CASE StageWrite
        BY <3>2 DEF StageWrite, StageTables, CrashTables
      <3>3. CASE StageVerify
        BY <3>3 DEF StageVerify, StageTables, CrashTables
      <3>4. CASE Promote
        BY <3>4 DEF Promote, StageTables, CrashTables
      <3> QED BY <1>3, <3>1, <3>2, <3>3, <3>4
    <2>2. Kept
      BY <2>1 DEF SlotSafe, LoadedImage, Loads, BootVolume, Present, HeaderOk
    <2>3. /\ SlotPhase \in {"ARMED", "IN_PROGRESS"}
          /\ SlotPhase' \in {"IN_PROGRESS", "WRITE_STATE_UNKNOWN"}
      BY <1>3, <1>k, <1>p
      DEF PhaseOf, StagePrep, StageWrite, StageVerify, Promote, Go, Fail, InvUntouched, Behind
    <2> QED BY <1>t, <1>w, <2>1, <2>2, <2>3 DEF Slot!Next
  <1>4. CASE FinalVerify
    <2>1. /\ UNCHANGED <<base, directMode>> /\ stage = "FINAL_VERIFY"
          /\ tab' \in ResetImages \cup {NoRootfs} \cup {t \in {ResetTable} : ResetPossible}
      BY <1>4 DEF FinalVerify, ResetImages
    <2>2. Kept
      BY <2>1 DEF SlotSafe, LoadedImage, Loads, BootVolume, Present, HeaderOk
    <2>3. HeaderOk(tab'["fit"].c)
      BY <1>k, <2>1, ResetAt DEF InvPromoted, FitVols
    <2>4. LoadedImage(tab)' \in SlotImages
      <3>1. LoadedImage(tab)' = LoadedImage(tab')
        BY DEF LoadedImage, Loads, BootVolume, Present, HeaderOk
      <3> QED BY <2>3, <3>1, LoadedAt
    <2>5. /\ SlotPhase = "IN_PROGRESS"
          /\ SlotPhase' \in {"WRITE_STATE_UNKNOWN", "COMPLETION_PROVEN"}
      BY <1>4, <1>k, <1>p DEF PhaseOf, FinalVerify, Go, Fail, InvUntouched, Behind
    <2> QED BY <1>w, <2>2, <2>4, <2>5 DEF Slot!Next
  <1>5. CASE ResetSettings
    <2>1. /\ UNCHANGED ctx
          /\ base' = [base EXCEPT !["rootfs_data"] = tab'["rootfs_data"]]
      BY <1>5 DEF ResetSettings
    <2>2. tab'["fit"] = tab["fit"] /\ tab'["fit.old"] = tab["fit.old"]
      BY <1>5, <1>k, ResetAt DEF ResetSettings, FitVols
    <2>3. base'["fit"] = base["fit"] /\ base'["fit.old"] = base["fit.old"]
      BY <1>k, <2>1 DEF Tables, FitVols
    <2>4. LoadedImage(base)' = LoadedImage(base) /\ LoadedImage(tab)' = LoadedImage(tab)
      BY <2>2, <2>3 DEF LoadedImage, Loads, BootVolume, Present, HeaderOk
    <2>5. SlotSafe' = SlotSafe /\ SlotPhase' = SlotPhase
      BY <1>p, <2>1, <2>3 DEF SlotSafe, HeaderOk, ctx
    <2> QED BY <1>s, <2>4, <2>5
  <1>6. CASE UNCHANGED <<tab, ctx, base>>
    <2>1. LoadedImage(base)' = LoadedImage(base) /\ LoadedImage(tab)' = LoadedImage(tab)
      BY <1>6 DEF LoadedImage, Loads, BootVolume, Present, HeaderOk
    <2>2. SlotSafe' = SlotSafe /\ SlotPhase' = SlotPhase
      BY <1>p, <1>6 DEF SlotSafe, HeaderOk, ctx
    <2> QED BY <1>s, <2>1, <2>2
  <1>7. CASE PowerLoss
    <2>1. SlotPhase' = "IDLE" /\ base' = tab' /\ tab' \in CrashTables
      BY <1>7, <1>p DEF PhaseOf, PowerLoss, Cleanup
    <2>2. LoadedImage(base)' = LoadedImage(tab)'
      BY <2>1 DEF LoadedImage, Loads, BootVolume, Present, HeaderOk
    <2>3. CASE Active
      <3>1. SlotPhase \in {"ARMED", "IN_PROGRESS"}
        BY <1>k, <1>p, <2>3 DEF PhaseOf, Active, WorkStages
      <3> QED
        BY <1>l, <1>t, <2>1, <2>2, <3>1
        DEF StageTables, Slot!Next, Slot!PowerLoss, Slot!NewTerms, Slot!Active, Slot!MayYield,
            SlotPhase, SlotSafe, SlotImages
    <2>4. CASE ~Active
      <3>1. tab' = tab
        BY <2>1, <2>4 DEF CrashTables, Active, WorkStages
      <3>2. SlotPhase \notin {"ARMED", "IN_PROGRESS"}
        BY <1>k, <1>p, <2>4 DEF PhaseOf, Active, WorkStages, Stages
      <3>3. LoadedImage(tab)' = LoadedImage(tab)
        BY <3>1 DEF LoadedImage, Loads, BootVolume, Present, HeaderOk
      <3> QED
        BY <1>l, <2>1, <2>2, <3>2, <3>3
        DEF Slot!Next, Slot!PowerLoss, Slot!NewTerms, Slot!Active, SlotPhase, SlotSafe,
            SlotImages
    <2> QED BY <2>3, <2>4
  <1>8. CASE OpenWrtRuns
    <2>1. SlotPhase' = "IDLE" /\ base' = tab' /\ ~Active
      BY <1>8, <1>p DEF PhaseOf, OpenWrtRuns, Cleanup
    <2>2. tab'["fit"] = tab["fit"] /\ tab'["fit.old"] = tab["fit.old"]
      BY <1>8, <1>k, OpenWrtAt DEF FitVols
    <2>3. LoadedImage(base)' = LoadedImage(tab) /\ LoadedImage(tab)' = LoadedImage(tab)
      BY <2>1, <2>2 DEF LoadedImage, Loads, BootVolume, Present, HeaderOk
    <2>4. SlotPhase \in {"IDLE", "COMPLETION_PROVEN", "WRITE_STATE_UNKNOWN"}
      BY <1>k, <1>p, <2>1 DEF PhaseOf, Active, WorkStages, Stages
    <2> QED
      BY <1>l, <2>1, <2>3, <2>4
      DEF Slot!Next, Slot!Forget, Slot!Ended, Slot!NewTerms, SlotPhase, SlotSafe, SlotImages
  <1> QED
    BY <1>1, <1>2, <1>3, <1>4, <1>5, <1>6, <1>7, <1>8
    DEF Next, Step, Overwrite, vars, Slot!Next

\* The staged and the direct update implement the abstract transaction on
\* what ursus_ubi_boot loads: a staged update over an image that loads never
\* empties the slot, and the reported state is true of it.
THEOREM UpdateImplementsSlot == Spec => ImplementsBootSlot
  <1>1. IInv /\ IInv' /\ [Next]_vars => [Slot!Next]_(Slot!vars)
    BY SlotStep
  <1> QED BY SlotInit, Inductive, <1>1, PTL DEF Spec, ImplementsBootSlot, Slot!Spec

=============================================================================
