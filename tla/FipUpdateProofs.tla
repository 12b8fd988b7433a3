-------------------------- MODULE FipUpdateProofs --------------------------
(***************************************************************************)
(* Proofs about the FIP update: its type invariant, the safety invariants   *)
(* and BootKept, and that on UBI it implements BootSlot, for any set of     *)
(* FIPs, any capacity of UBI, any number of faults, power losses and        *)
(* overwritten candidate buffers.                                          *)
(***************************************************************************)
EXTENDS FipUpdate, TLAPS

Tables == [VolNames -> Contents]

-----------------------------------------------------------------------------
(* The volume table operations, name by name.                              *)

\* "ubi remove": the names of D are gone, the others keep their contents.
LEMMA DropAt ==
    ASSUME NEW vt \in Tables, NEW D
    PROVE  /\ Drop(vt, D) \in Tables
           /\ \A v \in VolNames : Drop(vt, D)[v] = IF v \in D THEN Absent ELSE vt[v]
  BY DEF Drop, Tables, Contents

\* "ubi write": one volume has new contents.
LEMMA FillAt ==
    ASSUME NEW vt \in Tables, NEW n \in VolNames, NEW c \in Contents
    PROVE  /\ Fill(vt, n, c) \in Tables
           /\ \A v \in VolNames : Fill(vt, n, c)[v] = IF v = n THEN c ELSE vt[v]
  BY DEF Fill, Tables

\* "ubi create": one volume is there and blank.
LEMMA CreateAt ==
    ASSUME NEW vt \in Tables, NEW n \in VolNames
    PROVE  /\ Create(vt, n) \in Tables
           /\ \A v \in VolNames : Create(vt, n)[v] = IF v = n THEN Blank ELSE vt[v]
  BY DEF Create, Tables, Contents

\* "ubi rename": the contents move, the old name is free.
LEMMA RenameAt ==
    ASSUME NEW vt \in Tables, NEW a \in VolNames, NEW b \in VolNames, a # b
    PROVE  /\ Rename(vt, a, b) \in Tables
           /\ \A v \in VolNames : Rename(vt, a, b)[v] =
                IF v = a THEN Absent ELSE IF v = b THEN vt[a] ELSE vt[v]
  BY DEF Rename, Tables, Contents

\* ursus_ubi_atomic_switch: current becomes backup, candidate becomes current.
LEMMA SwitchAt ==
    ASSUME NEW vt \in Tables,
           NEW cur \in VolNames, NEW new \in VolNames, NEW bak \in VolNames,
           cur # new, cur # bak, new # bak
    PROVE  /\ Switch(vt, cur, new, bak) \in Tables
           /\ \A v \in VolNames : Switch(vt, cur, new, bak)[v] =
                IF v = new THEN Absent
                ELSE IF v = cur THEN vt[new]
                ELSE IF v = bak THEN vt[cur] ELSE vt[v]
  BY DEF Switch, Tables, Contents

-----------------------------------------------------------------------------
(* Types.                                                                  *)

\* The tables a stage can leave behind are tables.
LEMMA ImagesTyped ==
    ASSUME TypeOK
    PROVE  /\ PrepImages \subseteq Tables
           /\ Cleared \in Tables
           /\ Create(Cleared, "fip.new") \in Tables
           /\ Promoted \in Tables
           /\ RolledBack \in Tables
           /\ Rename(Drop(vols, {"fip.bad"}), "fip", "fip.bad") \in Tables
           /\ Fill(vols, "fip.new", Torn) \in Tables
           /\ Fill(vols, "fip.new", ram) \in Tables
  <1> vols \in Tables /\ ram \in Contents /\ Torn \in Contents
    BY DEF TypeOK, Tables, Contents
  <1>0. {"fip", "fip.new", "fip.old", "fip.bad"} = VolNames
    BY DEF VolNames
  <1>1. Cleared \in Tables /\ Create(Cleared, "fip.new") \in Tables
    BY <1>0, DropAt, CreateAt DEF Cleared
  <1>2. PrepImages \subseteq Tables
    BY <1>1, DropAt DEF PrepImages
  <1>3. Promoted \in Tables
    BY <1>0, SwitchAt, RenameAt DEF Promoted
  <1>4. Drop(vols, {"fip.bad"}) \in Tables
    BY DropAt
  <1>5. RolledBack \in Tables
    BY <1>0, <1>4, SwitchAt DEF RolledBack
  <1>6. Rename(Drop(vols, {"fip.bad"}), "fip", "fip.bad") \in Tables
    BY <1>0, <1>4, RenameAt
  <1>7. Fill(vols, "fip.new", Torn) \in Tables /\ Fill(vols, "fip.new", ram) \in Tables
    BY <1>0, FillAt
  <1> QED BY <1>1, <1>2, <1>3, <1>5, <1>6, <1>7

\* The environment volumes a reset can leave behind.
LEMMA EnvTyped ==
    ASSUME TypeOK
    PROVE  /\ EnvImages \subseteq [EnvNames -> {"ursus", "zero", Torn, Absent}]
           /\ EnvReset \in [EnvNames -> {"ursus", "zero", Torn, Absent}]
           /\ EnvAbandoned \in [EnvNames -> {"ursus", "zero", Torn, Absent}]
  BY DEF TypeOK, EnvImages, EnvReset, EnvAbandoned, EnvNames

\* The fault counter stays within its bound.
LEMMA FaultTyped ==
    ASSUME faults \in 0..MaxFaults, Fault \/ NoFault
    PROVE  faults' \in 0..MaxFaults
  BY ConstantsTyped DEF Fault, NoFault

\* Every step keeps the variables within their types.
LEMMA TypeStep == TypeOK /\ [Next]_vars => TypeOK'
  <1> SUFFICES ASSUME TypeOK, [Next]_vars PROVE TypeOK'
    OBVIOUS
  <1>i. /\ PrepImages \subseteq Tables
        /\ Cleared \in Tables
        /\ Create(Cleared, "fip.new") \in Tables
        /\ Promoted \in Tables
        /\ RolledBack \in Tables
        /\ Rename(Drop(vols, {"fip.bad"}), "fip", "fip.bad") \in Tables
        /\ Fill(vols, "fip.new", Torn) \in Tables
        /\ Fill(vols, "fip.new", ram) \in Tables
    BY ImagesTyped
  <1>e. /\ EnvImages \subseteq [EnvNames -> {"ursus", "zero", Torn, Absent}]
        /\ EnvReset \in [EnvNames -> {"ursus", "zero", Torn, Absent}]
        /\ EnvAbandoned \in [EnvNames -> {"ursus", "zero", Torn, Absent}]
    BY EnvTyped
  <1>f. (Fault \/ NoFault) => faults' \in 0..MaxFaults
    BY FaultTyped DEF TypeOK
  <1>b. Erased \in Blocks /\ NoBuffer \in Blocks
    BY DEF Erased, NoBuffer, Blocks, Contents
  <1> USE DEF TypeOK, Go, Fail, ClearContext, flash, ctx
  <1>1. ASSUME NEW k \in Kinds, Start(k) PROVE TypeOK'
    BY <1>1, <1>b DEF Start, FlashNow, Stages, WorkStages, Modes
  <1>2. ASSUME NEW k \in Kinds, StartRejected(k) PROVE TypeOK'
    <2>1. faults' \in 0..MaxFaults
      BY <1>2, <1>f DEF StartRejected
    <2> QED
      BY <1>2, <1>b, <2>1 DEF StartRejected, FlashNow, Stages, Modes, Kinds
  <1>3. CASE Precheck
    BY <1>3, <1>f DEF Precheck, Stages, WorkStages, StockStages, UbiStages
  <1>4. CASE StockBackup
    BY <1>4, <1>f DEF StockBackup, StockCopy, Stages, WorkStages, StockStages, Blocks,
                      Contents
  <1>5. CASE StockErase
    BY <1>5, <1>f, <1>b DEF StockErase, Stages, WorkStages, StockStages
  <1>6. CASE StockWrite
    BY <1>6, <1>f, <1>b DEF StockWrite, Stages, WorkStages, StockStages
  <1>7. CASE StockVerify
    BY <1>7, <1>f, <1>b DEF StockVerify, Stages, WorkStages, StockStages
  <1>8. CASE UbiAttach
    BY <1>8, <1>f DEF UbiAttach, Stages, WorkStages, UbiStages, Modes, ClassifiedMode,
       ClassifiedRet
  <1>9. CASE StagePrep
    BY <1>9, <1>f, <1>i DEF StagePrep, Stages, WorkStages, UbiStages, Modes, Tables
  <1>10. CASE StageWrite
    BY <1>10, <1>f, <1>i DEF StageWrite, Stages, WorkStages, UbiStages, Tables
  <1>11. CASE StageVerify
    BY <1>11, <1>f DEF StageVerify, Stages, WorkStages, UbiStages
  <1>12. CASE Promote
    BY <1>12, <1>f, <1>i DEF Promote, Stages, WorkStages, UbiStages, Tables
  <1>13. CASE UbiVerify
    <2>1. CASE VerifiedOk
      BY <1>13, <1>e, <1>f, <2>1 DEF UbiVerify, VerifiedOk, Stages, WorkStages, UbiStages
    <2>2. CASE VerifiedBad
      BY <1>13, <1>i, <1>f, <2>2 DEF UbiVerify, VerifiedBad, Stages, WorkStages, UbiStages,
         Tables
    <2> QED BY <1>13, <2>1, <2>2 DEF UbiVerify
  <1>14. CASE Rollback
    BY <1>14, <1>f, <1>i DEF Rollback, Stages, WorkStages, UbiStages, Tables
  <1>15. ASSUME NEW c \in Uploads, Overwrite(c) PROVE TypeOK'
    BY <1>15, ConstantsTyped DEF Overwrite
  <1>16. CASE PowerLoss
    <2>1. CrashVols \subseteq Tables
      BY <1>i DEF CrashVols, Tables
    <2>2. CrashEnv \subseteq [EnvNames -> {"ursus", "zero", Torn, Absent}]
      BY <1>e DEF CrashEnv
    <2>3. CrashBlocks \subseteq Blocks
      BY <1>b DEF CrashBlocks
    <2> QED
      BY <1>16, <1>b, <2>1, <2>2, <2>3, ConstantsTyped
      DEF PowerLoss, Stages, Kinds, Modes, Tables
  <1>17. CASE UNCHANGED vars
    BY <1>17 DEF vars
  <1> QED
    BY <1>1, <1>2, <1>3, <1>4, <1>5, <1>6, <1>7, <1>8, <1>9, <1>10, <1>11, <1>12,
       <1>13, <1>14, <1>15, <1>16, <1>17 DEF Next, Step

\* The states the device can start in are well typed.
LEMMA TypeInit == Init => TypeOK
  <1> SUFFICES ASSUME Init PROVE TypeOK
    OBVIOUS
  <1>1. mtd0 \in Blocks /\ candidate \in Blocks
    BY DEF Init, Blocks, Recognised, Fips, Contents, NoBuffer
  <1>2. capacity \in Nat /\ faults \in 0..MaxFaults
    BY ConstantsTyped DEF Init
  <1>3. env \in [EnvNames -> {"ursus", "zero", Torn, Absent}]
    BY DEF Init, EnvNames
  <1>4. stage \in Stages /\ kind \in Kinds /\ mode \in Modes
    BY DEF Init, Stages, Kinds, Modes
  <1> QED
    BY <1>1, <1>2, <1>3, <1>4 DEF Init, TypeOK, FlashNow

\* The variables of the FIP update keep their types, whatever the constants.
THEOREM TypeCorrect == Spec => []TypeOK
  BY TypeInit, TypeStep, PTL DEF Spec

-----------------------------------------------------------------------------
(* The inductive invariant.                                                *)

\* No update is armed in the initial states, so IInv holds of them.
LEMMA InvInit == Init => IInv
  <1> SUFFICES ASSUME Init PROVE IInv
    OBVIOUS
  <1>1. TypeOK
    BY TypeInit
  <1> QED
    BY <1>1 DEF Init, IInv, InvUntouched, InvLayout, InvMode, InvStaging, InvPromoted,
       CompletionProven, RollbackRestores, RepairKeepsOld, ForeignKept, FlashNow,
       UntouchedStages, StagingStages, UbiStages, StockStages, WorkStages, Active

\* Every stage of ursus_fip_update_step, every request, overwrite, power
\* loss and reader of fip keeps IInv.
LEMMA InvStep == IInv /\ [Next]_vars => IInv'
  <1> SUFFICES ASSUME IInv, [Next]_vars PROVE IInv'
    OBVIOUS
  <1>t. TypeOK /\ TypeOK'
    BY TypeStep DEF IInv
  <1> DEFINE Rest == /\ InvUntouched /\ InvLayout /\ InvMode /\ InvStaging /\ InvPromoted
                     /\ CompletionProven /\ RollbackRestores /\ RepairKeepsOld /\ ForeignKept
  <1> SUFFICES Rest'
    BY <1>t DEF IInv
  <1>r. Rest
    BY DEF IInv
  <1> USE DEF InvUntouched, InvLayout, InvMode, InvStaging, InvPromoted,
       CompletionProven, RollbackRestores, RepairKeepsOld, ForeignKept, FlashNow,
       UntouchedStages, StagingStages, UbiStages, StockStages, WorkStages, Active,
       Go, Fail, ClearContext, flash, ctx, ValidKind
  <1>1. ASSUME NEW k \in Kinds, Start(k) PROVE Rest'
    BY <1>1, <1>r, <1>t DEF Start, Acceptable, TypeOK
  <1>2. ASSUME NEW k \in Kinds, StartRejected(k) PROVE Rest'
    BY <1>2, <1>r, <1>t DEF StartRejected
  <1>3. CASE Precheck
    BY <1>3, <1>r, <1>t DEF Precheck, Acceptable, TypeOK
  <1>4. CASE StockBackup
    BY <1>4, <1>r, <1>t DEF StockBackup
  <1>5. CASE StockErase
    BY <1>5, <1>r, <1>t DEF StockErase
  <1>6. CASE StockWrite
    BY <1>6, <1>r, <1>t DEF StockWrite
  <1>7. CASE StockVerify
    BY <1>7, <1>r, <1>t DEF StockVerify
  <1>8. CASE UbiAttach
    <2>1. /\ base = FlashNow /\ ~writeStarted /\ UNCHANGED <<vols, env, mtd0, base>>
          /\ UNCHANGED <<layout, bl2Pinned, kind, writeStarted>>
          /\ layout = "UBI" /\ stage = "UBI_ATTACH" /\ mode = "NORMAL"
          /\ kind = "VANILLA" => bl2Pinned
      BY <1>8, <1>r DEF UbiAttach
    <2>2. CASE stage' = "FAILED" /\ UNCHANGED <<mode, invalidRet>>
      BY <2>1, <2>2, <1>8 DEF UbiAttach
    <2>3. CASE /\ mode' = ClassifiedMode(vols["fip"])
               /\ invalidRet' = ClassifiedRet(vols["fip"])
               /\ IF mode' # "NORMAL" /\ kind # "URSUSBOOT"
                  THEN Fail ELSE Go("UBI_STAGE_PREP")
      <3>1. /\ mode' \in Modes
            /\ mode' = "NORMAL" => vols["fip"] \in Recognised
            /\ mode' = "REPAIR_MISSING" => vols["fip"] = Absent
        BY <2>3 DEF ClassifiedMode, Modes
      <3>2. /\ mode' # "NORMAL" /\ invalidRet' = "ENODEV" =>
                 mode' = "REPAIR_INVALID" /\ vols["fip"] \in VanillaFips \cup ForeignFips
            /\ mode' = "REPAIR_INVALID" => invalidRet' # "none"
        <4>1. CASE vols["fip"] = Absent \/ vols["fip"] \in Recognised
          BY <2>3, <4>1, FipsAreData, IdentitiesDisjoint
          DEF ClassifiedMode, ClassifiedRet, Recognised, Fips
        <4>2. CASE ~(vols["fip"] = Absent \/ vols["fip"] \in Recognised)
          BY <2>3, <4>2 DEF ClassifiedMode, ClassifiedRet
        <4> QED BY <4>1, <4>2
      <3>3. kind \in {"URSUSBOOT", "VANILLA"}
        BY <1>t DEF TypeOK, Kinds
      <3>4. \/ stage' = "FAILED" /\ failedStage' = "UBI_ATTACH" /\ mode' # "NORMAL"
            \/ stage' = "UBI_STAGE_PREP" /\ (mode' = "NORMAL" \/ kind = "URSUSBOOT")
        BY <2>1, <2>3
      <3> HIDE <2>3
      <3> QED BY <2>1, <3>1, <3>2, <3>3, <3>4
    <2>4. CASE /\ mode' = "REPAIR_INVALID"
               /\ invalidRet' = "broken"
               /\ IF mode' # "NORMAL" /\ kind # "URSUSBOOT"
                  THEN Fail ELSE Go("UBI_STAGE_PREP")
      BY <2>1, <2>4, <1>t DEF TypeOK, Kinds
    <2> QED BY <1>8, <2>2, <2>3, <2>4 DEF UbiAttach
  <1>9. CASE StagePrep
    <2>1. /\ stage = "UBI_STAGE_PREP" /\ writeStarted' /\ layout = "UBI"
          /\ base = FlashNow /\ UNCHANGED <<layout, env, mtd0, bl2Pinned, kind, invalidRet, base>>
      BY <1>9, <1>r DEF StagePrep
    <2>2. /\ \A D : \A v \in VolNames : Drop(vols, D)[v] = IF v \in D THEN Absent ELSE vols[v]
          /\ Cleared \in Tables
          /\ \A v \in VolNames :
                Create(Cleared, "fip.new")[v] = IF v = "fip.new" THEN Blank ELSE Cleared[v]
      BY <1>t, DropAt, CreateAt DEF Cleared, TypeOK, Tables, VolNames
    <2>3. /\ Reclaim => mode = "REPAIR_INVALID" /\ invalidRet # "ENODEV"
          /\ mode # "NORMAL" => "fip.old" \notin PrepDrops /\ "fip.old" \notin Stale
          /\ mode = "NORMAL" => "fip.old" \in PrepDrops
          /\ "fip.bad" \in PrepDrops
          /\ "fip" \in PrepDrops <=> Reclaim
          /\ "fip" \notin Stale
      BY DEF Reclaim, PrepDrops, Stale
    <2>4. \A t \in PrepImages \cup {vols, Cleared} :
            /\ mode # "NORMAL" => t["fip.old"] = vols["fip.old"]
            /\ ~Reclaim => t["fip"] = vols["fip"]
      <3> SUFFICES ASSUME NEW t \in PrepImages \cup {vols, Cleared}
                   PROVE  /\ mode # "NORMAL" => t["fip.old"] = vols["fip.old"]
                          /\ ~Reclaim => t["fip"] = vols["fip"]
        OBVIOUS
      <3>1. "fip" \in VolNames /\ "fip.old" \in VolNames
        BY DEF VolNames
      <3>2. CASE t = vols
        BY <3>2
      <3>3. CASE t \in {Cleared, Create(Cleared, "fip.new")}
        BY <2>2, <2>3, <3>1, <3>3 DEF Cleared
      <3>4. CASE \E D \in {{}, {"fip.new"}, Stale \ {"fip.bad"}, Stale, PrepDrops} :
                   t = Drop(vols, D)
        BY <2>2, <2>3, <3>1, <3>4
      <3> QED BY <3>2, <3>3, <3>4 DEF PrepImages, Cleared
    <2>5. CASE Go("UBI_STAGE_WRITE")
      <3>1. /\ vols' = Create(Cleared, "fip.new")
            /\ mode' = IF Reclaim THEN "REPAIR_MISSING" ELSE mode
        BY <1>9, <2>1, <2>5 DEF StagePrep
      <3>2. /\ vols'["fip"] = IF Reclaim THEN Absent ELSE vols["fip"]
            /\ vols'["fip.bad"] = Absent
            /\ mode = "NORMAL" => vols'["fip.old"] = Absent
            /\ mode # "NORMAL" => vols'["fip.old"] = vols["fip.old"]
        BY <2>2, <2>3, <3>1 DEF Cleared, VolNames
      <3> HIDE DEF Reclaim
      <3> QED BY <2>1, <2>3, <2>5, <3>1, <3>2, <1>r
    <2>6. CASE Fail
      <3>1. /\ vols' \in PrepImages \cup {vols, Cleared}
            /\ mode' = mode \/ (mode' = "REPAIR_MISSING" /\ Reclaim)
        BY <1>9, <2>1, <2>6 DEF StagePrep
      <3>2. /\ mode # "NORMAL" => vols'["fip.old"] = vols["fip.old"]
            /\ ~Reclaim => vols'["fip"] = vols["fip"]
        BY <2>4, <3>1
      <3> QED BY <2>1, <2>3, <2>6, <3>1, <3>2, <1>r
    <2> QED BY <1>9, <2>5, <2>6 DEF StagePrep
  <1>10. CASE StageWrite
    <2>1. \A c \in Contents : \A v \in VolNames \ {"fip.new"} :
             Fill(vols, "fip.new", c)[v] = vols[v]
      BY <1>t, FillAt DEF TypeOK, Tables, VolNames
    <2>2. ram \in Contents /\ Torn \in Contents
      BY <1>t DEF TypeOK, Contents
    <2>3. \A v \in {"fip", "fip.old", "fip.bad"} : vols'[v] = vols[v]
      BY <1>10, <2>1, <2>2 DEF StageWrite, VolNames
    <2> QED BY <1>10, <2>3, <1>r DEF StageWrite
  <1>11. CASE StageVerify
    BY <1>11, <1>r, <1>t DEF StageVerify
  <1>12. CASE Promote
    <2>1. /\ stage = "UBI_PROMOTE" /\ writeStarted /\ writeStarted' /\ layout = "UBI"
          /\ UNCHANGED <<layout, env, mtd0, bl2Pinned, kind, mode, invalidRet, base>>
          /\ mode \in Modes
      BY <1>12, <1>r, <1>t DEF Promote, TypeOK
    <2>2. /\ Promoted["fip"] = vols["fip.new"] /\ Promoted["fip.new"] = Absent
          /\ mode = "NORMAL" => /\ Promoted["fip.old"] = vols["fip"]
                                /\ Promoted["fip.bad"] = vols["fip.bad"]
          /\ mode = "REPAIR_INVALID" => /\ Promoted["fip.bad"] = vols["fip"]
                                        /\ Promoted["fip.old"] = vols["fip.old"]
          /\ mode = "REPAIR_MISSING" => Promoted["fip.old"] = vols["fip.old"]
      BY <1>t, <2>1, SwitchAt, RenameAt DEF Promoted, Modes, VolNames, TypeOK, Tables
    <2>3. CASE vols' = Promoted /\ stage' = "UBI_VERIFY"
      BY <2>1, <2>2, <2>3, <1>r DEF Modes
    <2>4. CASE vols' \in {vols, Promoted} /\ Fail
      BY <2>1, <2>2, <2>4, <1>r DEF Modes
    <2> QED BY <1>12, <2>3, <2>4 DEF Promote
  <1>13. CASE UbiVerify
    <2>1. /\ stage = "UBI_VERIFY" /\ writeStarted /\ writeStarted' /\ layout = "UBI"
          /\ UNCHANGED <<layout, mtd0, bl2Pinned, kind, mode, invalidRet, base>>
          /\ mode \in Modes /\ kind \in Kinds
      BY <1>13, <1>r, <1>t DEF UbiVerify, TypeOK
    <2>2. CASE VerifiedOk
      <3>1. /\ vols' = vols
            /\ \/ stage' = "COMPLETE" /\ (kind = "VANILLA" => env' = EnvReset)
               \/ stage' = "UBI_ROLLBACK" /\ kind = "VANILLA"
        BY <2>1, <2>2 DEF VerifiedOk, Kinds
      <3>2. EnvReset' = EnvReset
        BY DEF EnvReset
      <3> QED BY <2>1, <3>1, <3>2, <1>r DEF Modes, Kinds
    <2>3. CASE VerifiedBad
      <3>1. LET q == Rename(Drop(vols, {"fip.bad"}), "fip", "fip.bad")
            IN  q["fip.old"] = vols["fip.old"]
        <4>1. Drop(vols, {"fip.bad"}) \in Tables
              /\ Drop(vols, {"fip.bad"})["fip.old"] = vols["fip.old"]
          BY <1>t, DropAt DEF TypeOK, Tables, VolNames
        <4> QED BY <4>1, RenameAt DEF VolNames
      <3>2. /\ vols'["fip.old"] = vols["fip.old"]
            /\ \/ mode = "REPAIR_MISSING" /\ Fail
               \/ mode # "REPAIR_MISSING" /\ stage' = "UBI_ROLLBACK" /\ vols' = vols
        BY <2>3, <3>1 DEF VerifiedBad
      <3> QED BY <2>1, <3>2, <1>r DEF Modes, Kinds
    <2> QED BY <1>13, <2>2, <2>3 DEF UbiVerify
  <1>14. CASE Rollback
    <2>1. /\ stage = "UBI_ROLLBACK" /\ writeStarted /\ writeStarted' /\ layout = "UBI"
          /\ UNCHANGED <<layout, env, mtd0, bl2Pinned, kind, mode, invalidRet, base>>
          /\ mode \in {"NORMAL", "REPAIR_INVALID"} /\ Fail
      BY <1>14, <1>r, <1>t DEF Rollback, TypeOK, Modes
    <2>2. /\ RolledBack["fip"] = base.vols["fip"]
          /\ mode = "REPAIR_INVALID" => RolledBack["fip.old"] = vols["fip.old"]
      <3>1. Drop(vols, {"fip.bad"}) \in Tables
            /\ Drop(vols, {"fip.bad"})["fip.old"] = vols["fip.old"]
        BY <1>t, DropAt DEF TypeOK, Tables, VolNames
      <3>2. CASE mode = "NORMAL"
        BY <2>1, <3>1, <3>2, <1>r, SwitchAt DEF RolledBack, VolNames
      <3>3. CASE mode = "REPAIR_INVALID"
        BY <1>t, <2>1, <3>3, <1>r, SwitchAt DEF RolledBack, VolNames, TypeOK, Tables
      <3> QED BY <2>1, <3>2, <3>3
    <2>3. \/ vols' = RolledBack
          \/ vols' = vols /\ ro'
      BY <1>14 DEF Rollback
    <2> QED BY <2>1, <2>2, <2>3, <1>r
  <1>15. ASSUME NEW c \in Uploads, Overwrite(c) PROVE Rest'
    BY <1>15, <1>r, <1>t DEF Overwrite
  <1>16. CASE PowerLoss
    BY <1>16, <1>t DEF PowerLoss
  <1>17. CASE UNCHANGED vars
    BY <1>17, <1>r DEF vars
  <1> QED
    BY <1>1, <1>2, <1>3, <1>4, <1>5, <1>6, <1>7, <1>8, <1>9, <1>10, <1>11, <1>12,
       <1>13, <1>14, <1>15, <1>16, <1>17 DEF Next, Step

\* IInv holds throughout: the invariant the safety theorems rest on.
THEOREM Inductive == Spec => []IInv
  BY InvInit, InvStep, PTL DEF Spec

-----------------------------------------------------------------------------
(* Safety.                                                                 *)

\* COMPLETION_PROVEN on UBI means a FIP of the requested kind in place and
\* the previous one kept, whatever was uploaded over the RAM buffer.
THEOREM Completion == Spec => []CompletionProven
  <1>1. IInv => CompletionProven
    BY DEF IInv
  <1> QED BY <1>1, Inductive, PTL

\* A rollback that UBI carried out puts the armed-over FIP back.
THEOREM RollbackIsExact == Spec => []RollbackRestores
  <1>1. IInv => RollbackRestores
    BY DEF IInv
  <1> QED BY <1>1, Inductive, PTL

\* Neither repair mode ever touches fip.old.
THEOREM RepairPreservesOld == Spec => []RepairKeepsOld
  <1>1. IInv => RepairKeepsOld
    BY DEF IInv
  <1> QED BY <1>1, Inductive, PTL

\* An intact foreign FIP survives the repair that displaces it.
THEOREM ForeignSurvives == Spec => []ForeignKept
  <1>1. IInv => ForeignKept
    BY DEF IInv
  <1> QED BY <1>1, Inductive, PTL

\* Both together: a repair loses nothing that could still be needed.
THEOREM RepairIsLossless == Spec => []RepairLosesNothing
  <1>1. RepairKeepsOld /\ ForeignKept => RepairLosesNothing
    BY DEF RepairLosesNothing
  <1> QED BY <1>1, RepairPreservesOld, ForeignSurvives, PTL

\* No switch of UBI_PROMOTE or UBI_ROLLBACK gives a name that is in use.
THEOREM NoNameClash == Spec => []NamesStayDistinct
  <1>1. IInv => NamesStayDistinct
    BY DEF IInv, TypeOK, Modes, InvStaging, InvPromoted, NamesStayDistinct, StagingStages, Exists
  <1> QED BY <1>1, Inductive, PTL

\* NOT_STARTED is reported of an unchanged flash only.
THEOREM NotStartedIsHonest == Spec => []NotStartedMeansUntouched
  <1>1. IInv => NotStartedMeansUntouched
    <2> SUFFICES ASSUME IInv, TransactionState = "NOT_STARTED" PROVE base = FlashNow
      BY DEF NotStartedMeansUntouched
    <2>1. stage \in Stages /\ writeStarted \in BOOLEAN
      BY DEF IInv, TypeOK
    <2>2. /\ stage # "COMPLETE"
          /\ stage = "FAILED" => ~writeStarted
          /\ Active => ~writeStarted
      BY DEF TransactionState, Active, WorkStages, StockStages, UbiStages
    <2> QED
      BY <2>1, <2>2 DEF IInv, InvUntouched, UntouchedStages, Stages, WorkStages,
         StockStages, UbiStages, Active
  <1> QED BY <1>1, Inductive, PTL

-----------------------------------------------------------------------------
(* The stock block.                                                        *)

\* From the backup on the block was one of this board's, and what will be
\* written has its surroundings.
InvStock ==
    stage \in StockStages \ {"STOCK_BACKUP"} =>
        base.mtd0.fip \in Recognised /\ candidate.rest = base.mtd0.rest

\* Both are kept by every step, given IInv: no other stage touches the block.
LEMMA StockStep ==
    IInv /\ InvStock /\ StockBlockRespected /\ [Next]_vars => (InvStock /\ StockBlockRespected)'
  <1> SUFFICES ASSUME IInv, InvStock, StockBlockRespected, [Next]_vars
               PROVE  (InvStock /\ StockBlockRespected)'
    OBVIOUS
  <1>i. InvUntouched /\ InvLayout
    BY DEF IInv
  <1> USE DEF InvStock, StockBlockRespected, StockStages, Go, Fail, flash, ctx
  <1>1. ASSUME NEW k \in Kinds, Start(k) \/ StartRejected(k)
        PROVE  (InvStock /\ StockBlockRespected)'
    BY <1>1 DEF Start, StartRejected, FlashNow
  <1>2. CASE StockBackup
    <2>1. base.mtd0 = mtd0
      BY <1>2, <1>i DEF StockBackup, InvUntouched, UntouchedStages, FlashNow
    <2> QED BY <1>2, <2>1 DEF StockBackup
  <1>3. CASE StockErase
    BY <1>3 DEF StockErase
  <1>4. CASE StockWrite
    BY <1>4 DEF StockWrite
  <1>5. CASE StockVerify
    BY <1>5 DEF StockVerify
  <1>6. CASE Precheck \/ UbiAttach \/ StagePrep \/ StageWrite \/ StageVerify \/ Promote
             \/ UbiVerify \/ Rollback
    <2>1. UNCHANGED <<mtd0, base, layout>>
      BY <1>6 DEF Precheck, UbiAttach, StagePrep, StageWrite, StageVerify, Promote, UbiVerify,
                  Rollback
    <2>2. stage' \notin StockStages \ {"STOCK_BACKUP"}
      BY <1>6 DEF Precheck, UbiAttach, StagePrep, StageWrite, StageVerify, Promote, UbiVerify,
                  VerifiedOk, VerifiedBad, Rollback
    <2>3. stage' = "COMPLETE" => layout = "UBI"
      BY <1>6, <1>i DEF Precheck, UbiAttach, StagePrep, StageWrite, StageVerify, Promote,
                        UbiVerify, Rollback, InvLayout, UbiStages
    <2> QED BY <2>1, <2>2, <2>3
  <1>7. ASSUME NEW c \in Uploads, Overwrite(c) PROVE (InvStock /\ StockBlockRespected)'
    BY <1>7 DEF Overwrite
  <1>8. CASE PowerLoss
    BY <1>8 DEF PowerLoss
  <1>9. CASE UNCHANGED vars
    BY <1>9 DEF vars
  <1> QED BY <1>1, <1>2, <1>3, <1>4, <1>5, <1>6, <1>7, <1>8, <1>9 DEF Next, Step

\* The stock boot block is rewritten only over a FIP of this board, and a
\* completed rewrite kept what lies around it.
THEOREM StockBlockIsRespected == Spec => []StockBlockRespected
  <1>1. Init => InvStock /\ StockBlockRespected
    BY DEF Init, InvStock, StockBlockRespected, FlashNow, StockStages
  <1> QED BY <1>1, StockStep, Inductive, PTL DEF Spec

-----------------------------------------------------------------------------
(* What each stage makes of the name BL2 boots from.                        *)

\* The entry "fip" of the tables a stage may leave.
LEMMA FipAt ==
    ASSUME IInv
    PROVE  /\ \A t \in PrepImages \cup {Cleared, Create(Cleared, "fip.new")} :
                t["fip"] = vols["fip"] \/ (Reclaim /\ t["fip"] = Absent)
           /\ \A c \in Contents : Fill(vols, "fip.new", c)["fip"] = vols["fip"]
           /\ Promoted["fip"] = vols["fip.new"]
           /\ Rename(Drop(vols, {"fip.bad"}), "fip", "fip.bad")["fip"] = Absent
           /\ stage = "UBI_ROLLBACK" => RolledBack["fip"] = base.vols["fip"]
  <1>t. vols \in Tables /\ mode \in Modes
    BY DEF IInv, TypeOK, Tables
  <1>v. {"fip", "fip.new", "fip.old", "fip.bad"} = VolNames
    BY DEF VolNames
  <1>d. \A D : Drop(vols, D) \in Tables
               /\ Drop(vols, D)["fip"] = IF "fip" \in D THEN Absent ELSE vols["fip"]
    BY <1>t, <1>v, DropAt
  <1>1. \A t \in PrepImages \cup {Cleared, Create(Cleared, "fip.new")} :
          t["fip"] = vols["fip"] \/ (Reclaim /\ t["fip"] = Absent)
    <2>1. "fip" \notin Stale /\ ("fip" \in PrepDrops => Reclaim)
      BY DEF PrepDrops, Stale
    <2>2. /\ Cleared \in Tables
          /\ Cleared["fip"] = vols["fip"] \/ (Reclaim /\ Cleared["fip"] = Absent)
      BY <1>d, <2>1 DEF Cleared
    <2>3. Create(Cleared, "fip.new")["fip"] = Cleared["fip"]
      BY <1>v, <2>2, CreateAt
    <2> QED BY <1>d, <2>1, <2>2, <2>3 DEF PrepImages
  <1>2. \A c \in Contents : Fill(vols, "fip.new", c)["fip"] = vols["fip"]
    BY <1>t, <1>v, FillAt
  <1>3. Promoted["fip"] = vols["fip.new"]
    BY <1>t, <1>v, SwitchAt, RenameAt DEF Promoted, Modes
  <1>4. Rename(Drop(vols, {"fip.bad"}), "fip", "fip.bad")["fip"] = Absent
    BY <1>d, <1>v, RenameAt
  <1>5. ASSUME stage = "UBI_ROLLBACK" PROVE RolledBack["fip"] = base.vols["fip"]
    <2>i. InvPromoted /\ mode # "REPAIR_MISSING"
      BY <1>5 DEF IInv, InvPromoted
    <2>1. CASE mode = "NORMAL"
      <3>1. Drop(vols, {"fip.bad"}) \in Tables
            /\ Drop(vols, {"fip.bad"})["fip.old"] = vols["fip.old"]
        BY <1>t, <1>v, DropAt
      <3> QED BY <1>5, <1>v, <2>i, <2>1, <3>1, SwitchAt DEF RolledBack, InvPromoted
    <2>2. CASE mode = "REPAIR_INVALID"
      BY <1>5, <1>t, <1>v, <2>i, <2>2, SwitchAt DEF RolledBack, InvPromoted
    <2> QED BY <1>t, <2>i, <2>1, <2>2 DEF Modes
  <1> QED BY <1>1, <1>2, <1>3, <1>4, <1>5

\* What a promotion installs is of the kind asked for, and a rollback that
\* was not given up has a FIP to go back to.
LEMMA TargetsIntact ==
    ASSUME IInv
    PROVE  /\ stage = "UBI_PROMOTE" => ValidKind(kind, vols["fip.new"], FALSE)
           /\ stage = "UBI_VERIFY" => ValidKind(kind, vols["fip"], FALSE)
           /\ \A c : ValidKind(kind, c, FALSE) => c \in Fips
           /\ stage = "UBI_ROLLBACK" /\ ~GivesUpFip => base.vols["fip"] \in Fips
           /\ Reclaim => GivesUpFip
  <1>t. mode \in Modes /\ invalidRet \in {"none", "ENODEV", "broken"} /\ InvMode /\ InvPromoted
    BY DEF IInv, TypeOK
  <1>1. stage = "UBI_PROMOTE" => ValidKind(kind, vols["fip.new"], FALSE)
    BY DEF IInv, InvStaging, StagingStages
  <1>2. stage = "UBI_VERIFY" => ValidKind(kind, vols["fip"], FALSE)
    BY <1>t DEF InvPromoted
  <1>3. \A c : ValidKind(kind, c, FALSE) => c \in Fips
    BY DEF ValidKind, Fips
  <1>4. Reclaim => GivesUpFip
    BY <1>t DEF Reclaim, GivesUpFip, InvMode
  <1>5. ASSUME stage = "UBI_ROLLBACK", ~GivesUpFip PROVE base.vols["fip"] \in Fips
    BY <1>t, <1>5 DEF GivesUpFip, InvMode, Modes, UbiStages, Fips, Recognised
  <1> QED BY <1>1, <1>2, <1>3, <1>4, <1>5

-----------------------------------------------------------------------------
(* The action property.                                                    *)

\* The tables a stage may leave: each keeps a bootable fip that was not
\* given up.
LEMMA KeptByStep ==
    ASSUME IInv, [Next]_vars, Intact(vols["fip"]), ~GivesUpFip
    PROVE  Intact(vols'["fip"])
  <1>t. mode # "REPAIR_MISSING" /\ ~Reclaim /\ ram \in Contents /\ Torn \in Contents
    BY TargetsIntact DEF IInv, TypeOK, GivesUpFip, Contents
  <1>1. vols' = vols \/ Step \/ PowerLoss
    BY DEF Next, Start, StartRejected, Overwrite, flash, vars
  <1>2. CASE vols' = vols
    BY <1>2
  <1>3. CASE Step /\ vols' # vols
    <2>1. CASE StagePrep
      BY <1>t, <1>3, <2>1, FipAt DEF StagePrep
    <2>2. CASE StageWrite
      BY <1>t, <1>3, <2>2, FipAt DEF StageWrite
    <2>3. CASE Promote
      BY <1>3, <2>3, FipAt, TargetsIntact DEF Promote, Intact
    <2>4. CASE UbiVerify
      BY <1>t, <1>3, <2>4 DEF UbiVerify, VerifiedOk, VerifiedBad
    <2>5. CASE Rollback
      BY <1>3, <2>5, FipAt, TargetsIntact DEF Rollback, Intact
    <2> QED
      BY <1>3, <2>1, <2>2, <2>3, <2>4, <2>5 DEF Step, Precheck, StockBackup, StockErase,
         StockWrite, StockVerify, UbiAttach, StageVerify, flash
  <1>4. CASE PowerLoss
    BY <1>t, <1>4, FipAt, TargetsIntact DEF PowerLoss, CrashVols, Intact
  <1> QED BY <1>1, <1>2, <1>3, <1>4

\* BootKept: from a bootable fip every step, fault and power loss leads to a
\* bootable fip, unless the fip was called broken or is being created.
THEOREM BootIsKept == Spec => BootKept
  <1>1. IInv /\ [Next]_vars =>
          [Intact(vols["fip"]) /\ ~GivesUpFip => Intact(vols'["fip"])]_vars
    BY KeptByStep
  <1> QED BY <1>1, Inductive, PTL DEF Spec, BootKept

-----------------------------------------------------------------------------
(* On UBI the update implements BootSlot.                                  *)

\* The abstract phase and terms, as ImplementsBootSlot maps them.
SlotPhase ==
    IF TransactionState # "NOT_STARTED" THEN TransactionState
    ELSE IF Active THEN "ARMED" ELSE "IDLE"
SlotGoal == {c \in Fips : ValidKind(kind, c, FALSE)}
SlotSafe == ~GivesUpFip
SlotNow == BootImage(vols["fip"])
SlotOld == BootImage(base.vols["fip"])

\* The phase by stage and write_started.
PhaseOf(s, w) ==
    IF s = "COMPLETE" THEN "COMPLETION_PROVEN"
    ELSE IF s = "IDLE" THEN "IDLE"
    ELSE IF s = "FAILED" THEN IF w THEN "WRITE_STATE_UNKNOWN" ELSE "IDLE"
    ELSE IF w THEN "IN_PROGRESS" ELSE "ARMED"

\* The mapped phase depends on these two alone, before and after a step.
LEMMA PhaseAt ==
    ASSUME IInv, IInv'
    PROVE  /\ SlotPhase = PhaseOf(stage, writeStarted)
           /\ SlotPhase' = PhaseOf(stage', writeStarted')
  <1> USE DEF SlotPhase, PhaseOf, TransactionState, Active, WorkStages, Stages, StockStages,
              UbiStages
  <1>1. SlotPhase = PhaseOf(stage, writeStarted)
    BY DEF IInv, TypeOK, InvUntouched, UntouchedStages
  <1>2. SlotPhase' = PhaseOf(stage', writeStarted')
    BY DEF IInv, TypeOK, InvUntouched, UntouchedStages
  <1> QED BY <1>1, <1>2

\* What BootSlot lets a write make of the slot.
Yields(c) ==
    \/ BootImage(c) \in {SlotNow, SlotOld} \cap Fips
    \/ BootImage(c) \in SlotGoal
    \/ BootImage(c) = Absent /\ (~SlotSafe \/ SlotNow = Absent)

\* The contents of fip that fall under it.
LEMMA YieldsIf ==
    ASSUME NEW c
    PROVE  /\ BootImage(c) \in Fips \cup {Absent}
           /\ c = vols["fip"] => Yields(c)
           /\ c \in Fips /\ ValidKind(kind, c, FALSE) => Yields(c)
           /\ c = Absent /\ GivesUpFip => Yields(c)
           /\ c = base.vols["fip"] /\ (c \in Fips \/ GivesUpFip) => Yields(c)
  BY DEF Yields, BootImage, SlotNow, SlotOld, SlotGoal, SlotSafe

\* The tables a stage may leave, also where the power cuts it short.
StageVols ==
    CrashVols
      \cup {t \in {vols} \cup {Cleared, Create(Cleared, "fip.new")} : stage = "UBI_STAGE_PREP"}
      \cup {t \in {Fill(vols, "fip.new", ram)} : stage = "UBI_STAGE_WRITE"}
      \cup {t \in {Rename(Drop(vols, {"fip.bad"}), "fip", "fip.bad")} :
               stage = "UBI_VERIFY" /\ mode = "REPAIR_MISSING"}

\* Wherever a stage stops, fip is the old one, one of the kind asked for, or
\* was given up.
LEMMA StageYields ==
    ASSUME IInv, NEW t \in StageVols
    PROVE  Yields(t["fip"])
  <1>t. ram \in Contents /\ Torn \in Contents
    BY DEF IInv, TypeOK, Contents
  <1>1. CASE stage = "UBI_STAGE_PREP"
    <2>1. t \in PrepImages \cup {vols, Cleared, Create(Cleared, "fip.new")}
      BY <1>1 DEF StageVols, CrashVols
    <2>2. t["fip"] = vols["fip"] \/ (GivesUpFip /\ t["fip"] = Absent)
      BY <2>1, FipAt, TargetsIntact
    <2> QED BY <2>2, YieldsIf
  <1>2. CASE stage = "UBI_STAGE_WRITE"
    <2>1. t \in {vols, Fill(vols, "fip.new", Torn), Fill(vols, "fip.new", ram)}
      BY <1>2 DEF StageVols, CrashVols
    <2>2. t["fip"] = vols["fip"]
      BY <1>t, <2>1, FipAt
    <2> QED BY <2>2, YieldsIf
  <1>3. CASE stage = "UBI_PROMOTE"
    <2>1. t \in {vols, Promoted}
      BY <1>3 DEF StageVols, CrashVols
    <2>2. t["fip"] = vols["fip"] \/ ValidKind(kind, t["fip"], FALSE)
      BY <1>3, <2>1, FipAt, TargetsIntact
    <2> QED BY <2>2, YieldsIf, TargetsIntact
  <1>4. CASE stage = "UBI_ROLLBACK"
    <2>1. t \in {vols, RolledBack}
      BY <1>4 DEF StageVols, CrashVols
    <2>2. RolledBack["fip"] = base.vols["fip"] /\ (base.vols["fip"] \in Fips \/ GivesUpFip)
      BY <1>4, FipAt, TargetsIntact
    <2> QED BY <2>1, <2>2, YieldsIf
  <1>5. CASE stage = "UBI_VERIFY"
    <2>1. t = vols \/ (mode = "REPAIR_MISSING"
                       /\ t = Rename(Drop(vols, {"fip.bad"}), "fip", "fip.bad"))
      BY <1>5 DEF StageVols, CrashVols
    <2>2. t["fip"] = vols["fip"] \/ (GivesUpFip /\ t["fip"] = Absent)
      BY <2>1, FipAt DEF GivesUpFip
    <2> QED BY <2>2, YieldsIf
  <1>6. CASE stage \notin {"UBI_STAGE_PREP", "UBI_STAGE_WRITE", "UBI_PROMOTE", "UBI_ROLLBACK",
                           "UBI_VERIFY"}
    <2>1. t = vols
      BY <1>6 DEF StageVols, CrashVols
    <2> QED BY <2>1, YieldsIf
  <1> QED BY <1>1, <1>2, <1>3, <1>4, <1>5, <1>6

\* A device on UBI, whatever its fip, is an empty or a filled slot.
LEMMA SlotInit == Init => Slot!Init
  <1> SUFFICES ASSUME Init PROVE Slot!Init
    OBVIOUS
  <1>1. /\ SlotPhase = "IDLE" /\ SlotNow = SlotOld /\ SlotNow \in Fips \cup {Absent}
        /\ SlotGoal \in SUBSET Fips /\ SlotSafe \in BOOLEAN
    BY YieldsIf
    DEF Init, SlotPhase, TransactionState, Active, WorkStages, StockStages, UbiStages, SlotNow,
        SlotOld, SlotGoal, SlotSafe, FlashNow, GivesUpFip
  <1> QED BY <1>1 DEF Slot!Init, SlotPhase, SlotNow, SlotOld, SlotGoal, SlotSafe

\* The stages of a transaction on UBI; no other is reached there.
LEMMA UbiOnly ==
    ASSUME IInv, layout = "UBI", Step
    PROVE  Precheck \/ UbiAttach \/ StagePrep \/ StageWrite \/ StageVerify \/ Promote
             \/ UbiVerify \/ Rollback
  BY DEF Step, IInv, InvLayout, StockStages, StockBackup, StockErase, StockWrite, StockVerify

\* Every step on UBI is a step of BootSlot or leaves it alone.
LEMMA SlotStep ==
    ASSUME IInv, IInv', [Next]_vars, layout = "UBI"
    PROVE  [Slot!Next]_(Slot!vars)
  <1>k. /\ stage \in Stages /\ writeStarted \in BOOLEAN /\ mode \in Modes
        /\ invalidRet \in {"none", "ENODEV", "broken"} /\ InvUntouched /\ InvMode
    BY DEF IInv, TypeOK
  <1>p. SlotPhase = PhaseOf(stage, writeStarted) /\ SlotPhase' = PhaseOf(stage', writeStarted')
    BY PhaseAt
  <1>l. SlotGoal' \in SUBSET Fips /\ SlotSafe' \in BOOLEAN
    BY DEF SlotGoal, SlotSafe, GivesUpFip, Fips
  <1>w. WorkStages = {"PRECHECK", "STOCK_BACKUP", "STOCK_ERASE", "STOCK_WRITE", "STOCK_VERIFY",
                      "UBI_ATTACH", "UBI_STAGE_PREP", "UBI_STAGE_WRITE", "UBI_STAGE_VERIFY",
                      "UBI_PROMOTE", "UBI_VERIFY", "UBI_ROLLBACK"}
        /\ Stages = {"IDLE", "COMPLETE", "FAILED"} \cup WorkStages
    BY DEF WorkStages, StockStages, UbiStages, Stages
  <1>o. ~Active => SlotPhase \in {"IDLE", "COMPLETION_PROVEN", "WRITE_STATE_UNKNOWN"}
    BY <1>k, <1>p, <1>w DEF PhaseOf, Active
  <1> DEFINE Kept == SlotOld' = SlotOld /\ SlotGoal' = SlotGoal
             Wrote == /\ SlotPhase \in {"ARMED", "IN_PROGRESS"} /\ Kept
                      /\ SlotSafe' = SlotSafe
                      /\ \/ /\ SlotPhase' \in {"IN_PROGRESS", "WRITE_STATE_UNKNOWN"}
                            /\ Yields(vols'["fip"])
                         \/ SlotPhase' = "COMPLETION_PROVEN" /\ SlotNow' \in SlotGoal
  <1>n. SlotNow' = BootImage(vols'["fip"]) /\ SlotOld' = BootImage(base'.vols["fip"])
    BY DEF SlotNow, SlotOld, BootImage
  <1>s. Kept /\ SlotNow' = SlotNow /\ SlotPhase' = SlotPhase /\ SlotSafe' = SlotSafe
          => UNCHANGED Slot!vars
    BY DEF Slot!vars, SlotPhase, SlotNow, SlotOld, SlotGoal, SlotSafe
  <1>m. Yields(vols'["fip"]) <=> Slot!MayYield(SlotNow')
    BY <1>n DEF Slot!MayYield, Yields, SlotNow, SlotOld, SlotGoal, SlotSafe
  <1>x. Wrote => Slot!Write
    BY <1>m DEF Slot!Write, Slot!Active, SlotPhase, SlotNow, SlotOld, SlotGoal, SlotSafe
  <1>g. UNCHANGED kind => SlotGoal' = SlotGoal
    BY DEF SlotGoal
  <1>1. ASSUME NEW k \in Kinds, Start(k) PROVE Slot!Arm
    <2>1. SlotPhase' = "ARMED" /\ SlotNow' = SlotNow /\ SlotOld' = SlotNow /\ ~Active
      BY <1>1, <1>n, <1>p DEF PhaseOf, Start, ClearContext, flash, FlashNow, SlotNow
    <2> QED
      BY <2>1, <1>l, <1>o
      DEF Slot!Arm, Slot!Ended, Slot!NewTerms, SlotPhase, SlotNow, SlotOld, SlotGoal, SlotSafe
  <1>2. ASSUME NEW k \in Kinds, StartRejected(k) PROVE Slot!Forget
    <2>1. SlotPhase' = "IDLE" /\ SlotNow' = SlotNow /\ SlotOld' = SlotNow /\ ~Active
      BY <1>2, <1>n, <1>p DEF PhaseOf, StartRejected, ClearContext, flash, FlashNow, SlotNow
    <2> QED
      BY <2>1, <1>l, <1>o
      DEF Slot!Forget, Slot!Ended, Slot!NewTerms, SlotPhase, SlotNow, SlotOld, SlotGoal, SlotSafe
  <1>3. CASE Precheck \/ UbiAttach
    <2>1. SlotPhase = "ARMED" /\ SlotPhase' \in {"ARMED", "IDLE"}
      BY <1>3, <1>k, <1>p
      DEF PhaseOf, Precheck, UbiAttach, Go, Fail, InvUntouched, UntouchedStages
    <2>2. UNCHANGED <<vols, base, kind>>
      BY <1>3 DEF Precheck, UbiAttach, flash
    <2>3. Kept /\ SlotNow' = SlotNow
      BY <1>g, <1>n, <2>2 DEF SlotNow, SlotOld
    <2> QED
      BY <1>l, <2>1, <2>3
      DEF Slot!Next, Slot!Decide, Slot!FailBeforeWriting, SlotPhase, SlotNow, SlotOld, SlotGoal,
          SlotSafe
  <1>4. CASE StagePrep
    <2>1. /\ UNCHANGED <<base, kind, invalidRet>> /\ stage = "UBI_STAGE_PREP"
          /\ vols' \in StageVols
          /\ mode' = mode \/ (mode' = "REPAIR_MISSING" /\ Reclaim)
      BY <1>4 DEF StagePrep, StageVols, CrashVols
    <2>2. Kept
      BY <1>g, <1>n, <2>1 DEF SlotOld
    <2>3. SlotSafe' = SlotSafe
      BY <1>k, <2>1, TargetsIntact DEF SlotSafe, GivesUpFip
    <2>4. /\ SlotPhase = "ARMED"
          /\ SlotPhase' \in {"IN_PROGRESS", "WRITE_STATE_UNKNOWN"}
      BY <1>4, <1>k, <1>p DEF PhaseOf, StagePrep, Go, Fail, InvUntouched, UntouchedStages
    <2>5. Yields(vols'["fip"])
      BY <2>1, StageYields
    <2> QED BY <1>x, <2>2, <2>3, <2>4, <2>5 DEF Slot!Next
  <1>5. CASE StageWrite \/ StageVerify \/ Promote \/ UbiVerify \/ Rollback
    <2>1. UNCHANGED <<base, kind, mode, invalidRet>> /\ vols' \in StageVols
      <3>1. CASE StageWrite
        BY <3>1 DEF StageWrite, StageVols, CrashVols
      <3>2. CASE StageVerify
        BY <3>2 DEF StageVerify, StageVols, CrashVols, flash
      <3>3. CASE Promote
        BY <3>3 DEF Promote, StageVols, CrashVols
      <3>4. CASE UbiVerify
        BY <3>4 DEF UbiVerify, VerifiedOk, VerifiedBad, StageVols, CrashVols
      <3>5. CASE Rollback
        BY <3>5 DEF Rollback, StageVols, CrashVols
      <3> QED BY <1>5, <3>1, <3>2, <3>3, <3>4, <3>5
    <2>2. Kept /\ SlotSafe' = SlotSafe
      BY <1>g, <1>n, <2>1 DEF SlotOld, SlotSafe, GivesUpFip
    <2>3. SlotPhase = "IN_PROGRESS"
      BY <1>5, <1>k, <1>p, <1>w
      DEF PhaseOf, StageWrite, StageVerify, Promote, UbiVerify, Rollback, InvUntouched,
          UntouchedStages
    <2>4. \/ SlotPhase' \in {"IN_PROGRESS", "WRITE_STATE_UNKNOWN"}
          \/ SlotPhase' = "COMPLETION_PROVEN" /\ UbiVerify /\ VerifiedOk
      <3>1. CASE StageWrite \/ StageVerify \/ Promote \/ Rollback
        BY <3>1, <1>k, <1>p
        DEF PhaseOf, StageWrite, StageVerify, Promote, Rollback, Go, Fail, InvUntouched,
            UntouchedStages, WorkStages, UbiStages
      <3>2. CASE UbiVerify
        <4>1. writeStarted' /\ UbiVerify
          BY <3>2, <1>k, <1>w DEF UbiVerify, InvUntouched, UntouchedStages
        <4>2. stage' \in {"COMPLETE", "UBI_ROLLBACK", "FAILED"}
              /\ (stage' = "COMPLETE" => VerifiedOk)
          BY <3>2 DEF UbiVerify, VerifiedOk, VerifiedBad, Go, Fail
        <4> QED BY <1>p, <4>1, <4>2 DEF PhaseOf
      <3> QED BY <1>5, <3>1, <3>2
    <2>5. UbiVerify /\ VerifiedOk => SlotNow' \in SlotGoal
      BY <1>n, TargetsIntact DEF UbiVerify, VerifiedOk, SlotGoal, BootImage
    <2>6. Yields(vols'["fip"])
      BY <2>1, StageYields
    <2> QED BY <1>x, <2>2, <2>3, <2>4, <2>5, <2>6 DEF Slot!Next
  <1>6. CASE UNCHANGED <<flash, ctx, base>>
    <2>1. Kept /\ SlotNow' = SlotNow /\ SlotPhase' = SlotPhase /\ SlotSafe' = SlotSafe
      BY <1>6, <1>g, <1>n, <1>p DEF flash, ctx, SlotNow, SlotOld, SlotSafe, GivesUpFip
    <2> QED BY <1>s, <2>1
  <1>7. CASE PowerLoss
    <2>1. SlotPhase' = "IDLE" /\ vols' \in CrashVols /\ base'.vols = vols'
      BY <1>7, <1>p DEF PhaseOf, PowerLoss
    <2>2. SlotOld' = SlotNow'
      BY <1>n, <2>1
    <2>3. Yields(vols'["fip"])
      BY <2>1, StageYields DEF StageVols
    <2>4. SlotPhase \notin {"ARMED", "IN_PROGRESS"} => SlotNow' = SlotNow
      <3>1. SlotPhase \notin {"ARMED", "IN_PROGRESS"} => stage \notin WorkStages
        BY <1>k, <1>p, <1>w DEF PhaseOf
      <3>2. stage \notin WorkStages => vols' = vols
        BY <2>1, <1>w DEF CrashVols
      <3> QED BY <3>1, <3>2, <1>n DEF SlotNow
    <2> QED
      BY <1>l, <1>m, <2>1, <2>2, <2>3, <2>4
      DEF Slot!Next, Slot!PowerLoss, Slot!NewTerms, Slot!Active, SlotPhase, SlotNow, SlotOld,
          SlotGoal, SlotSafe
  <1> QED
    BY <1>1, <1>2, <1>3, <1>4, <1>5, <1>6, <1>7, UbiOnly
    DEF Next, Overwrite, vars, Slot!Next

\* Through every failure and power loss a device on UBI has the old FIP, one
\* of the kind asked for or a given-up slot under the name BL2 boots, and the
\* reported state is true of it.
THEOREM UpdateImplementsSlot == layout = "UBI" /\ Spec => ImplementsBootSlot
  <1>1. layout = "UBI" /\ [Next]_vars => (layout = "UBI")'
    BY DEF Next, Step, Start, StartRejected, Precheck, StockBackup, StockErase, StockWrite,
           StockVerify, UbiAttach, StagePrep, StageWrite, StageVerify, Promote, UbiVerify,
           Rollback, Overwrite, PowerLoss, flash, vars
  <1>2. IInv /\ IInv' /\ [Next]_vars /\ layout = "UBI" => [Slot!Next]_(Slot!vars)
    BY SlotStep
  <1> QED BY SlotInit, Inductive, <1>1, <1>2, PTL DEF Spec, ImplementsBootSlot, Slot!Spec

=============================================================================
