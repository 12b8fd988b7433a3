--------------------------- MODULE SharedUbiProofs ---------------------------
(***************************************************************************)
(* Proofs about the two updates and the settings reset on one UBI device:   *)
(* volume ids and LEBs are accounted for, an admitted OpenWrt update misses  *)
(* its room only where a FIP update or the bad-block reserve took it, and    *)
(* no OpenWrt update takes the room of the next FIP update.  For every size  *)
(* of the device, of the images and of a FIP volume that HeadroomForFips     *)
(* allows, and any number of lost blocks.                                   *)
(***************************************************************************)
EXTENDS SharedUbi, FiniteSetTheorems, TLAPS

OtherVols == FitVols \cup {"rootfs_data"}

\* The LEBs of the bootloaders, and all that the other volumes leave for them.
FipSum(t) == t["fip"].n + FipLeft(t)
Rest(t) == TotalLebs - (t["fit"].n + FitLeft(t) + t["rootfs_data"].n)

Holders(t, x) == {v \in Names : t[v].id = x}

IdsOk(t) ==
    /\ Cardinality(Holders(t, "low")) <= LowIds
    /\ Cardinality(Holders(t, "six")) <= 1

Sized(t) ==
    /\ t \in [Names -> Volumes]
    /\ \A v \in Names : t[v].n = 0 <=> t[v].id = NoId
    /\ \A v \in FipVols : t[v].n \in {0, FipLebs}
    /\ Free(t) >= 0

\* No more LEBs and ids are given out than there are.
TableOk(t) == Sized(t) /\ IdsOk(t)

\* Four bootloaders are never kept at once: fip.bad is removed before fip.new
\* is created.
InvFips == FipSum(vol) <= 3 * FipLebs

\* An update that runs has an image.
InvRunning == FitActive => fit.need \in Needs

\* From PRECHECK to STAGE_PREP of a staged update: room for the image beside
\* as many bootloaders as there can be; or, where the bad-block reserve was
\* short, the volumes that make way have room for the image and the margin.
InvStaged ==
    fit.stage = "STAGE_PREP" /\ ~fit.direct =>
        \/ Rest(vol) + FitLeft(vol) >= fit.need + 3 * FipLebs + lost
        \/ FitLeft(vol) >= fit.need + StagedHeadroom

\* Of a direct one: the image fits in place of fit, as long as no FIP update
\* has created a volume, or did at a short reserve, with the margin; and two
\* bootloaders fit beside it, unless it takes no more than the volumes that
\* make way for it.
InvDirect ==
    fit.stage = "STAGE_PREP" /\ fit.direct =>
        /\ ~taken => \/ Free(vol) + FitLeft(vol) + vol["fit"].n >= fit.need + lost
                     \/ FitLeft(vol) + vol["fit"].n
                           >= fit.need + DirectMargin(FitLeft(vol))
        /\ \/ Rest(vol) + FitLeft(vol) + vol["fit"].n >= fit.need + 2 * FipLebs + lost
           \/ FitLeft(vol) + vol["fit"].n >= fit.need

IInv ==
    /\ TypeOK
    /\ TableOk(vol)
    /\ InvFips
    /\ InvRunning
    /\ InvStaged
    /\ InvDirect

-----------------------------------------------------------------------------
(* Ids.                                                                    *)

\* Whoever holds an id is one of finitely many volumes.
LEMMA HoldersFinite ==
  ASSUME NEW S \in SUBSET Names
  PROVE  IsFiniteSet(S) /\ Cardinality(S) \in Nat
  <1>1. \A a, b : IsFiniteSet({a} \cup {b})
    BY FS_Singleton, FS_Union
  <1>2. \A a, b, c, d : IsFiniteSet(({a} \cup {b}) \cup ({c} \cup {d}))
    BY <1>1, FS_Union
  <1>3. Names = (({"fip"} \cup {"fip.new"}) \cup ({"fip.old"} \cup {"fip.bad"}))
                \cup (({"fit"} \cup {"fit.new"}) \cup ({"fit.old"} \cup {"rootfs_data"}))
    BY DEF Names, FipVols, FitVols
  <1>4. IsFiniteSet(Names)
    BY <1>2, <1>3, FS_Union
  <1>5. IsFiniteSet(S)
    BY <1>4, FS_Subset
  <1> QED BY <1>5, FS_CardinalityType

\* Fewer holders, fewer of them.
LEMMA FewerHolders ==
  ASSUME NEW S \in SUBSET Names, NEW R \in SUBSET S
  PROVE  Cardinality(R) <= Cardinality(S)
  BY HoldersFinite, FS_Subset

\* A holder that is replaced by another: there are no more than before.
LEMMA HolderMoves ==
  ASSUME NEW S \in SUBSET Names, NEW a \in S, NEW b \in Names
  PROVE  Cardinality((S \ {a}) \cup {b}) <= Cardinality(S)
  <1>1. IsFiniteSet(S) /\ Cardinality(S) \in Nat
    BY HoldersFinite
  <1>2. IsFiniteSet(S \ {a}) /\ Cardinality(S \ {a}) = Cardinality(S) - 1
    BY <1>1, FS_RemoveElement
  <1>3. Cardinality((S \ {a}) \cup {b}) =
          IF b \in S \ {a} THEN Cardinality(S \ {a}) ELSE Cardinality(S \ {a}) + 1
    BY <1>2, FS_AddElement
  <1> QED BY <1>1, <1>2, <1>3

\* Removing volumes gives their ids back (ubi_remove_vol).
LEMMA RemovedIds ==
  ASSUME NEW t, IdsOk(t), NEW V
  PROVE  IdsOk(Removed(t, V))
  <1>1. \A x \in Ids : Holders(Removed(t, V), x) \subseteq Holders(t, x)
    BY DEF Holders, Removed, Gone, Ids, NoId
  <1>2. \A x \in Ids : /\ Cardinality(Holders(Removed(t, V), x)) <= Cardinality(Holders(t, x))
                       /\ Cardinality(Holders(Removed(t, V), x)) \in Nat
                       /\ Cardinality(Holders(t, x)) \in Nat
    BY <1>1, FewerHolders, HoldersFinite DEF Holders
  <1> QED BY <1>2 DEF IdsOk, Ids, LowIds

\* A renamed volume keeps its id (ubi_rename_vol), and the one whose name it
\* takes gives its own back.
LEMMA RenamedIds ==
  ASSUME NEW t, t \in [Names -> Volumes], IdsOk(t),
         NEW a \in Names, NEW b \in Names, a # b
  PROVE  IdsOk(Renamed(t, a, b))
  <1> DEFINE u == Renamed(t, a, b)
  <1>0. /\ \A v \in Names : u[v] = IF v = a THEN Gone ELSE IF v = b THEN t[a] ELSE t[v]
    BY DEF Renamed
  <1> HIDE DEF u
  <1>1. ASSUME NEW x \in Ids
        PROVE  /\ Cardinality(Holders(u, x)) <= Cardinality(Holders(t, x))
               /\ Cardinality(Holders(u, x)) \in Nat
               /\ Cardinality(Holders(t, x)) \in Nat
    <2>1. Holders(u, x) \in SUBSET Names /\ Holders(t, x) \in SUBSET Names
      BY DEF Holders
    <2>2. CASE t[a].id = x
      <3>1. a \in Holders(t, x)
        BY <2>2 DEF Holders
      <3>2. Holders(u, x) \subseteq (Holders(t, x) \ {a}) \cup {b}
        BY <1>0 DEF Holders, Gone, Ids, NoId
      <3>3. (Holders(t, x) \ {a}) \cup {b} \in SUBSET Names
        BY <2>1
      <3>4. Cardinality((Holders(t, x) \ {a}) \cup {b}) <= Cardinality(Holders(t, x))
        BY <2>1, <3>1, HolderMoves
      <3>5. Cardinality(Holders(u, x)) <= Cardinality((Holders(t, x) \ {a}) \cup {b})
        BY <3>2, <3>3, FewerHolders
      <3>6. Cardinality((Holders(t, x) \ {a}) \cup {b}) \in Nat
        BY <3>3, HoldersFinite
      <3> QED BY <2>1, <3>4, <3>5, <3>6, HoldersFinite
    <2>3. CASE t[a].id # x
      <3>1. Holders(u, x) \subseteq Holders(t, x)
        BY <1>0, <2>3 DEF Holders, Gone, Ids, NoId
      <3> QED BY <2>1, <3>1, FewerHolders, HoldersFinite
    <2> QED BY <2>2, <2>3
  <1> QED BY <1>1 DEF IdsOk, Ids, LowIds, u

\* An id is given to a new volume only where one is left.
LEMMA CreatedIds ==
  ASSUME NEW t, t \in [Names -> Volumes], IdsOk(t),
         NEW v \in Names, NEW n, NEW id \in Ids,
         id = "low" => Cardinality(Holders(t, "low")) < LowIds,
         id = "six" => \A w \in Names : t[w].id # "six"
  PROVE  IdsOk(Created(t, v, n, id))
  <1> DEFINE u == Created(t, v, n, id)
  <1>0. \A w \in Names : u[w] = IF w = v THEN [n |-> n, id |-> id] ELSE t[w]
    BY DEF Created
  <1> HIDE DEF u
  <1>1. ASSUME NEW x \in Ids
        PROVE  /\ Cardinality(Holders(u, x)) \in Nat
               /\ Cardinality(Holders(t, x)) \in Nat
               /\ Cardinality(Holders(u, x)) <= Cardinality(Holders(t, x)) + (IF x = id THEN 1 ELSE 0)
    <2>1. Holders(u, x) \in SUBSET Names /\ Holders(t, x) \in SUBSET Names
      BY DEF Holders
    <2>2. IsFiniteSet(Holders(t, x)) /\ Cardinality(Holders(t, x)) \in Nat
      BY <2>1, HoldersFinite
    <2>3. Holders(t, x) \cup {v} \in SUBSET Names
      BY <2>1
    <2>4. Cardinality(Holders(t, x) \cup {v}) =
            IF v \in Holders(t, x) THEN Cardinality(Holders(t, x))
                                   ELSE Cardinality(Holders(t, x)) + 1
      BY <2>2, FS_AddElement
    <2>5. CASE x = id
      <3>1. Holders(u, x) \subseteq Holders(t, x) \cup {v}
        BY <1>0 DEF Holders
      <3>2. Cardinality(Holders(u, x)) <= Cardinality(Holders(t, x) \cup {v})
        BY <2>3, <3>1, FewerHolders
      <3> QED BY <2>1, <2>2, <2>4, <2>5, <3>2, HoldersFinite
    <2>6. CASE x # id
      <3>1. Holders(u, x) \subseteq Holders(t, x)
        BY <1>0, <2>6 DEF Holders
      <3>2. Cardinality(Holders(u, x)) <= Cardinality(Holders(t, x))
        BY <2>1, <3>1, FewerHolders
      <3> QED BY <2>1, <2>2, <2>6, <3>2, HoldersFinite
    <2> QED BY <2>5, <2>6
  <1>2. Cardinality(Holders(u, "low")) <= LowIds
    BY <1>1 DEF IdsOk, Ids, LowIds
  <1>3. Cardinality(Holders(u, "six")) <= 1
    <2>1. CASE id = "six"
      <3>1. Holders(t, "six") = {}
        BY <2>1 DEF Holders
      <3>2. Cardinality(Holders(t, "six")) = 0
        BY <3>1, FS_EmptySet
      <3> QED BY <1>1, <3>2, <2>1 DEF Ids
    <2>2. CASE id # "six"
      BY <1>1, <2>2 DEF IdsOk, Ids
    <2> QED BY <2>1, <2>2
  <1> QED BY <1>2, <1>3 DEF IdsOk, u

\* ubi_create_volume looks for the lowest id that is free.
LEMMA LowestIdIsFree ==
  ASSUME NEW t
  PROVE  /\ LowestId(t) \in Ids
         /\ LowestId(t) = "low" => Cardinality(Holders(t, "low")) < LowIds
         /\ LowestId(t) = "six" => \A w \in Names : t[w].id # "six"
  BY DEF LowestId, Ids, Holders

-----------------------------------------------------------------------------
(* LEBs.                                                                   *)

\* The sums over the volumes are numbers, and what is free is what the other
\* volumes leave less the bootloaders.
LEMMA Counted ==
  ASSUME NEW t, t \in [Names -> [n : Nat, id : Ids \cup {NoId}]]
  PROVE  /\ \A v \in Names : t[v].n \in Nat
         /\ FipLeft(t) \in Nat /\ FitLeft(t) \in Nat /\ FipSum(t) \in Nat
         /\ Rest(t) \in Int /\ Free(t) \in Int
         /\ Free(t) = Rest(t) - FipSum(t)
  <1>1. \A v \in Names : t[v].n \in Nat
    OBVIOUS
  <1>2. /\ t["fip"].n \in Nat /\ t["fip.new"].n \in Nat
        /\ t["fip.old"].n \in Nat /\ t["fip.bad"].n \in Nat
        /\ t["fit"].n \in Nat /\ t["fit.new"].n \in Nat
        /\ t["fit.old"].n \in Nat /\ t["rootfs_data"].n \in Nat
    BY <1>1 DEF Names, FipVols, FitVols
  <1> QED BY <1>1, <1>2, HeadroomForFips DEF FipLeft, FitLeft, FipSum, Rest, Free

\* What is available is free, and is what the lost blocks leave of it.
LEMMA AvailMeans ==
  ASSUME NEW t, TableOk(t), lost \in Losses \cup {0}
  PROVE  /\ Free(t) \in Nat /\ lost \in Nat /\ Avail(t) \in Nat
         /\ Avail(t) = IF Free(t) > lost THEN Free(t) - lost ELSE 0
         /\ Avail(t) <= Free(t)
  <1>0. t \in [Names -> [n : Nat, id : Ids \cup {NoId}]] /\ Free(t) >= 0
    BY HeadroomForFips DEF TableOk, Sized, Volumes
  <1>1. Free(t) \in Nat
    BY <1>0, Counted
  <1>2. lost \in Nat
    BY HeadroomForFips
  <1>3. Avail(t) = IF Free(t) > lost THEN Free(t) - lost ELSE 0
    BY DEF Avail
  <1> QED BY <1>1, <1>2, <1>3

\* The typed tables are among them; and a table that fits is typed.
LEMMA TypedTables ==
  /\ [Names -> Volumes] \subseteq [Names -> [n : Nat, id : Ids \cup {NoId}]]
  /\ \A t \in [Names -> [n : Nat, id : Ids \cup {NoId}]] :
        Free(t) >= 0 => t \in [Names -> Volumes]
  <1>0. TotalLebs \in Nat
    BY HeadroomForFips
  <1>1. Volumes \subseteq [n : Nat, id : Ids \cup {NoId}]
    BY <1>0 DEF Volumes
  <1>2. ASSUME NEW t \in [Names -> [n : Nat, id : Ids \cup {NoId}]], Free(t) >= 0,
               NEW v \in Names
        PROVE  t[v] \in Volumes
    <2>1. /\ t["fip"].n \in Nat /\ t["fip.new"].n \in Nat
          /\ t["fip.old"].n \in Nat /\ t["fip.bad"].n \in Nat
          /\ t["fit"].n \in Nat /\ t["fit.new"].n \in Nat
          /\ t["fit.old"].n \in Nat /\ t["rootfs_data"].n \in Nat
      BY DEF Names, FipVols, FitVols
    <2>2. t[v].n <= TotalLebs
      BY <1>0, <1>2, <2>1 DEF Free, FipLeft, FitLeft, Names, FipVols, FitVols
    <2>3. t[v].n \in 0..TotalLebs /\ t[v] \in [n : Nat, id : Ids \cup {NoId}]
      BY <1>0, <2>2
    <2> QED BY <2>3 DEF Volumes
  <1> QED BY <1>1, <1>2

\* What an operation of the bootloader update may leave: the other volumes as
\* they were, and no less that is free.
FipImage(t, u) ==
    /\ TableOk(u)
    /\ \A v \in OtherVols : u[v] = t[v]
    /\ Free(u) >= Free(t)

\* What one of the OpenWrt update may leave: the bootloaders as they were,
\* and room for the next where there was room.
FitImage(t, u) ==
    /\ TableOk(u)
    /\ \A v \in FipVols : u[v] = t[v]
    /\ FipRoom(t) => FipRoom(u)

\* Removing volumes frees their LEBs, and nobody else's.
LEMMA RemovedOk ==
  ASSUME NEW t, TableOk(t), NEW V
  PROVE  /\ TableOk(Removed(t, V))
         /\ Free(Removed(t, V)) >= Free(t)
         /\ Rest(Removed(t, V)) >= Rest(t)
         /\ \A v \in Names : Removed(t, V)[v] = IF v \in V THEN Gone ELSE t[v]
  <1> DEFINE u == Removed(t, V)
  <1>0. t \in [Names -> [n : Nat, id : Ids \cup {NoId}]] /\ Free(t) >= 0
    BY TypedTables DEF TableOk, Sized
  <1>1. \A v \in Names : u[v] = IF v \in V THEN Gone ELSE t[v]
    BY DEF Removed
  <1>2. u \in [Names -> [n : Nat, id : Ids \cup {NoId}]]
    BY <1>0 DEF Removed, Gone
  <1>3. IdsOk(u)
    BY RemovedIds DEF TableOk
  <1> HIDE DEF u
  <1>4. \A v \in Names : u[v].n <= t[v].n /\ u[v].n \in Nat /\ t[v].n \in Nat
    BY <1>0, <1>1, <1>2 DEF Gone
  <1>5. Free(u) >= Free(t) /\ Rest(u) >= Rest(t)
    BY <1>4, HeadroomForFips DEF Free, Rest, FipLeft, FitLeft, Names, FipVols, FitVols
  <1>6. u \in [Names -> Volumes] /\ Free(u) >= 0
    BY <1>0, <1>2, <1>5, Counted, TypedTables
  <1>7. /\ \A v \in Names : u[v].n = 0 <=> u[v].id = NoId
        /\ \A v \in FipVols : u[v].n \in {0, FipLebs}
    BY <1>1 DEF TableOk, Sized, Gone, Names, NoId
  <1>8. TableOk(u)
    BY <1>3, <1>6, <1>7 DEF TableOk, Sized
  <1> QED BY <1>1, <1>5, <1>8 DEF u

\* A new volume takes its LEBs from what is free.
LEMMA CreatedOk ==
  ASSUME NEW t, TableOk(t), NEW v \in Names, t[v] = Gone,
         NEW n \in Nat \ {0}, n <= Free(t), v \in FipVols => n = FipLebs,
         NEW id \in Ids,
         id = "low" => Cardinality(Holders(t, "low")) < LowIds,
         id = "six" => \A w \in Names : t[w].id # "six"
  PROVE  /\ TableOk(Created(t, v, n, id))
         /\ Free(Created(t, v, n, id)) = Free(t) - n
         /\ \A w \in Names : Created(t, v, n, id)[w].n = IF w = v THEN n ELSE t[w].n
         /\ \A w \in Names \ {v} : Created(t, v, n, id)[w] = t[w]
  <1> DEFINE u == Created(t, v, n, id)
  <1>0. t \in [Names -> [n : Nat, id : Ids \cup {NoId}]] /\ Free(t) >= 0
        /\ t \in [Names -> Volumes]
    BY TypedTables DEF TableOk, Sized
  <1>1. \A w \in Names : u[w] = IF w = v THEN [n |-> n, id |-> id] ELSE t[w]
    BY <1>0 DEF Created
  <1>2. u \in [Names -> [n : Nat, id : Ids \cup {NoId}]]
    BY <1>0 DEF Created
  <1>3. IdsOk(u)
    BY <1>0, CreatedIds DEF TableOk
  <1> HIDE DEF u
  <1>4. /\ \A w \in Names : u[w].n = (IF w = v THEN n ELSE t[w].n) /\ t[w].n \in Nat
        /\ t[v].n = 0
    BY <1>0, <1>1 DEF Gone
  <1>5. Free(u) = Free(t) - n
    BY <1>4, HeadroomForFips DEF Free, FipLeft, FitLeft, Names, FipVols, FitVols
  <1>6. u \in [Names -> Volumes] /\ Free(u) >= 0
    BY <1>0, <1>2, <1>5, Counted, TypedTables
  <1>7. /\ \A w \in Names : u[w].n = 0 <=> u[w].id = NoId
        /\ \A w \in FipVols : u[w].n \in {0, FipLebs}
    BY <1>1 DEF TableOk, Sized, Names, NoId, Ids
  <1>8. TableOk(u)
    BY <1>3, <1>6, <1>7 DEF TableOk, Sized
  <1> QED BY <1>1, <1>4, <1>5, <1>8 DEF u

\* Renaming frees at most what the new name stood for.
LEMMA RenamedOk ==
  ASSUME NEW t, TableOk(t), NEW a \in Names, NEW b \in Names, a # b,
         a \in FipVols <=> b \in FipVols, a # "rootfs_data", b # "rootfs_data"
  PROVE  /\ TableOk(Renamed(t, a, b))
         /\ Free(Renamed(t, a, b)) >= Free(t)
         /\ Rest(Renamed(t, a, b)) >= Rest(t)
         /\ \A v \in Names : Renamed(t, a, b)[v] =
                             IF v = a THEN Gone ELSE IF v = b THEN t[a] ELSE t[v]
  <1> DEFINE u == Renamed(t, a, b)
  <1>0. t \in [Names -> [n : Nat, id : Ids \cup {NoId}]] /\ Free(t) >= 0
        /\ t \in [Names -> Volumes]
    BY TypedTables DEF TableOk, Sized
  <1>1. \A v \in Names : u[v] = IF v = a THEN Gone ELSE IF v = b THEN t[a] ELSE t[v]
    BY <1>0 DEF Renamed
  <1>2. u \in [Names -> [n : Nat, id : Ids \cup {NoId}]]
    BY <1>0 DEF Renamed, Gone
  <1>3. IdsOk(u)
    BY <1>0, RenamedIds DEF TableOk
  <1> HIDE DEF u
  <1>4. \A v \in Names :
          /\ u[v].n = (IF v = a THEN 0 ELSE IF v = b THEN t[a].n ELSE t[v].n)
          /\ t[v].n \in Nat
    BY <1>0, <1>1 DEF Gone
  <1>5. Free(u) >= Free(t) /\ Rest(u) >= Rest(t)
    <2>1. CASE a \in FipVols
      BY <1>4, <2>1, HeadroomForFips DEF Free, Rest, FipLeft, FitLeft, Names, FipVols, FitVols
    <2>2. CASE a \notin FipVols
      BY <1>4, <2>2, HeadroomForFips DEF Free, Rest, FipLeft, FitLeft, Names, FipVols, FitVols
    <2> QED BY <2>1, <2>2
  <1>6. u \in [Names -> Volumes] /\ Free(u) >= 0
    BY <1>0, <1>2, <1>5, Counted, TypedTables
  <1>7. /\ \A v \in Names : u[v].n = 0 <=> u[v].id = NoId
        /\ \A v \in FipVols : u[v].n \in {0, FipLebs}
    BY <1>1 DEF TableOk, Sized, Gone, Names, NoId
  <1>8. TableOk(u)
    BY <1>3, <1>6, <1>7 DEF TableOk, Sized
  <1> QED BY <1>1, <1>5, <1>8 DEF u

-----------------------------------------------------------------------------
(* The tables the bootloader update leaves.                                *)

\* The two kinds of volumes are all there are.
LEMMA Kinds ==
  /\ Names = FipVols \cup OtherVols
  /\ FipVols \cap OtherVols = {}
  BY DEF Names, FipVols, OtherVols, FitVols

\* Removing bootloaders.
LEMMA FipRemoved ==
  ASSUME NEW t, TableOk(t), NEW V \in SUBSET FipVols
  PROVE  FipImage(t, Removed(t, V))
  BY RemovedOk, Kinds DEF FipImage

\* Renaming one.
LEMMA FipRenamed ==
  ASSUME NEW t, TableOk(t), NEW a \in FipVols, NEW b \in FipVols, a # b
  PROVE  FipImage(t, Renamed(t, a, b))
  <1>1. /\ a \in Names /\ b \in Names /\ a # "rootfs_data" /\ b # "rootfs_data"
        /\ \A v \in OtherVols : v \in Names /\ v # a /\ v # b
    BY Kinds DEF FipVols, OtherVols, FitVols
  <1>2. /\ TableOk(Renamed(t, a, b))
        /\ Free(Renamed(t, a, b)) >= Free(t)
        /\ \A v \in Names : Renamed(t, a, b)[v] =
                            IF v = a THEN Gone ELSE IF v = b THEN t[a] ELSE t[v]
    BY <1>1, RenamedOk
  <1> QED BY <1>1, <1>2 DEF FipImage

\* One operation after another.
LEMMA FipImageTrans ==
  ASSUME NEW t, TableOk(t), NEW u, FipImage(t, u), NEW w, FipImage(u, w)
  PROVE  FipImage(t, w)
  <1>1. Free(t) \in Int /\ Free(u) \in Int /\ Free(w) \in Int
    BY Counted, TypedTables DEF FipImage, TableOk, Sized
  <1> QED BY <1>1 DEF FipImage

\* ursus_ubi_atomic_switch.
LEMMA FipSwitched ==
  ASSUME NEW t, TableOk(t), NEW a \in FipVols, NEW b \in FipVols, NEW c \in FipVols,
         a # b, a # c
  PROVE  FipImage(t, Switched(t, a, b, c))
  <1>1. FipImage(t, Renamed(t, a, c))
    BY FipRenamed
  <1>2. FipImage(Renamed(t, a, c), Renamed(Renamed(t, a, c), b, a))
    BY <1>1, FipRenamed DEF FipImage
  <1> QED BY <1>1, <1>2, FipImageTrans DEF Switched

\* Every table a stage of the bootloader update leaves, but for fip.new.
LEMMA FipTables ==
  ASSUME TableOk(vol)
  PROVE  /\ FipImage(vol, vol)
         /\ FipImage(vol, Removed(vol, {"fip.new"}))
         /\ FipImage(vol, Removed(vol, FipStale))
         /\ FipImage(vol, FipCleared)
         /\ FipImage(vol, FipPromoted)
         /\ FipImage(vol, Renamed(vol, "fip", "fip.bad"))
         /\ FipImage(vol, FipRolledBack)
  <1>0. /\ FipStale \in SUBSET FipVols
        /\ FipStale \cup (IF FipReclaim THEN {"fip"} ELSE {}) \in SUBSET FipVols
        /\ {"fip.new"} \in SUBSET FipVols
    BY DEF FipStale, FipVols
  <1>1. FipImage(vol, vol)
    <2>1. Free(vol) \in Int
      BY Counted, TypedTables DEF TableOk, Sized
    <2> QED BY <2>1 DEF FipImage
  <1>2. FipImage(vol, Removed(vol, {"fip.new"})) /\ FipImage(vol, Removed(vol, FipStale))
    BY <1>0, FipRemoved
  <1>3. FipImage(vol, FipCleared)
    BY <1>0, FipRemoved DEF FipCleared
  <1>4. /\ FipImage(vol, Switched(vol, "fip", "fip.new", "fip.old"))
        /\ FipImage(vol, Switched(vol, "fip", "fip.new", "fip.bad"))
        /\ FipImage(vol, Switched(vol, "fip", "fip.old", "fip.bad"))
        /\ FipImage(vol, Switched(vol, "fip", "fip.bad", "fip.new"))
    BY FipSwitched DEF FipVols
  <1>5. /\ FipImage(vol, Renamed(vol, "fip.new", "fip"))
        /\ FipImage(vol, Renamed(vol, "fip", "fip.bad"))
    BY FipRenamed DEF FipVols
  <1>6. FipImage(vol, FipPromoted)
    BY <1>4, <1>5 DEF FipPromoted
  <1>7. FipImage(vol, FipRolledBack)
    BY <1>4 DEF FipRolledBack
  <1> QED BY <1>1, <1>2, <1>3, <1>5, <1>6, <1>7

-----------------------------------------------------------------------------
(* The tables the OpenWrt update and the reset leave.                      *)

\* Room for fip.new is what the other volumes leave beside the active one.
LEMMA FipRoomMeans ==
  ASSUME NEW t, TableOk(t), lost \in Losses \cup {0}
  PROVE  /\ FipRoom(t) <=> Rest(t) - t["fip"].n >= FipLebs + lost
         /\ t["fip"].n \in Nat /\ Rest(t) \in Int /\ lost \in Nat
  <1>1. t \in [Names -> [n : Nat, id : Ids \cup {NoId}]]
    BY TypedTables DEF TableOk, Sized
  <1>2. "fip" \in Names
    BY DEF Names, FipVols
  <1>3. lost \in Nat
    BY HeadroomForFips
  <1> QED BY <1>1, <1>2, <1>3, Counted, HeadroomForFips DEF FipRoom, FipSum

\* A table with the same bootloaders and no less for them.
LEMMA NoLess ==
  ASSUME NEW t, TableOk(t), NEW u, TableOk(u), lost \in Losses \cup {0},
         \A v \in FipVols : u[v] = t[v], Rest(u) >= Rest(t)
  PROVE  FitImage(t, u)
  <1>1. u["fip"].n = t["fip"].n
    BY DEF FipVols
  <1>2. FipRoom(t) => FipRoom(u)
    BY <1>1, FipRoomMeans, HeadroomForFips
  <1> QED BY <1>2 DEF FitImage

LEMMA FitRemoved ==
  ASSUME NEW t, TableOk(t), lost \in Losses \cup {0}, NEW V \in SUBSET OtherVols
  PROVE  FitImage(t, Removed(t, V)) /\ Rest(Removed(t, V)) >= Rest(t)
  <1>1. TableOk(Removed(t, V)) /\ Rest(Removed(t, V)) >= Rest(t)
        /\ \A v \in FipVols : Removed(t, V)[v] = t[v]
    BY RemovedOk, Kinds
  <1> QED BY <1>1, NoLess

LEMMA FitRenamed ==
  ASSUME NEW t, TableOk(t), lost \in Losses \cup {0},
         NEW a \in FitVols, NEW b \in FitVols, a # b
  PROVE  FitImage(t, Renamed(t, a, b))
  <1>1. /\ a \in Names /\ b \in Names /\ a # "rootfs_data" /\ b # "rootfs_data"
        /\ a \notin FipVols /\ b \notin FipVols
        /\ \A v \in FipVols : v \in Names /\ v # a /\ v # b
    BY Kinds DEF FipVols, OtherVols, FitVols
  <1>2. /\ TableOk(Renamed(t, a, b))
        /\ Rest(Renamed(t, a, b)) >= Rest(t)
        /\ \A v \in Names : Renamed(t, a, b)[v] =
                            IF v = a THEN Gone ELSE IF v = b THEN t[a] ELSE t[v]
    BY <1>1, RenamedOk
  <1>3. \A v \in FipVols : Renamed(t, a, b)[v] = t[v]
    BY <1>1, <1>2
  <1> QED BY <1>2, <1>3, NoLess

\* A reset that works leaves the reserve free, and that is room for a FIP.
LEMMA ResetTables ==
  ASSUME TableOk(vol), lost \in Losses \cup {0}
  PROVE  /\ FitImage(vol, NoRootfs)
         /\ ResetWorks => FitImage(vol, ResetDone)
  <1>0. {"rootfs_data"} \in SUBSET OtherVols
    BY DEF OtherVols
  <1>1. FitImage(vol, NoRootfs)
    BY <1>0, FitRemoved DEF NoRootfs
  <1>2. ASSUME ResetWorks
        PROVE  FitImage(vol, ResetDone)
    <2>0. TableOk(NoRootfs) /\ \A v \in FipVols : NoRootfs[v] = vol[v]
      BY <1>1 DEF FitImage
    <2>1. /\ Free(NoRootfs) \in Nat /\ lost \in Nat /\ Avail(NoRootfs) \in Nat
          /\ Avail(NoRootfs) = IF Free(NoRootfs) > lost THEN Free(NoRootfs) - lost ELSE 0
      BY <2>0, AvailMeans
    <2>2. /\ "rootfs_data" \in Names /\ "rootfs_data" \notin FipVols
          /\ \A v \in FipVols : v \in Names \ {"rootfs_data"}
      BY DEF Names, FipVols, FitVols
    <2>3. NoRootfs["rootfs_data"] = Gone
      BY <2>2 DEF NoRootfs, Removed
    <2>4. /\ ResetLebs \in Nat \ {0} /\ ResetLebs <= Free(NoRootfs)
          /\ ResetLebs = Free(NoRootfs) - lost - Reserve
      BY <1>2, <2>1, HeadroomForFips DEF ResetWorks, ResetLebs
    <2>5. \A v \in Names : NoRootfs[v].id # "six"
      BY <1>2 DEF ResetWorks
    <2>6. /\ TableOk(ResetDone)
          /\ Free(ResetDone) = Free(NoRootfs) - ResetLebs
          /\ \A w \in Names \ {"rootfs_data"} : ResetDone[w] = NoRootfs[w]
      BY <2>0, <2>2, <2>3, <2>4, <2>5, CreatedOk DEF ResetDone, Ids
    <2>7. FipLeft(ResetDone) \in Nat
      BY <2>6, Counted, TypedTables DEF TableOk, Sized
    <2>8. FipRoom(ResetDone)
      BY <2>1, <2>4, <2>6, <2>7, HeadroomForFips DEF FipRoom
    <2> QED BY <2>0, <2>2, <2>6, <2>8 DEF FitImage
  <1> QED BY <1>1, <1>2

\* Every table a stage of the OpenWrt update leaves, but for the new image.
LEMMA FitTables ==
  ASSUME TableOk(vol), lost \in Losses \cup {0}
  PROVE  /\ FitImage(vol, vol)
         /\ FitImage(vol, Removed(vol, {"fit.new"}))
         /\ FitImage(vol, Removed(vol, {"fit.new", "fit.old"}))
         /\ FitImage(vol, FitCleared)
         /\ FitImage(vol, FitAside)
         /\ FitImage(vol, FitPromoted)
  <1>0. /\ {"fit.new"} \in SUBSET OtherVols /\ {"fit.new", "fit.old"} \in SUBSET OtherVols
        /\ {"fit.new", "fit.old"} \cup (IF fit.direct THEN {"fit"} ELSE {}) \in SUBSET OtherVols
    BY DEF OtherVols, FitVols
  <1>1. FitImage(vol, vol)
    BY DEF FitImage
  <1>2. /\ FitImage(vol, Removed(vol, {"fit.new"}))
        /\ FitImage(vol, Removed(vol, {"fit.new", "fit.old"}))
    BY <1>0, FitRemoved
  <1>3. FitImage(vol, FitCleared)
    BY <1>0, FitRemoved DEF FitCleared
  <1>4. FitImage(vol, FitAside)
    BY <1>1, FitRenamed DEF FitAside, FitVols
  <1>5. FitImage(FitAside, FitPromoted)
    BY <1>4, FitRenamed DEF FitImage, FitPromoted, FitVols
  <1>6. FitImage(vol, FitPromoted)
    BY <1>4, <1>5 DEF FitImage
  <1> QED BY <1>1, <1>2, <1>3, <1>4, <1>6

\* What STAGE_PREP makes free.
LEMMA ClearedRoom ==
  ASSUME TableOk(vol), lost \in Losses \cup {0}, fit.direct \in BOOLEAN
  PROVE  /\ TableOk(FitCleared)
         /\ Free(FitCleared) =
              Free(vol) + FitLeft(vol) + (IF fit.direct THEN vol["fit"].n ELSE 0)
         /\ Rest(FitCleared) =
              Rest(vol) + FitLeft(vol) + (IF fit.direct THEN vol["fit"].n ELSE 0)
         /\ FitCleared[Target] = Gone
         /\ \A v \in FipVols : FitCleared[v] = vol[v]
  <1>1. TableOk(FitCleared) /\ \A v \in FipVols : FitCleared[v] = vol[v]
    BY FitTables DEF FitImage
  <1>2. \A v \in Names : FitCleared[v] =
          IF v \in {"fit.new", "fit.old"} \cup (IF fit.direct THEN {"fit"} ELSE {})
          THEN Gone ELSE vol[v]
    BY RemovedOk DEF FitCleared
  <1>3. FitCleared[Target] = Gone
    BY <1>2 DEF Target, Names, FitVols
  <1>4. \A v \in Names : vol[v].n \in Nat
    BY TypedTables, Counted DEF TableOk, Sized
  <1>5. /\ FitCleared["fit.new"].n = 0 /\ FitCleared["fit.old"].n = 0
        /\ FitCleared["fit"].n = (IF fit.direct THEN 0 ELSE vol["fit"].n)
        /\ FitCleared["rootfs_data"].n = vol["rootfs_data"].n
        /\ FitCleared["fip"].n = vol["fip"].n
        /\ FitCleared["fip.new"].n = vol["fip.new"].n
        /\ FitCleared["fip.old"].n = vol["fip.old"].n
        /\ FitCleared["fip.bad"].n = vol["fip.bad"].n
    BY <1>2 DEF Gone, Names, FipVols, FitVols
  <1>6. /\ vol["fip"].n \in Nat /\ vol["fip.new"].n \in Nat
        /\ vol["fip.old"].n \in Nat /\ vol["fip.bad"].n \in Nat
        /\ vol["fit"].n \in Nat /\ vol["fit.new"].n \in Nat
        /\ vol["fit.old"].n \in Nat /\ vol["rootfs_data"].n \in Nat
    BY <1>4 DEF Names, FipVols, FitVols
  <1>7. Free(FitCleared) =
          Free(vol) + FitLeft(vol) + (IF fit.direct THEN vol["fit"].n ELSE 0)
    BY <1>5, <1>6, HeadroomForFips DEF Free, FipLeft, FitLeft
  <1>8. Rest(FitCleared) =
          Rest(vol) + FitLeft(vol) + (IF fit.direct THEN vol["fit"].n ELSE 0)
    BY <1>5, <1>6, HeadroomForFips DEF Rest, FitLeft
  <1> QED BY <1>1, <1>3, <1>7, <1>8

\* The new image, where it fits: the room of the next bootloader is kept.
LEMMA ImageCreated ==
  ASSUME IInv, fit.stage = "STAGE_PREP", fit.need <= Avail(FitCleared)
  PROVE  FitImage(vol, CreatedAuto(FitCleared, Target, fit.need))
  <1> DEFINE u == CreatedAuto(FitCleared, Target, fit.need)
  <1>0. /\ TableOk(vol) /\ fit.direct \in BOOLEAN /\ fit.need \in Nat \ {0}
        /\ lost \in Losses \cup {0} /\ lost \in Nat
    <2>1. TableOk(vol) /\ fit.direct \in BOOLEAN /\ lost \in Losses \cup {0}
      BY DEF IInv, TypeOK
    <2>2. fit.need \in Needs
      BY DEF IInv, InvRunning, FitActive
    <2>3. fit.need \in Nat \ {0}
      BY <2>2, HeadroomForFips
    <2>4. lost \in Nat
      BY <2>1, HeadroomForFips
    <2> QED BY <2>1, <2>3, <2>4
  <1>1. /\ TableOk(FitCleared) /\ FitCleared[Target] = Gone
        /\ \A v \in FipVols : FitCleared[v] = vol[v]
        /\ Rest(FitCleared) =
              Rest(vol) + FitLeft(vol) + (IF fit.direct THEN vol["fit"].n ELSE 0)
    BY <1>0, ClearedRoom
  <1>2. Target \in {"fit", "fit.new"} /\ Target \in Names /\ Target \notin FipVols
        /\ \A v \in FipVols : v \in Names \ {Target}
    BY DEF Target, Names, FitVols, FipVols
  <1>n. fit.need <= Free(FitCleared)
    BY <1>0, <1>1, AvailMeans
  <1>3. /\ TableOk(u)
        /\ Free(u) = Free(FitCleared) - fit.need
        /\ \A w \in Names \ {Target} : u[w] = FitCleared[w]
    BY <1>0, <1>1, <1>2, <1>n, CreatedOk, LowestIdIsFree DEF CreatedAuto
  <1> HIDE DEF u
  <1>4. \A v \in FipVols : u[v] = vol[v]
    BY <1>1, <1>2, <1>3
  <1>5. /\ Rest(vol) \in Int /\ FitLeft(vol) \in Nat /\ vol["fit"].n \in Nat
        /\ vol["fip"].n \in Nat /\ vol["fip"].n <= FipLebs
        /\ u["fip"].n = vol["fip"].n
    <2>1. vol \in [Names -> [n : Nat, id : Ids \cup {NoId}]] /\ vol["fip"].n \in {0, FipLebs}
          /\ "fip" \in Names /\ "fit" \in Names
      BY <1>0, TypedTables DEF TableOk, Sized, Names, FipVols, FitVols
    <2>2. vol["fip"].n \in Nat /\ vol["fit"].n \in Nat
      BY <2>1
    <2> QED BY <1>4, <2>1, <2>2, Counted, HeadroomForFips DEF FipVols
  <1>6. Rest(u) = Rest(FitCleared) - fit.need
    <2>1. /\ u["fip"] = FitCleared["fip"] /\ u["fip.new"] = FitCleared["fip.new"]
          /\ u["fip.old"] = FitCleared["fip.old"] /\ u["fip.bad"] = FitCleared["fip.bad"]
      BY <1>1, <1>4 DEF FipVols
    <2>2. FipSum(u) = FipSum(FitCleared)
      BY <2>1 DEF FipSum, FipLeft
    <2>3. /\ Free(u) = Rest(u) - FipSum(u) /\ Rest(u) \in Int /\ FipSum(u) \in Nat
          /\ Free(FitCleared) = Rest(FitCleared) - FipSum(FitCleared)
          /\ Rest(FitCleared) \in Int
      BY <1>1, <1>3, Counted, TypedTables DEF TableOk, Sized
    <2> QED BY <1>0, <1>3, <2>2, <2>3
  <1>7. ASSUME Rest(vol) - vol["fip"].n >= FipLebs + lost
        PROVE  Rest(u) - vol["fip"].n >= FipLebs + lost
    <2>1. CASE ~fit.direct
      <3>1. \/ Rest(vol) + FitLeft(vol) >= fit.need + 3 * FipLebs + lost
            \/ FitLeft(vol) >= fit.need + StagedHeadroom
        BY <2>1 DEF IInv, InvStaged
      <3> QED BY <1>0, <1>1, <1>5, <1>6, <1>7, <2>1, <3>1, HeadroomForFips
    <2>2. CASE fit.direct
      <3>1. \/ Rest(vol) + FitLeft(vol) + vol["fit"].n >= fit.need + 2 * FipLebs + lost
            \/ FitLeft(vol) + vol["fit"].n >= fit.need
        BY <2>2 DEF IInv, InvDirect
      <3> QED BY <1>0, <1>1, <1>5, <1>6, <1>7, <2>2, <3>1, HeadroomForFips
    <2> QED BY <2>1, <2>2
  <1>8. FipRoom(vol) => FipRoom(u)
    BY <1>0, <1>3, <1>5, <1>7, FipRoomMeans
  <1>9. FitImage(vol, u)
    BY <1>3, <1>4, <1>8 DEF FitImage
  <1> QED BY <1>9 DEF u

-----------------------------------------------------------------------------
(* The inductive invariant.                                                *)

\* The types of what is not the volume table.
Ctl ==
    /\ ro \in BOOLEAN
    /\ fip \in [stage : FipStages \cup {"IDLE"}, mode : Modes]
    /\ fit \in [stage : FitStages \cup {"IDLE"}, need : Needs \cup {0},
                keep : BOOLEAN, direct : BOOLEAN]
    /\ lost \in Losses \cup {0}
    /\ taken \in BOOLEAN

\* An image, or none, has a number of LEBs.
LEMMA NeedsAreNat == \A n \in Needs \cup {0} : n \in Nat
  <1>1. \A n \in Needs : n \in Nat
    BY HeadroomForFips
  <1> QED BY <1>1

\* A table that is well has the type.
LEMMA TypeFromTable ==
  ASSUME TableOk(vol), Ctl
  PROVE  TypeOK
  <1>1. /\ vol \in [Names -> Volumes]
        /\ \A v \in Names : vol[v].n = 0 <=> vol[v].id = NoId
    BY DEF TableOk, Sized
  <1>2. /\ Cardinality({v \in Names : vol[v].id = "low"}) <= LowIds
        /\ Cardinality({v \in Names : vol[v].id = "six"}) <= 1
    BY DEF TableOk, IdsOk, Holders
  <1> QED BY <1>1, <1>2 DEF TypeOK, Ctl

\* The same of the next state.
LEMMA TypeFromTableNext ==
  ASSUME TableOk(vol'), Ctl'
  PROVE  TypeOK' /\ TableOk(vol)'
  <1>1. /\ vol' \in [Names -> Volumes]
        /\ \A v \in Names : vol'[v].n = 0 <=> vol'[v].id = NoId
    BY DEF TableOk, Sized
  <1>2. /\ Cardinality({v \in Names : vol'[v].id = "low"}) <= LowIds
        /\ Cardinality({v \in Names : vol'[v].id = "six"}) <= 1
    BY DEF TableOk, IdsOk, Holders
  <1>3. TypeOK'
    BY <1>1, <1>2 DEF TypeOK, Ctl
  <1> QED BY <1>3

\* No image is waiting for its room in the next state.
LEMMA AtRest ==
  ASSUME TableOk(vol'), FipSum(vol') <= 3 * FipLebs, Ctl',
         fit'.stage # "STAGE_PREP", InvRunning'
  PROVE  IInv'
  <1>1. InvFips'
    BY DEF InvFips, FipSum, FipLeft
  <1>2. InvStaged' /\ InvDirect'
    BY DEF InvStaged, InvDirect
  <1> QED BY <1>1, <1>2, TypeFromTableNext DEF IInv

\* As many bootloaders as before.
LEMMA SameFips ==
  ASSUME IInv, NEW u, \A v \in FipVols : u[v] = vol[v]
  PROVE  FipSum(u) <= 3 * FipLebs
  BY DEF IInv, InvFips, FipSum, FipLeft, FipVols

\* No more of them.
LEMMA FewerFips ==
  ASSUME IInv, NEW u, FipImage(vol, u)
  PROVE  FipSum(u) <= 3 * FipLebs
  <1>1. TableOk(vol) /\ TableOk(u) /\ Free(u) >= Free(vol)
    BY DEF IInv, FipImage
  <1>2. Rest(u) = Rest(vol)
    BY DEF FipImage, Rest, FitLeft, OtherVols, FitVols
  <1>3. /\ Free(vol) = Rest(vol) - FipSum(vol) /\ Free(u) = Rest(u) - FipSum(u)
        /\ Rest(vol) \in Int /\ FipSum(vol) \in Nat /\ FipSum(u) \in Nat
    BY <1>1, Counted, TypedTables DEF TableOk, Sized
  <1> QED BY <1>1, <1>2, <1>3, HeadroomForFips DEF IInv, InvFips

\* A stage of the bootloader update that creates nothing.
LEMMA FipLeaves ==
  ASSUME IInv, FipImage(vol, vol'), Ctl', UNCHANGED <<fit, lost, taken>>
  PROVE  IInv'
  <1>0. TableOk(vol) /\ TableOk(vol') /\ Free(vol') >= Free(vol)
    BY DEF IInv, FipImage
  <1>1. /\ vol'["fit"] = vol["fit"] /\ vol'["fit.new"] = vol["fit.new"]
        /\ vol'["fit.old"] = vol["fit.old"] /\ vol'["rootfs_data"] = vol["rootfs_data"]
    BY DEF FipImage, OtherVols, FitVols
  <1>2. Rest(vol') = Rest(vol) /\ FitLeft(vol') = FitLeft(vol)
    BY <1>1 DEF Rest, FitLeft
  <1>3. /\ Free(vol) = Rest(vol) - FipSum(vol) /\ Free(vol') = Rest(vol') - FipSum(vol')
        /\ Rest(vol) \in Int /\ FipSum(vol) \in Nat /\ FipSum(vol') \in Nat
        /\ FitLeft(vol) \in Nat /\ Free(vol) \in Int /\ Free(vol') \in Int
    BY <1>0, Counted, TypedTables DEF TableOk, Sized
  <1>4. FipSum(vol') <= 3 * FipLebs
    BY FewerFips
  <1>5. InvFips'
    BY <1>4 DEF InvFips, FipSum, FipLeft
  <1>6. InvStaged'
    <2>1. fit.stage = "STAGE_PREP" /\ ~fit.direct =>
            \/ Rest(vol') + FitLeft(vol') >= fit.need + 3 * FipLebs + lost
            \/ FitLeft(vol') >= fit.need + StagedHeadroom
      BY <1>2 DEF IInv, InvStaged
    <2> QED BY <2>1 DEF InvStaged, Rest, FitLeft
  <1>7. InvDirect'
    <2>0. vol["fit"].n \in Nat /\ fit.need \in Nat /\ lost \in Nat
      <3>1. vol \in [Names -> [n : Nat, id : Ids \cup {NoId}]] /\ "fit" \in Names
        BY <1>0, TypedTables DEF TableOk, Sized, Names, FitVols
      <3>2. fit.need \in Needs \cup {0}
        BY DEF IInv, TypeOK
      <3>3. vol["fit"].n \in Nat
        BY <3>1
      <3>4. lost \in Nat
        BY HeadroomForFips DEF IInv, TypeOK
      <3> QED BY <3>2, <3>3, <3>4, NeedsAreNat
    <2>1. ASSUME fit.stage = "STAGE_PREP", fit.direct
          PROVE  /\ ~taken => \/ Free(vol') + FitLeft(vol') + vol'["fit"].n >= fit.need + lost
                              \/ FitLeft(vol') + vol'["fit"].n
                                    >= fit.need + DirectMargin(FitLeft(vol'))
                 /\ \/ Rest(vol') + FitLeft(vol') + vol'["fit"].n
                          >= fit.need + 2 * FipLebs + lost
                    \/ FitLeft(vol') + vol'["fit"].n >= fit.need
      <3>1. ~taken => \/ Free(vol) + FitLeft(vol) + vol["fit"].n >= fit.need + lost
                      \/ FitLeft(vol) + vol["fit"].n
                            >= fit.need + DirectMargin(FitLeft(vol))
        BY <2>1 DEF IInv, InvDirect
      <3>2. Free(vol) + FitLeft(vol) + vol["fit"].n >= fit.need + lost
              => Free(vol') + FitLeft(vol') + vol'["fit"].n >= fit.need + lost
        BY <1>0, <1>1, <1>2, <1>3, <2>0
      <3> QED BY <1>1, <1>2, <2>1, <3>1, <3>2 DEF IInv, InvDirect
    <2> QED BY <2>1 DEF InvDirect, Free, Rest, FitLeft, FipLeft, DirectMargin
  <1>8. InvRunning'
    BY DEF IInv, InvRunning, FitActive
  <1> QED BY <1>0, <1>5, <1>6, <1>7, <1>8, TypeFromTableNext DEF IInv

\* The bootloaders that are left when fip.new is created, and fip.new.
LEMMA FipCreates ==
  ASSUME IInv, FipLebs <= Avail(FipCleared)
  PROVE  LET u == CreatedAuto(FipCleared, "fip.new", FipLebs)
         IN  /\ TableOk(u)
             /\ \A v \in OtherVols : u[v] = vol[v]
             /\ FipSum(u) <= 3 * FipLebs
  <1> DEFINE u == CreatedAuto(FipCleared, "fip.new", FipLebs)
  <1>0. TableOk(vol) /\ lost \in Losses \cup {0}
    BY DEF IInv, TypeOK
  <1>1. TableOk(FipCleared) /\ \A v \in OtherVols : FipCleared[v] = vol[v]
    BY <1>0, FipTables DEF FipImage
  <1>n. FipLebs <= Free(FipCleared)
    BY <1>0, <1>1, AvailMeans, HeadroomForFips
  <1>2. FipCleared["fip.new"] = Gone /\ FipCleared["fip.bad"] = Gone
    BY DEF FipCleared, FipStale, Removed, Names, FipVols
  <1>3. /\ "fip.new" \in Names /\ FipLebs \in Nat \ {0}
        /\ \A v \in OtherVols : v \in Names \ {"fip.new"}
    BY HeadroomForFips DEF Names, FipVols, OtherVols, FitVols
  <1>4. /\ TableOk(u)
        /\ \A w \in Names : u[w].n = IF w = "fip.new" THEN FipLebs ELSE FipCleared[w].n
        /\ \A w \in Names \ {"fip.new"} : u[w] = FipCleared[w]
    BY <1>1, <1>2, <1>3, <1>n, CreatedOk, LowestIdIsFree DEF CreatedAuto
  <1> HIDE DEF u
  <1>5. \A v \in OtherVols : u[v] = vol[v]
    BY <1>1, <1>3, <1>4
  <1>6. /\ u["fip"].n \in {0, FipLebs} /\ u["fip.old"].n \in {0, FipLebs}
        /\ u["fip.new"].n = FipLebs /\ u["fip.bad"].n = 0
    BY <1>2, <1>4 DEF TableOk, Sized, Gone, Names, FipVols
  <1>7. FipSum(u) <= 3 * FipLebs
    BY <1>6, HeadroomForFips DEF FipSum, FipLeft
  <1> QED BY <1>4, <1>5, <1>7 DEF u

\* The bootloader update: one step per stage.
LEMMA FipKeeps ==
  ASSUME IInv, FipStart \/ FipStep
  PROVE  IInv'
  <1>0. /\ TableOk(vol) /\ Ctl
        /\ UNCHANGED <<fit, lost>>
        /\ fip.mode \in Modes
    BY DEF IInv, TypeOK, Ctl, FipStart, FipStep, FipAttach, FipPrep, FipWrite, FipPromote,
           FipVerify, FipRollback, FipOnly
  <1> DEFINE Fips == [stage : FipStages \cup {"IDLE"}, mode : Modes]
  <1>A. NoFip \in Fips
    BY DEF NoFip, Modes
  <1>B. \A s \in FipStages : FipGo(s) => fip' \in Fips
    BY <1>0 DEF FipGo, Ctl
  <1>1. CASE FipStart
    <2>1. FipImage(vol, vol') /\ UNCHANGED taken
      BY <1>0, <1>1, FipTables DEF FipStart
    <2>2. Ctl'
      BY <1>0, <1>1 DEF FipStart, Ctl, FipStages, Modes
    <2> QED BY <1>0, <2>1, <2>2, FipLeaves
  <1>2. CASE FipAttach
    <2>1. FipImage(vol, vol') /\ UNCHANGED taken
      BY <1>0, <1>2, FipTables DEF FipAttach
    <2>2. fip' \in [stage : FipStages \cup {"IDLE"}, mode : Modes]
      BY <1>2 DEF FipAttach, Classified, FipEnds, NoFip, FipStages, Modes
    <2>3. ro' \in BOOLEAN
      BY <1>0, <1>2 DEF FipAttach, Ctl
    <2>4. Ctl'
      BY <1>0, <2>1, <2>2, <2>3 DEF Ctl
    <2> QED BY <1>0, <2>1, <2>4, FipLeaves
  <1>3. CASE FipPrep
    <2>1. CASE /\ ~ro /\ FipLebs <= Avail(FipCleared)
               /\ vol' = CreatedAuto(FipCleared, "fip.new", FipLebs)
               /\ fip' = [stage |-> "UBI_STAGE_WRITE",
                          mode |-> IF FipReclaim THEN "REPAIR_MISSING" ELSE fip.mode]
               /\ taken' = (taken \/ FitActive)
               /\ UNCHANGED ro
      <3>1. /\ TableOk(vol')
            /\ \A v \in OtherVols : vol'[v] = vol[v]
            /\ FipSum(vol') <= 3 * FipLebs
        BY <2>1, FipCreates
      <3>2. /\ vol'["fit"] = vol["fit"] /\ vol'["fit.new"] = vol["fit.new"]
            /\ vol'["fit.old"] = vol["fit.old"] /\ vol'["rootfs_data"] = vol["rootfs_data"]
        BY <3>1 DEF OtherVols, FitVols
      <3>3. Rest(vol') = Rest(vol) /\ FitLeft(vol') = FitLeft(vol)
        BY <3>2 DEF Rest, FitLeft
      <3>4. fip' \in [stage : FipStages \cup {"IDLE"}, mode : Modes]
        BY <1>0, <2>1 DEF FipStages, Modes
      <3>5. taken' \in BOOLEAN
        BY <2>1
      <3>6. Ctl'
        BY <1>0, <2>1, <3>4, <3>5 DEF Ctl
      <3>7. InvFips'
        BY <3>1 DEF InvFips, FipSum, FipLeft
      <3>8. InvStaged'
        <4>1. fit.stage = "STAGE_PREP" /\ ~fit.direct =>
                \/ Rest(vol') + FitLeft(vol') >= fit.need + 3 * FipLebs + lost
                \/ FitLeft(vol') >= fit.need + StagedHeadroom
          BY <3>3 DEF IInv, InvStaged
        <4> QED BY <1>0, <4>1 DEF InvStaged, Rest, FitLeft
      <3>9. InvDirect'
        <4>1. ASSUME fit.stage = "STAGE_PREP", fit.direct
              PROVE  /\ taken'
                     /\ \/ Rest(vol') + FitLeft(vol') + vol'["fit"].n
                              >= fit.need + 2 * FipLebs + lost
                        \/ FitLeft(vol') + vol'["fit"].n >= fit.need
          BY <2>1, <3>2, <3>3, <4>1 DEF IInv, InvDirect, FitActive
        <4> QED BY <1>0, <4>1 DEF InvDirect, Rest, FitLeft
      <3>10. InvRunning'
        BY <1>0, <2>1 DEF IInv, InvRunning, FitActive
      <3> QED BY <3>1, <3>6, <3>7, <3>8, <3>9, <3>10, TypeFromTableNext DEF IInv
    <2>2. CASE vol' = FipCleared /\ FipEnds /\ UNCHANGED <<ro, taken>>
      <3>1. FipImage(vol, vol')
        BY <1>0, <2>2, FipTables
      <3>2. Ctl'
        BY <1>0, <2>2 DEF Ctl, FipEnds, NoFip, Modes
      <3> QED BY <1>0, <2>2, <3>1, <3>2, FipLeaves
    <2>3. CASE /\ vol' \in {vol} \cup (IF ro THEN {}
                       ELSE {Removed(vol, {"fip.new"}), Removed(vol, FipStale), FipCleared})
               /\ FipEnds /\ ro' = TRUE /\ UNCHANGED taken
      <3>1. FipImage(vol, vol')
        BY <1>0, <2>3, FipTables
      <3>2. Ctl'
        BY <1>0, <2>3 DEF Ctl, FipEnds, NoFip, Modes
      <3> QED BY <1>0, <2>3, <3>1, <3>2, FipLeaves
    <2> QED BY <1>3, <2>1, <2>2, <2>3 DEF FipPrep
  <1>4. CASE FipWrite
    <2>1. FipImage(vol, vol') /\ UNCHANGED taken
      BY <1>0, <1>4, FipTables DEF FipWrite
    <2>2. fip' \in Fips
      BY <1>4, <1>A, <1>B DEF FipWrite, FipEnds, FipStages
    <2>3. ro' \in BOOLEAN
      BY <1>0, <1>4 DEF FipWrite, Ctl
    <2>4. Ctl'
      BY <1>0, <2>1, <2>2, <2>3 DEF Ctl
    <2> QED BY <1>0, <2>1, <2>4, FipLeaves
  <1>5. CASE FipPromote
    <2>1. FipImage(vol, vol') /\ UNCHANGED taken
      BY <1>0, <1>5, FipTables DEF FipPromote
    <2>2. fip' \in Fips
      BY <1>5, <1>A, <1>B DEF FipPromote, FipEnds, FipStages
    <2>3. ro' \in BOOLEAN
      BY <1>0, <1>5 DEF FipPromote, Ctl
    <2>4. Ctl'
      BY <1>0, <2>1, <2>2, <2>3 DEF Ctl
    <2> QED BY <1>0, <2>1, <2>4, FipLeaves
  <1>6. CASE FipVerify
    <2>1. FipImage(vol, vol') /\ UNCHANGED taken
      BY <1>0, <1>6, FipTables DEF FipVerify
    <2>2. fip' \in Fips
      BY <1>6, <1>A, <1>B DEF FipVerify, FipEnds, FipStages
    <2>3. ro' \in BOOLEAN
      BY <1>0, <1>6 DEF FipVerify, Ctl
    <2>4. Ctl'
      BY <1>0, <2>1, <2>2, <2>3 DEF Ctl
    <2> QED BY <1>0, <2>1, <2>4, FipLeaves
  <1>7. CASE FipRollback
    <2>1. FipImage(vol, vol') /\ UNCHANGED taken
      BY <1>0, <1>7, FipTables DEF FipRollback
    <2>2. fip' \in [stage : FipStages \cup {"IDLE"}, mode : Modes]
      BY <1>7 DEF FipRollback, FipEnds, NoFip, Modes
    <2>3. ro' \in BOOLEAN
      BY <1>0, <1>7 DEF FipRollback, Ctl
    <2>4. Ctl'
      BY <1>0, <2>1, <2>2, <2>3 DEF Ctl
    <2> QED BY <1>0, <2>1, <2>4, FipLeaves
  <1> QED BY <1>1, <1>2, <1>3, <1>4, <1>5, <1>6, <1>7 DEF FipStep

-----------------------------------------------------------------------------
(* The OpenWrt update.                                                     *)

\* Every stage of it keeps the room of the next bootloader.
LEMMA FitStepImage ==
  ASSUME IInv, FitStep
  PROVE  FitImage(vol, vol')
  <1>0. TableOk(vol) /\ lost \in Losses \cup {0}
    BY DEF IInv, TypeOK
  <1>1. CASE FitPrecheck
    BY <1>0, <1>1, FitTables DEF FitPrecheck
  <1>2. CASE FitPrep
    <2>1. CASE /\ fit.need <= Avail(FitCleared)
               /\ vol' = CreatedAuto(FitCleared, Target, fit.need)
      BY <1>2, <2>1, ImageCreated DEF FitPrep
    <2>2. CASE vol' = FitCleared
      BY <1>0, <2>2, FitTables
    <2>3. CASE vol' \in {vol} \cup (IF ro THEN {}
                                   ELSE {Removed(vol, {"fit.new"}),
                                         Removed(vol, {"fit.new", "fit.old"}), FitCleared})
      BY <1>0, <2>3, FitTables
    <2> QED BY <1>2, <2>1, <2>2, <2>3 DEF FitPrep
  <1>3. CASE FitWrite
    BY <1>0, <1>3, FitTables DEF FitWrite
  <1>4. CASE FitPromote
    BY <1>0, <1>4, FitTables DEF FitPromote
  <1>5. CASE FitFinal
    BY <1>0, <1>5, FitTables, ResetTables DEF FitFinal, ResetImages
  <1> QED BY <1>1, <1>2, <1>3, <1>4, <1>5 DEF FitStep

\* An admitted image that finds no room was to be written in place and a FIP
\* update has taken its room, or the reserve lacks more than the margin.
LEMMA NoRoom ==
  ASSUME IInv
  PROVE  AdmittedFits
  <1> SUFFICES ASSUME fit.stage = "STAGE_PREP", Avail(FitCleared) < fit.need
               PROVE  \/ fit.direct /\ taken
                      \/ lost - Free(vol)
                           > IF fit.direct THEN DirectMargin(FitLeft(vol)) ELSE StagedHeadroom
    BY DEF AdmittedFits
  <1>0. /\ TableOk(vol) /\ fit.direct \in BOOLEAN /\ fit.need \in Needs \cup {0}
        /\ lost \in Losses \cup {0}
    BY DEF IInv, TypeOK
  <1>1. /\ TableOk(FitCleared)
        /\ Free(FitCleared) =
             Free(vol) + FitLeft(vol) + (IF fit.direct THEN vol["fit"].n ELSE 0)
    BY <1>0, ClearedRoom
  <1>2. /\ Free(vol) = Rest(vol) - FipSum(vol) /\ Rest(vol) \in Int /\ Free(vol) \in Int
        /\ FipSum(vol) \in Nat /\ FitLeft(vol) \in Nat /\ fit.need \in Nat
        /\ FipSum(vol) <= 3 * FipLebs
    BY <1>0, Counted, TypedTables, NeedsAreNat DEF TableOk, Sized, IInv, InvFips
  <1>3. /\ Free(FitCleared) \in Nat /\ lost \in Nat
        /\ Free(FitCleared) - lost < fit.need
    BY <1>0, <1>1, <1>2, AvailMeans
  <1>4. DirectMargin(FitLeft(vol)) \in Nat
    BY <1>2, HeadroomForFips DEF DirectMargin
  <1>5. CASE fit.direct
    <2>1. ~taken => \/ Free(vol) + FitLeft(vol) + vol["fit"].n >= fit.need + lost
                    \/ FitLeft(vol) + vol["fit"].n >= fit.need + DirectMargin(FitLeft(vol))
      BY <1>5 DEF IInv, InvDirect
    <2>2. vol["fit"].n \in Nat
      BY <1>0, Counted, TypedTables DEF TableOk, Sized, Names, FitVols
    <2>3. Free(vol) + FitLeft(vol) + vol["fit"].n < fit.need + lost
      BY <1>1, <1>2, <1>3, <1>5, <2>2
    <2>4. FitLeft(vol) + vol["fit"].n >= fit.need + DirectMargin(FitLeft(vol))
            => lost - Free(vol) > DirectMargin(FitLeft(vol))
      BY <1>2, <1>3, <1>4, <2>2, <2>3
    <2>5. ~(Free(vol) + FitLeft(vol) + vol["fit"].n >= fit.need + lost)
      BY <1>2, <1>3, <2>2, <2>3
    <2> QED BY <1>5, <2>1, <2>4, <2>5
  <1>6. CASE ~fit.direct
    <2>1. \/ Rest(vol) + FitLeft(vol) >= fit.need + 3 * FipLebs + lost
          \/ FitLeft(vol) >= fit.need + StagedHeadroom
      BY <1>6 DEF IInv, InvStaged
    <2>2. lost - Free(vol) > StagedHeadroom
      BY <1>1, <1>2, <1>3, <1>6, <2>1, HeadroomForFips
    <2> QED BY <1>6, <2>2
  <1> QED BY <1>5, <1>6

\* What PRECHECK establishes.
LEMMA Admitted ==
  ASSUME IInv, fit.stage = "PRECHECK", ManifestOk, FitsStaged \/ FitsDirect
  PROVE  /\ FitsStaged => \/ Rest(vol) + FitLeft(vol) >= fit.need + 3 * FipLebs + lost
                           \/ FitLeft(vol) >= fit.need + StagedHeadroom
         /\ ~FitsStaged =>
              /\ \/ Free(vol) + FitLeft(vol) + vol["fit"].n >= fit.need + lost
                 \/ FitLeft(vol) + vol["fit"].n >= fit.need + DirectMargin(FitLeft(vol))
              /\ \/ Rest(vol) + FitLeft(vol) + vol["fit"].n >= fit.need + 2 * FipLebs + lost
                 \/ FitLeft(vol) + vol["fit"].n >= fit.need
  <1>0. TableOk(vol) /\ fit.need \in Needs \cup {0} /\ lost \in Losses \cup {0}
    BY DEF IInv, TypeOK
  <1>1. /\ Free(vol) = Rest(vol) - FipSum(vol) /\ Rest(vol) \in Int
        /\ FipSum(vol) \in Nat /\ FitLeft(vol) \in Nat /\ fit.need \in Nat
        /\ \A v \in Names : vol[v].n \in Nat
    BY <1>0, Counted, TypedTables, NeedsAreNat DEF TableOk, Sized
  <1>2. vol["fit"].n \in Nat /\ vol["fip"].n \in Nat /\ FipLeft(vol) \in Nat
    BY <1>0, <1>1, Counted, TypedTables DEF TableOk, Sized, Names, FitVols, FipVols
  <1>3. vol["fip"].n = FipLebs
    BY <1>0, <1>2 DEF ManifestOk, Exists, TableOk, Sized, FipVols
  <1>4. FipSum(vol) >= FipLebs
    BY <1>2, <1>3, HeadroomForFips DEF FipSum
  <1>5. /\ Free(vol) \in Nat /\ lost \in Nat /\ Avail(vol) \in Nat
        /\ Avail(vol) = IF Free(vol) > lost THEN Free(vol) - lost ELSE 0
        /\ Headroom = Avail(vol) + FitLeft(vol)
    BY <1>0, AvailMeans DEF Headroom
  <1>6. ASSUME FitsStaged
        PROVE  \/ Rest(vol) + FitLeft(vol) >= fit.need + 3 * FipLebs + lost
               \/ FitLeft(vol) >= fit.need + StagedHeadroom
    <2>1. Avail(vol) + FitLeft(vol) >= fit.need + StagedHeadroom
      BY <1>5, <1>6 DEF FitsStaged
    <2> QED BY <1>1, <1>4, <1>5, <2>1, HeadroomForFips
  <1>7. ASSUME FitsDirect
        PROVE  /\ \/ Free(vol) + FitLeft(vol) + vol["fit"].n >= fit.need + lost
                  \/ FitLeft(vol) + vol["fit"].n >= fit.need + DirectMargin(FitLeft(vol))
               /\ \/ Rest(vol) + FitLeft(vol) + vol["fit"].n >= fit.need + 2 * FipLebs + lost
                  \/ FitLeft(vol) + vol["fit"].n >= fit.need
    <2>0. Reserve \in Nat /\ FipLebs \in Nat /\ Reserve >= FipLebs
      BY HeadroomForFips
    <2>1. CASE Free(vol) > lost
      <3>1. Headroom = Free(vol) - lost + FitLeft(vol)
        BY <1>5, <2>1
      <3>2. CASE Headroom < Reserve
        <4>1. Headroom + vol["fit"].n >= fit.need + Headroom
          BY <1>7, <3>2 DEF FitsDirect, DirectMargin
        <4> QED BY <1>1, <1>2, <1>5, <2>0, <2>1, <3>1, <4>1
      <3>3. CASE ~(Headroom < Reserve)
        <4>1. Headroom + vol["fit"].n >= fit.need + Reserve
          BY <1>7, <3>3 DEF FitsDirect, DirectMargin
        <4> QED BY <1>1, <1>2, <1>4, <1>5, <2>0, <2>1, <3>1, <4>1
      <3> QED BY <3>2, <3>3
    <2>2. CASE ~(Free(vol) > lost)
      <3>1. Headroom = FitLeft(vol)
        BY <1>1, <1>5, <2>2
      <3>2. FitLeft(vol) + vol["fit"].n >= fit.need + DirectMargin(FitLeft(vol))
        BY <1>7, <3>1 DEF FitsDirect
      <3>3. DirectMargin(FitLeft(vol)) \in Nat
        BY <1>1, <2>0 DEF DirectMargin
      <3>4. FitLeft(vol) + vol["fit"].n >= fit.need
        BY <1>1, <1>2, <3>2, <3>3
      <3> QED BY <3>2, <3>4
    <2> QED BY <2>1, <2>2
  <1> QED BY <1>6, <1>7

\* Nothing is running in the next state, or the bootloader update only.
LEMMA Ended ==
  ASSUME IInv, TableOk(vol'), FipSum(vol') <= 3 * FipLebs,
         fit' = NoFit, lost' = lost, taken' = FALSE,
         ro' \in BOOLEAN, fip' \in {fip, NoFip}
  PROVE  IInv'
  <1>1. Ctl'
    <2>1. fip' \in [stage : FipStages \cup {"IDLE"}, mode : Modes]
      BY DEF IInv, TypeOK, NoFip, Modes
    <2>2. fit' \in [stage : FitStages \cup {"IDLE"}, need : Needs \cup {0},
                    keep : BOOLEAN, direct : BOOLEAN]
      BY DEF NoFit
    <2>3. lost' \in Losses \cup {0}
      BY DEF IInv, TypeOK
    <2> QED BY <2>1, <2>2, <2>3 DEF Ctl
  <1>2. fit'.stage = "IDLE"
    BY DEF NoFit
  <1>3. InvRunning'
    BY <1>2 DEF InvRunning, FitActive
  <1> QED BY <1>1, <1>2, <1>3, AtRest

\* An OpenWrt update goes on with a stage after STAGE_PREP.
LEMMA GoesOn ==
  ASSUME IInv, FitImage(vol, vol'), FitActive,
         NEW s \in FitStages \ {"STAGE_PREP"}, FitGo(s), ro' \in BOOLEAN,
         UNCHANGED <<fip, lost>>
  PROVE  IInv'
  <1>1. fit' = [fit EXCEPT !.stage = s] /\ UNCHANGED taken
    BY DEF FitGo
  <1>2. /\ fit \in [stage : FitStages \cup {"IDLE"}, need : Needs \cup {0},
                    keep : BOOLEAN, direct : BOOLEAN]
        /\ fit.need \in Needs
    BY DEF IInv, TypeOK, InvRunning
  <1>3. fit'.stage = s /\ fit'.need = fit.need
    BY <1>1, <1>2
  <1>4. Ctl'
    BY <1>1, <1>2 DEF Ctl, IInv, TypeOK
  <1>5. InvRunning'
    BY <1>1, <1>2, <1>3 DEF InvRunning, FitActive
  <1>6. TableOk(vol') /\ FipSum(vol') <= 3 * FipLebs
    BY SameFips DEF FitImage
  <1> QED BY <1>3, <1>4, <1>5, <1>6, AtRest

\* The OpenWrt update: one step per stage.
LEMMA FitKeeps ==
  ASSUME IInv, FitStep
  PROVE  IInv'
  <1>0. /\ TableOk(vol) /\ ro \in BOOLEAN /\ taken \in BOOLEAN
        /\ fit \in [stage : FitStages \cup {"IDLE"}, need : Needs \cup {0},
                    keep : BOOLEAN, direct : BOOLEAN]
        /\ fip' = fip /\ lost' = lost
    BY DEF IInv, TypeOK, FitStep, FitPrecheck, FitPrep, FitWrite, FitPromote, FitFinal, FitOnly
  <1>1. FitImage(vol, vol') /\ TableOk(vol') /\ FipSum(vol') <= 3 * FipLebs
    BY FitStepImage, SameFips DEF FitImage
  <1>2. ASSUME FitEnds, ro' \in BOOLEAN
        PROVE  IInv'
    BY <1>0, <1>1, <1>2, Ended DEF FitEnds
  <1>3. CASE FitPrecheck
    <2>1. CASE /\ ManifestOk /\ (FitsStaged \/ FitsDirect)
               /\ fit' = [fit EXCEPT !.stage = "STAGE_PREP", !.direct = ~FitsStaged]
               /\ taken' = FALSE
               /\ ro' = FALSE
      <3>0. fit.stage = "PRECHECK" /\ vol' = vol
        BY <1>3 DEF FitPrecheck
      <3>1. /\ FitsStaged => \/ Rest(vol) + FitLeft(vol) >= fit.need + 3 * FipLebs + lost
                              \/ FitLeft(vol) >= fit.need + StagedHeadroom
            /\ ~FitsStaged =>
                 /\ \/ Free(vol) + FitLeft(vol) + vol["fit"].n >= fit.need + lost
                    \/ FitLeft(vol) + vol["fit"].n
                          >= fit.need + DirectMargin(FitLeft(vol))
                 /\ \/ Rest(vol) + FitLeft(vol) + vol["fit"].n
                          >= fit.need + 2 * FipLebs + lost
                    \/ FitLeft(vol) + vol["fit"].n >= fit.need
        BY <2>1, <3>0, Admitted
      <3>2. (~FitsStaged) \in BOOLEAN
        OBVIOUS
      <3>3. /\ fit'.need = fit.need /\ fit'.direct = ~FitsStaged
            /\ fit' \in [stage : FitStages \cup {"IDLE"}, need : Needs \cup {0},
                         keep : BOOLEAN, direct : BOOLEAN]
        BY <1>0, <2>1, <3>2 DEF FitStages
      <3>4. Ctl'
        BY <1>0, <2>1, <3>3 DEF Ctl, IInv, TypeOK
      <3>5. InvFips'
        BY <3>0 DEF IInv, InvFips, FipSum, FipLeft
      <3>6. InvStaged'
        BY <1>0, <3>0, <3>1, <3>3 DEF InvStaged, Rest, FitLeft
      <3>7. InvDirect'
        BY <1>0, <3>0, <3>1, <3>3 DEF InvDirect, Rest, FitLeft, Free, FipLeft, DirectMargin
      <3>8. InvRunning'
        BY <2>1, <3>0, <3>3 DEF IInv, InvRunning, FitActive
      <3> QED BY <1>1, <3>4, <3>5, <3>6, <3>7, <3>8, TypeFromTableNext DEF IInv
    <2>2. CASE FitEnds /\ ro' \in BOOLEAN
      BY <1>2, <2>2
    <2> QED BY <1>3, <2>1, <2>2 DEF FitPrecheck
  <1>4. CASE FitPrep
    <2>0. fit.stage = "STAGE_PREP" /\ FitActive
      BY <1>4 DEF FitPrep, FitActive
    <2>1. CASE FitGo("STAGE_WRITE") /\ UNCHANGED ro
      BY <1>0, <1>1, <2>0, <2>1, GoesOn DEF FitStages
    <2>2. CASE FitEnds /\ UNCHANGED ro
      BY <1>0, <1>2, <2>2
    <2>3. CASE FitEnds /\ ro' = TRUE
      BY <1>2, <2>3
    <2> QED BY <1>4, <2>1, <2>2, <2>3 DEF FitPrep
  <1>5. CASE FitWrite
    <2>0. FitActive
      BY <1>5 DEF FitWrite, FitActive
    <2>1. CASE FitGo(IF fit.direct THEN "FINAL_VERIFY" ELSE "PROMOTE") /\ UNCHANGED ro
      BY <1>0, <1>1, <2>0, <2>1, GoesOn DEF FitStages
    <2>2. CASE FitEnds /\ ro' \in {ro, TRUE}
      BY <1>0, <1>2, <2>2
    <2> QED BY <1>5, <2>1, <2>2 DEF FitWrite
  <1>6. CASE FitPromote
    <2>0. FitActive
      BY <1>6 DEF FitPromote, FitActive
    <2>1. CASE FitGo("FINAL_VERIFY") /\ UNCHANGED ro
      BY <1>0, <1>1, <2>0, <2>1, GoesOn DEF FitStages
    <2>2. CASE FitEnds /\ ro' = TRUE
      BY <1>2, <2>2
    <2> QED BY <1>6, <2>1, <2>2 DEF FitPromote
  <1>7. CASE FitFinal
    <2>1. FitEnds
      BY <1>7 DEF FitFinal
    <2>2. ro' \in BOOLEAN
      BY <1>0, <1>7 DEF FitFinal
    <2> QED BY <1>2, <2>1, <2>2
  <1> QED BY <1>3, <1>4, <1>5, <1>6, <1>7 DEF FitStep

-----------------------------------------------------------------------------
(* The rest.                                                               *)

\* What a power loss leaves while no bootloader update is active.
LEMMA CrashOfFit ==
  ASSUME TableOk(vol), lost \in Losses \cup {0}, fip.stage = "IDLE", NEW u \in CrashImages
  PROVE  FitImage(vol, u)
  <1>1. \A x \in ResetImages : FitImage(vol, x)
    BY FitTables, ResetTables DEF ResetImages
  <1>2. u \in {vol, Removed(vol, {"fit.new"}), Removed(vol, {"fit.new", "fit.old"}),
              FitCleared, FitAside, FitPromoted} \cup ResetImages
    BY DEF CrashImages
  <1> QED BY <1>1, <1>2, FitTables

\* What it leaves at any time.
LEMMA CrashImagesOk ==
  ASSUME IInv, NEW u \in CrashImages
  PROVE  TableOk(u) /\ FipSum(u) <= 3 * FipLebs
  <1>0. TableOk(vol) /\ lost \in Losses \cup {0}
    BY DEF IInv, TypeOK
  <1>1. \A x \in ResetImages : FitImage(vol, x)
    BY <1>0, FitTables, ResetTables DEF ResetImages
  <1>2. \/ u \in {vol, Removed(vol, {"fit.new"}), Removed(vol, {"fit.new", "fit.old"}),
                 FitCleared, FitAside, FitPromoted} \cup ResetImages
        \/ u \in {Removed(vol, {"fip.new"}), Removed(vol, FipStale), FipCleared,
                 FipPromoted, FipRolledBack}
    BY DEF CrashImages
  <1>3. CASE FitImage(vol, u)
    BY <1>3, SameFips DEF FitImage
  <1>4. CASE FipImage(vol, u)
    BY <1>4, FewerFips DEF FipImage
  <1> QED BY <1>0, <1>1, <1>2, <1>3, <1>4, FitTables, FipTables

\* What the migration leaves.
LEMMA InitOk == Init => IInv
  <1> SUFFICES ASSUME Init PROVE IInv
    OBVIOUS
  <1>1. PICK n \in {m \in Needs : TotalLebs > FipLebs + m + Reserve} :
          vol = [v \in Names |->
                   CASE v = "fip" -> [n |-> FipLebs, id |-> "low"]
                     [] v = "fit" -> [n |-> n, id |-> "low"]
                     [] v = "rootfs_data" ->
                           [n |-> TotalLebs - FipLebs - n - Reserve, id |-> "six"]
                     [] OTHER -> Gone]
    BY DEF Init
  <1>2. n \in Nat \ {0} /\ TotalLebs > FipLebs + n + Reserve
    BY <1>1, HeadroomForFips
  <1> DEFINE left == TotalLebs - FipLebs - n - Reserve
  <1>3. left \in Nat \ {0}
    BY <1>2, HeadroomForFips
  <1>4. /\ vol["fip"] = [n |-> FipLebs, id |-> "low"]
        /\ vol["fit"] = [n |-> n, id |-> "low"]
        /\ vol["rootfs_data"] = [n |-> left, id |-> "six"]
        /\ vol["fip.new"] = Gone /\ vol["fip.old"] = Gone /\ vol["fip.bad"] = Gone
        /\ vol["fit.new"] = Gone /\ vol["fit.old"] = Gone
    BY <1>1 DEF Names, FipVols, FitVols
  <1>5. vol = [v \in Names |-> vol[v]]
    BY <1>1
  <1> HIDE DEF left
  <1>6. \A v \in Names : vol[v] \in [n : Nat, id : Ids \cup {NoId}]
    BY <1>2, <1>3, <1>4, HeadroomForFips DEF Names, FipVols, FitVols, Gone, Ids
  <1>7. vol \in [Names -> [n : Nat, id : Ids \cup {NoId}]]
    BY <1>5, <1>6
  <1>8. FipSum(vol) = FipLebs /\ Free(vol) = Reserve
    BY <1>2, <1>4, HeadroomForFips DEF FipSum, FipLeft, Free, FitLeft, Gone, left
  <1>9. Sized(vol)
    <2>1. /\ \A v \in Names : vol[v].n = 0 <=> vol[v].id = NoId
          /\ \A v \in FipVols : vol[v].n \in {0, FipLebs}
      BY <1>2, <1>3, <1>4, HeadroomForFips DEF Names, FipVols, FitVols, Gone, NoId
    <2>2. vol \in [Names -> Volumes] /\ Free(vol) >= 0
      BY <1>7, <1>8, TypedTables, HeadroomForFips
    <2> QED BY <2>1, <2>2 DEF Sized
  <1>10. IdsOk(vol)
    <2>1. Holders(vol, "low") = {"fip"} \cup {"fit"} /\ Holders(vol, "six") = {"rootfs_data"}
      BY <1>4 DEF Holders, Names, FipVols, FitVols, Gone, NoId
    <2>2. IsFiniteSet({"fip"}) /\ Cardinality({"fip"}) = 1 /\ Cardinality({"rootfs_data"}) = 1
      BY FS_Singleton
    <2>3. Cardinality({"fip"} \cup {"fit"}) <= 2
      BY <2>2, FS_AddElement
    <2> QED BY <2>1, <2>2, <2>3 DEF IdsOk, LowIds
  <1>11. Ctl
    <2>1. NoFip \in [stage : FipStages \cup {"IDLE"}, mode : Modes]
      BY DEF NoFip, Modes
    <2>2. NoFit \in [stage : FitStages \cup {"IDLE"}, need : Needs \cup {0},
                     keep : BOOLEAN, direct : BOOLEAN]
      BY DEF NoFit
    <2> QED BY <2>1, <2>2 DEF Init, Ctl
  <1>12. InvFips
    BY <1>8, HeadroomForFips DEF InvFips
  <1>13. fit.stage = "IDLE"
    BY DEF Init, NoFit
  <1>14. InvRunning /\ InvStaged /\ InvDirect
    BY <1>13 DEF Init, InvRunning, FitActive, InvStaged, InvDirect
  <1> QED BY <1>9, <1>10, <1>11, <1>12, <1>14, TypeFromTable DEF IInv, TableOk

\* Every step keeps the invariant.
LEMMA NextKeeps ==
  ASSUME IInv, [Next]_vars
  PROVE  IInv'
  <1>0. TableOk(vol) /\ lost \in Losses \cup {0}
    BY DEF IInv, TypeOK
  <1>1. CASE FipStart \/ FipStep
    BY <1>1, FipKeeps
  <1>2. ASSUME NEW n \in Needs, NEW keep \in BOOLEAN, FitStart(n, keep)
        PROVE  IInv'
    <2>1. TableOk(vol') /\ FipSum(vol') <= 3 * FipLebs
      BY <1>0, <1>2, SameFips DEF FitStart
    <2>2. /\ fit' = [stage |-> "PRECHECK", need |-> n, keep |-> keep, direct |-> FALSE]
          /\ fit' \in [stage : FitStages \cup {"IDLE"}, need : Needs \cup {0},
                       keep : BOOLEAN, direct : BOOLEAN]
      BY <1>2 DEF FitStart, FitStages
    <2>3. fit'.stage = "PRECHECK" /\ fit'.need \in Needs
      BY <2>2
    <2>4. Ctl'
      BY <1>2, <2>2 DEF Ctl, FitStart, IInv, TypeOK
    <2>5. InvRunning'
      BY <1>2, <2>3 DEF FitStart, InvRunning, FitActive
    <2> QED BY <2>1, <2>3, <2>4, <2>5, AtRest
  <1>3. CASE FitStep
    BY <1>3, FitKeeps
  <1>4. CASE ResetSettings
    <2>1. FitImage(vol, vol')
      BY <1>0, <1>4, FitTables, ResetTables DEF ResetSettings, ResetImages
    <2>2. TableOk(vol') /\ FipSum(vol') <= 3 * FipLebs
      BY <2>1, SameFips DEF FitImage
    <2>3. ro' \in BOOLEAN /\ UNCHANGED <<lost, fip, fit, taken>> /\ fit.stage = "IDLE"
      BY <1>4 DEF ResetSettings, FitActive
    <2>4. Ctl'
      BY <2>3 DEF Ctl, IInv, TypeOK
    <2>5. InvRunning'
      BY <2>3 DEF IInv, InvRunning, FitActive
    <2> QED BY <2>2, <2>3, <2>4, <2>5, AtRest
  <1>5. CASE PowerLoss
    <2>1. TableOk(vol') /\ FipSum(vol') <= 3 * FipLebs
      BY <1>5, CrashImagesOk DEF PowerLoss
    <2> QED BY <1>5, <2>1, Ended DEF PowerLoss, Idle
  <1>6. CASE OpenWrtRuns
    <2>1. CASE UNCHANGED vol
      <3>1. TableOk(vol') /\ FipSum(vol') <= 3 * FipLebs
        BY <1>0, <2>1, SameFips
      <3> QED BY <1>6, <3>1, Ended DEF OpenWrtRuns, Idle
    <2>2. ASSUME NEW n, n \in 1..Avail(NoRootfs),
                 vol' = CreatedAuto(NoRootfs, "rootfs_data", n)
          PROVE  IInv'
      <3>1. TableOk(NoRootfs) /\ \A v \in FipVols : NoRootfs[v] = vol[v]
        BY <1>0, ResetTables DEF FitImage
      <3>2. Free(NoRootfs) \in Nat /\ Avail(NoRootfs) \in Nat /\ Avail(NoRootfs) <= Free(NoRootfs)
        BY <1>0, <3>1, AvailMeans
      <3>3. n \in Nat \ {0} /\ n <= Free(NoRootfs)
        BY <2>2, <3>2
      <3>4. /\ "rootfs_data" \in Names /\ "rootfs_data" \notin FipVols
            /\ \A v \in FipVols : v \in Names \ {"rootfs_data"}
        BY DEF Names, FipVols, FitVols
      <3>5. NoRootfs["rootfs_data"] = Gone
        BY <3>4 DEF NoRootfs, Removed
      <3>6. /\ TableOk(vol')
            /\ \A w \in Names \ {"rootfs_data"} : vol'[w] = NoRootfs[w]
        BY <2>2, <3>1, <3>3, <3>4, <3>5, CreatedOk, LowestIdIsFree DEF CreatedAuto
      <3>7. FipSum(vol') <= 3 * FipLebs
        BY <3>1, <3>4, <3>6, SameFips
      <3> QED BY <1>6, <3>6, <3>7, Ended DEF OpenWrtRuns, Idle
    <2> QED BY <1>6, <2>1, <2>2 DEF OpenWrtRuns
  <1>7. CASE Corrupted
    <2>1. TableOk(vol') /\ FipSum(vol') <= 3 * FipLebs
      BY <1>0, <1>7, SameFips DEF Corrupted
    <2>2. /\ lost' \in Losses \cup {0} /\ UNCHANGED <<vol, ro, fip, fit, taken>>
          /\ fit.stage # "STAGE_PREP"
      BY <1>7 DEF Corrupted, FitActive
    <2>3. Ctl'
      BY <2>2 DEF Ctl, IInv, TypeOK
    <2>4. InvRunning'
      BY <2>2 DEF IInv, InvRunning, FitActive
    <2> QED BY <2>1, <2>2, <2>3, <2>4, AtRest
  <1>8. CASE UNCHANGED vars
    BY <1>8 DEF vars, IInv, TypeOK, TableOk, Sized, IdsOk, Holders, InvFips, FipSum, FipLeft,
                InvRunning, FitActive, InvStaged, InvDirect, Rest, FitLeft, Free,
                DirectMargin
  <1> QED BY <1>1, <1>2, <1>3, <1>4, <1>5, <1>6, <1>7, <1>8 DEF Next

-----------------------------------------------------------------------------
(* The theorems.                                                           *)

\* The inductive invariant holds throughout.
THEOREM Inductive == Spec => []IInv
  <1>1. IInv /\ [Next]_vars => IInv'
    BY NextKeeps
  <1> QED BY <1>1, InitOk, PTL DEF Spec

\* Whatever the two updates, the reset, OpenWrt and power losses do to the
\* table, no volume id is held twice beyond those there are, no volume is
\* larger than the device, and a volume has an id exactly when it exists.
THEOREM TypeCorrect == Spec => []TypeOK
  <1>1. IInv => TypeOK
    BY DEF IInv
  <1> QED BY <1>1, Inductive, PTL

\* An OpenWrt update that PRECHECK admitted finds its room at STAGE_PREP,
\* unless it is a direct one and a FIP update created fip.new in between
\* (POST /api/update-ursusboot), or more of the bad-block reserve is missing
\* than the margin PRECHECK asks for (ubi_remove_vol fills it first).
THEOREM AdmittedFit == Spec => []AdmittedFits
  BY NoRoom, Inductive, PTL

\* A step of an active OpenWrt update never takes the room the next FIP
\* update needs: the headroom of PRECHECK and the reserve of the settings
\* reset (ursus_ubi_fip_new_headroom) suffice on every device.
THEOREM FipRoomIsKept == Spec => FipRoomKept
  <1>1. IInv /\ [Next]_vars =>
          [FitActive /\ UNCHANGED fip => (FipRoom(vol) => FipRoom(vol'))]_vars
    <2> SUFFICES ASSUME IInv, Next, FitActive, fip' = fip, FipRoom(vol)
                 PROVE  FipRoom(vol')
      BY DEF vars
    <2>0. TableOk(vol) /\ lost \in Losses \cup {0}
      BY DEF IInv, TypeOK
    <2>1. CASE FipStart \/ FipStep
      <3>1. fip'.stage # fip.stage
        <4>1. fip.stage # "IDLE" => NoFip.stage # fip.stage
          BY DEF NoFip
        <4>2. fip \in [stage : FipStages \cup {"IDLE"}, mode : Modes]
          BY DEF IInv, TypeOK
        <4>3. \A s \in FipStages : FipGo(s) => fip'.stage = s
          BY <4>2 DEF FipGo
        <4>4. CASE FipStart
          <5>1. fip' = [stage |-> "UBI_ATTACH", mode |-> "NORMAL"] /\ fip.stage = "IDLE"
            BY <4>4 DEF FipStart, FipActive
          <5> QED BY <5>1
        <4>5. CASE FipAttach
          BY <4>1, <4>5 DEF FipAttach, FipEnds
        <4>6. CASE FipPrep
          BY <4>1, <4>6 DEF FipPrep, FipEnds
        <4>7. CASE FipWrite
          BY <4>1, <4>3, <4>7 DEF FipWrite, FipEnds, FipStages
        <4>8. CASE FipPromote
          BY <4>1, <4>3, <4>8 DEF FipPromote, FipEnds, FipStages
        <4>9. CASE FipVerify
          BY <4>1, <4>3, <4>9 DEF FipVerify, FipEnds, FipStages
        <4>10. CASE FipRollback
          BY <4>1, <4>10 DEF FipRollback, FipEnds
        <4> QED BY <2>1, <4>4, <4>5, <4>6, <4>7, <4>8, <4>9, <4>10 DEF FipStep
      <3> QED BY <3>1
    <2>2. CASE FitStep
      BY <2>2, FitStepImage DEF FitImage
    <2>3. CASE PowerLoss
      <3>1. fip.stage = "IDLE" /\ vol' \in CrashImages
        BY <2>3 DEF PowerLoss, Idle, NoFip
      <3> QED BY <2>0, <3>1, CrashOfFit DEF FitImage
    <2>4. ASSUME NEW n \in Needs, NEW keep \in BOOLEAN, FitStart(n, keep)
          PROVE  FALSE
      BY <2>4 DEF FitStart
    <2>5. CASE ResetSettings \/ OpenWrtRuns
      BY <2>5 DEF ResetSettings, OpenWrtRuns
    <2>6. CASE Corrupted
      BY <2>6 DEF Corrupted
    <2> QED BY <2>1, <2>2, <2>3, <2>4, <2>5, <2>6 DEF Next
  <1> QED BY <1>1, Inductive, PTL DEF Spec, FipRoomKept

=============================================================================
