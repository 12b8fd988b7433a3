---------------------------- MODULE UbiVolumes ----------------------------
(***************************************************************************)
(* The UBI volume table as the recovery code sees it: a function from      *)
(* volume names to what the volume holds.  UBI changes its table           *)
(* atomically (ubi_vtbl_rename_volumes writes all the renames of a list in *)
(* one table update), and takes no care that names stay distinct: that is  *)
(* the caller's business.                                                  *)
(***************************************************************************)
EXTENDS Naturals, FiniteSets

\* What the table says of a name no volume has.
Absent == "absent"

\* A volume that was created and never written (used_bytes = 0).
Blank == "blank"

\* Data that does not read back or does not parse: a write that was cut
\* short (UBI leaves its update marker), or an uncorrectable page.
Torn == "torn"

\* A volume ubi_open_volume refuses: the check UBI makes on the first open
\* of a static volume meets an I/O error that is not an ECC error.
Unopenable == "unopenable"

\* "ubi check v": the exit status 0 of the command.
Exists(vt, v) == vt[v] # Absent

\* "ubi remove v" for each v of D.
Drop(vt, D) == [v \in DOMAIN vt |-> IF v \in D THEN Absent ELSE vt[v]]

\* "ubi create v": a volume without contents.
Create(vt, v) == [vt EXCEPT ![v] = Blank]

\* "ubi write ... v": the volume then holds c.
Fill(vt, v, c) == [vt EXCEPT ![v] = c]

\* "ubi rename from to"; the command itself refuses a name already in use.
Rename(vt, from, to) == [vt EXCEPT ![to] = vt[from], ![from] = Absent]

\* ubi_open_volume_nm(.., UBI_READWRITE) succeeds.
Opens(vt, v) == vt[v] \notin {Absent, Unopenable}

\* The two renames of ursus_ubi_atomic_switch, in one table update.
Switch(vt, current, candidate, backup) ==
    [vt EXCEPT ![backup] = vt[current],
               ![current] = vt[candidate],
               ![candidate] = Absent]

=============================================================================
