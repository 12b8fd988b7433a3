---------------------------- MODULE MCFipUpdate ----------------------------
(***************************************************************************)
(* FipUpdate for TLC: which flash the device starts with.                   *)
(***************************************************************************)
EXTENDS FipUpdate, TLC

CONSTANTS u1, u2, n1, v1, x1

MCUrsus == {u1, u2}
MCNokia == {n1}
MCVanilla == {v1}
MCForeign == {x1}
MCOversize == {u2}
MCUploads == {u2, v1, Torn}
MCStockUploads == {u1, u2, v1, Torn}

\* A device on UBI: any kind of active fip, with and without leftovers of an
\* earlier update; with and without its environment volumes.
UbiInit ==
    /\ Init
    /\ layout = "UBI"
    /\ vols["fip"] \in {u1, x1, v1, Absent, Blank, Torn, Unopenable}
    /\ vols["fip.old"] \in {u1, Absent}
    /\ vols["fip.new"] \in {Torn, Absent}
    /\ vols["fip.bad"] \in {x1, Absent}
    /\ mtd0 = [fip |-> u1, rest |-> "vendor"]
    /\ env["ubootenv"] = "ursus"

UbiSpec == UbiInit /\ [][Next]_vars

\* A device on the vendor layout.
StockInit ==
    /\ Init
    /\ layout = "STOCK"
    /\ vols = [v \in VolNames |-> Absent]
    /\ env = [e \in EnvNames |-> Absent]
    /\ ~bl2Pinned

StockSpec == StockInit /\ [][Next]_vars

\* A device on UBI with UrsusBoot in place, for the Vanilla replacement.
HealthyInit ==
    /\ UbiInit
    /\ vols = [v \in VolNames |-> IF v = "fip" THEN u1 ELSE Absent]
    /\ bl2Pinned
    /\ EnvComplete

HealthySpec == HealthyInit /\ [][Next]_vars

\* A device on UBI in the smallest states every mode can start from.
TidyInit ==
    /\ UbiInit
    /\ \A v \in {"fip.new", "fip.bad"} : vols[v] = Absent
    /\ capacity = 3

\* Either layout, fair.
LiveSpec == (StockInit \/ TidyInit) /\ [][Next]_vars /\ Fairness

=============================================================================
