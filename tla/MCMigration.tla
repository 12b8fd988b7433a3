---------------------------- MODULE MCMigration ----------------------------
(***************************************************************************)
(* Migration for TLC: one image, retries within a session and across power  *)
(* losses.                                                                 *)
(***************************************************************************)
EXTENDS Migration, TLC

CONSTANTS f1, f2

MCFits == {f1, f2}
MCUploads == {f1, f2, Junk}

\* One session, the power stays on.
SessionNext ==
    \/ PreloaderUpload(TRUE)
    \/ Start
    \/ Step
    \/ \E c \in Uploads : Overwrite(c)

SessionSpec == Init /\ [][SessionNext]_vars

=============================================================================
