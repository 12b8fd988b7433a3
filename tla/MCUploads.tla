----------------------------- MODULE MCUploads -----------------------------
(***************************************************************************)
(* Uploads for TLC: three uploads of up to two cells over two connections.  *)
(***************************************************************************)
EXTENDS Uploads, TLC

CONSTANTS g1, g2, g3, c1, c2

MCGens == {g1, g2, g3}
MCSize == (g1 :> 2) @@ (g2 :> 2) @@ (g3 :> 1)
MCGood == {g1, g3}
MCConns == {c1, c2}
ConnSymmetry == Permutations(MCConns)

=============================================================================
