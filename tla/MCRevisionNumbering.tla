------------------------- MODULE MCRevisionNumbering -------------------------
(***************************************************************************)
(* Instances of RevisionNumbering for TLC.                                 *)
(***************************************************************************)
EXTENDS RevisionNumbering, TLC

MakerSymmetry == Permutations(Maker)

==============================================================================
