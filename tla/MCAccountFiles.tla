--------------------------- MODULE MCAccountFiles ---------------------------
(***************************************************************************)
(* AccountFiles on small instances.                                        *)
(***************************************************************************)
EXTENDS AccountFiles, TLC

Symmetry == Permutations(Deployers) \cup Permutations(Runners)

=============================================================================
