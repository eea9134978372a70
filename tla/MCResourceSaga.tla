--------------------------- MODULE MCResourceSaga ---------------------------
(***************************************************************************)
(* ResourceSaga on small instances.                                        *)
(***************************************************************************)
EXTENDS ResourceSaga, TLC

Symmetry == Permutations(Handlers) \cup Permutations(Databases)

=============================================================================
