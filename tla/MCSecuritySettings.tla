------------------------- MODULE MCSecuritySettings -------------------------
(***************************************************************************)
(* SecuritySettings on small instances: two settings the edge can load and *)
(* one it refuses (the WAF on a build without Coraza).                     *)
(***************************************************************************)
EXTENDS EdgeSettings, TLC

SyncersSymmetry == Permutations(Syncers)

=============================================================================
