-------------------------- MODULE MCBandwidthQuota --------------------------
(***************************************************************************)
(* BandwidthQuota on small instances: a megabyte is two units, so that a   *)
(* sample can be a fraction of one.                                        *)
(***************************************************************************)
EXTENDS BandwidthQuota, TLC

SitesSymmetry == Permutations(Sites)

=============================================================================
