----------------------------- MODULE MCEdgeSync -----------------------------
(***************************************************************************)
(* EdgeSync on a small instance: two goroutines of the panel (a request    *)
(* handler and the reconcile loop, or two handlers) and the main one.      *)
(***************************************************************************)
EXTENDS EdgeSync, TLC

=============================================================================
