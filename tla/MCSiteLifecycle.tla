--------------------------- MODULE MCSiteLifecycle ---------------------------
(***************************************************************************)
(* SiteLifecycle on small instances.                                       *)
(***************************************************************************)
EXTENDS SiteLifecycle, TLC

\* Goroutines that run the same code are interchangeable; used only in the
\* runs without liveness.
HandlersSymmetry == Permutations(Handlers)

\* Everything but RestartSite, which publishes nothing.
PublishingKinds == (SiteKinds \ {"restart"}) \cup DomainKinds \cup AccountKinds

=============================================================================
