---------------------------- MODULE EdgePublisher ----------------------------
(***************************************************************************)
(* What the panel promises about its edge proxy, with no process, lock or  *)
(* message in sight.  The routing tables the database has held are         *)
(* numbered 1, 2, 3, ... in commit order; the edge serves one of them, or  *)
(* 0, the bootstrap Caddyfile it starts from.                              *)
(***************************************************************************)
EXTENDS Naturals

VARIABLES
  db,     \* the number of the routing table now committed
  edge    \* the number of the routing table the edge serves

vars == <<db, edge>>

Init == db = 1 /\ edge = 0

\* A committed change makes a new routing table.
Commit == db' = db + 1 /\ edge' = edge

\* The edge moves to a table at least as recent as the one it serves, and
\* never to one that was not committed.
Publish == edge' \in edge .. db /\ db' = db

\* The proxy restarts and serves its bootstrap configuration again.
Forget == edge' = 0 /\ db' = db

Next == Commit \/ Publish \/ Forget

Spec == Init /\ [][Next]_vars

=============================================================================
