------------------------------ MODULE PlanLimit ------------------------------
(***************************************************************************)
(* What a limit of a plan promises, with no request's steps, no row and no *)
(* server in sight: a client asks once whether there is room, and only one *)
(* that was let in takes something, and only one thing.  Nobody holds a    *)
(* place for it meanwhile, so that the limit may be passed by those who    *)
(* were let in at once.                                                    *)
(***************************************************************************)
EXTENDS Naturals, FiniteSets

CONSTANTS
  Things,    \* what there can be
  Clients,   \* who may ask for one
  Limit

VARIABLES
  taken,     \* the things there are
  inside,    \* the clients that were let in
  lifted     \* does the limit count no more?

vars == <<taken, inside, lifted>>

Init ==
  /\ taken \subseteq Things /\ IsFiniteSet(taken) /\ Cardinality(taken) <= Limit
  /\ inside = {} /\ lifted = FALSE

LetIn(c) ==
  /\ c \notin inside
  /\ lifted \/ Cardinality(taken) < Limit
  /\ inside' = inside \cup {c}
  /\ UNCHANGED <<taken, lifted>>

Take(c, t) ==
  /\ c \in inside /\ inside' = inside \ {c}
  /\ t \notin taken /\ taken' = taken \cup {t}
  /\ UNCHANGED lifted

\* A client that fails, or finds the thing taken.
Leave(c) ==
  /\ c \in inside /\ inside' = inside \ {c}
  /\ UNCHANGED <<taken, lifted>>

Give(S) == taken' = taken \ S /\ UNCHANGED <<inside, lifted>>

Lift == lifted' = TRUE /\ UNCHANGED <<taken, inside>>

\* Nothing is left of who had the plan.
Renew == taken' = {} /\ lifted' = FALSE /\ UNCHANGED inside

Next ==
  \/ \E c \in Clients : LetIn(c) \/ Leave(c) \/ \E t \in Things : Take(c, t)
  \/ \E S \in SUBSET Things : Give(S)
  \/ Lift \/ Renew

Spec == Init /\ [][Next]_vars

=============================================================================
