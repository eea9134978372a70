---------------------------- MODULE SessionBaton ----------------------------
(***************************************************************************)
(* What rotating refresh tokens promise about a login, with no row, token  *)
(* or request in sight: from the check of the credentials on, the session  *)
(* is a baton that the server and the client hand to each other.  Only one *)
(* of them has it, and once the session is over nobody gets it back.       *)
(***************************************************************************)
CONSTANT Logins

VARIABLE holder    \* who has the baton of each login

Init == holder = [l \in Logins |-> "unused"]

Pass(l, from, to) == holder[l] = from /\ holder' = [holder EXCEPT ![l] = to]

\* The credentials are right.
Begin(l) == Pass(l, "unused", "server")

\* The server answers with a refresh token, and the client comes back with it.
HandOut(l) == Pass(l, "server", "client")
HandIn(l) == Pass(l, "client", "server")

\* Any number of sessions end at once.
End ==
  \E S \in SUBSET {l \in Logins : holder[l] \in {"server", "client"}} :
    holder' = [l \in Logins |-> IF l \in S THEN "over" ELSE holder[l]]

Next == (\E l \in Logins : Begin(l) \/ HandOut(l) \/ HandIn(l)) \/ End

Spec == Init /\ [][Next]_holder

=============================================================================
