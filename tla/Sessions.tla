------------------------------ MODULE Sessions ------------------------------
(***************************************************************************)
(* Logins, refresh tokens and everything that ends them, for one user: the *)
(* handlers of handlers_auth.go and handlers_users.go, each between two of *)
(* its statements to PostgreSQL, with any other beside it.                 *)
(*                                                                         *)
(* A login is one check of credentials.  Which login a token comes from,   *)
(* and with which password it was made, are remembered for the properties  *)
(* (no column holds them), as are the logins a revocation cannot reach.    *)
(* Whether a password or a code is right is the environment's choice.      *)
(***************************************************************************)
EXTENDS Naturals, FiniteSets

CONSTANTS
  Requests,     \* request goroutines
  Tokens,       \* refresh tokens
  Logins,       \* successful checks of credentials
  NoLogin,      \* none of them
  MaxPasswords, \* bound on the passwords the user has had
  MaxSecrets,   \* bound on the TOTP secrets generated
  MaxTickets    \* bound on the TOTP tickets good at once

ASSUME NoLoginAssumption == NoLogin \notin Logins
ASSUME BoundsAssumption == /\ MaxPasswords \in Nat \ {0}
                            /\ MaxSecrets \in Nat /\ MaxTickets \in Nat

VARIABLES
  user,      \* the row of users: is it there, is_active, password, TOTP
  session,   \* the rows of sessions, by refresh_hash; gone: expired or deleted
  tickets,   \* TOTP tickets that have not expired
  req,       \* what each request is doing
  login,     \* the login each token comes from
  pwOf,      \* the password each login was made with, 0 before it happens
  slipped,   \* logins that were under way when sessions were last revoked
  lost       \* a password was changed and its revocation failed

vars == <<user, session, tickets, req, login, pwOf, slipped, lost>>
ghosts == <<login, pwOf, slipped, lost>>

Passwords == 1 .. MaxPasswords
Secrets == 0 .. MaxSecrets    \* 0: NULL

Idle == [at |-> "idle", login |-> NoLogin, active |-> TRUE, off |-> FALSE]

\* A request between the check of its credential and the new token's row.
Issuing == {"reread", "create"}

\* Besides the types: a row of sessions has its user, as its foreign key wants.
TypeOK ==
  /\ user \in [exists : BOOLEAN, active : BOOLEAN, pw : Passwords,
               secret : Secrets, totp : BOOLEAN]
  /\ session \in [Tokens -> {"none", "live", "revoked", "gone"}]
  /\ tickets \in SUBSET [pw : Passwords, stale : BOOLEAN]
  /\ req \in [Requests ->
       [login : Logins \cup {NoLogin}, active : BOOLEAN, off : BOOLEAN,
        at : {"idle", "reread", "create", "logout", "setpw", "revoke",
              "setup", "confirm", "disable", "writeuser"}]]
  /\ login \in [Tokens -> Logins \cup {NoLogin}]
  /\ pwOf \in [Logins -> {0} \cup Passwords]
  /\ slipped \in SUBSET Logins /\ lost \in BOOLEAN
  /\ user.exists \/ \A t \in Tokens : session[t] \in {"none", "gone"}
  /\ \A t \in Tokens : login[t] = NoLogin <=> session[t] = "none"
  /\ \A r \in Requests : req[r].at \in Issuing => req[r].login # NoLogin

Init ==
  /\ user = [exists |-> TRUE, active |-> TRUE, pw |-> 1, secret |-> 0, totp |-> FALSE]
  /\ session = [t \in Tokens |-> "none"]
  /\ tickets = {}
  /\ req = [r \in Requests |-> Idle]
  /\ login = [t \in Tokens |-> NoLogin]
  /\ pwOf = [l \in Logins |-> 0]
  /\ slipped = {} /\ lost = FALSE

Busy(r, at) == req[r].at = at
Become(r, call) == req' = [req EXCEPT ![r] = [Idle EXCEPT !.at = call]]
GoTo(r, at) == req' = [req EXCEPT ![r].at = at]
End(r) == req' = [req EXCEPT ![r] = Idle]

\* The row is there and active, as login, refresh and requireAuth want it.
Usable == user.exists /\ user.active

-----------------------------------------------------------------------------
(* Tokens are issued: handleLogin, handleTOTPVerify, handleRefresh.        *)

Verified(r, l, pw) ==
  /\ req[r] = Idle /\ Usable /\ pwOf[l] = 0
  /\ pwOf' = [pwOf EXCEPT ![l] = pw]
  /\ req' = [req EXCEPT ![r] = [Idle EXCEPT !.at = "create", !.login = l]]

\* Name and password are right, and no second factor is asked for.
Login(r, l) ==
  /\ ~user.totp
  /\ Verified(r, l, user.pw)
  /\ UNCHANGED <<user, session, tickets, login, slipped, lost>>

\* Name and password are right; the answer is a ticket.
IssueTicket ==
  /\ Usable /\ user.totp /\ Cardinality(tickets) < MaxTickets
  /\ tickets' = tickets \cup {[pw |-> user.pw, stale |-> FALSE]}
  /\ UNCHANGED <<user, session, req, ghosts>>

\* A ticket and a code: a ticket is good until it expires, any number of
\* times, and no revocation reaches it.
VerifyTicket(r, l, k) ==
  /\ user.totp /\ user.secret # 0
  /\ Verified(r, l, k.pw)
  /\ slipped' = IF k.stale THEN slipped \cup {l} ELSE slipped
  /\ UNCHANGED <<user, session, tickets, login, lost>>

\* Mutant: the token stays good.
Mutant_RefreshKeeps(r, t) ==
  /\ req[r] = Idle /\ session[t] = "live"
  /\ req' = [req EXCEPT ![r] = [Idle EXCEPT !.at = "reread", !.login = login[t]]]
  /\ UNCHANGED <<user, session, tickets, ghosts>>

\* Mutant: without `revoked_at IS NULL`.
Mutant_RefreshRevoked(r, t) ==
  /\ req[r] = Idle /\ session[t] \in {"live", "revoked"}
  /\ session' = [session EXCEPT ![t] = "revoked"]
  /\ req' = [req EXCEPT ![r] = [Idle EXCEPT !.at = "reread", !.login = login[t]]]
  /\ UNCHANGED <<user, tickets, ghosts>>

\* ConsumeSession: one UPDATE that finds the token live and revokes it.
Refresh(r, t) ==
  /\ req[r] = Idle /\ session[t] = "live"
  /\ session' = [session EXCEPT ![t] = "revoked"]
  /\ req' = [req EXCEPT ![r] = [Idle EXCEPT !.at = "reread", !.login = login[t]]]
  /\ UNCHANGED <<user, tickets, ghosts>>

\* Then the user is read again.
Reread(r) ==
  /\ Busy(r, "reread")
  /\ IF Usable THEN GoTo(r, "create") ELSE End(r)
  /\ UNCHANGED <<user, session, tickets, ghosts>>

\* Mutant: without the foreign key.
Mutant_CreateSession(r, t) ==
  /\ Busy(r, "create") /\ session[t] = "none"
  /\ session' = [session EXCEPT ![t] = "live"]
  /\ login' = [login EXCEPT ![t] = req[r].login]
  /\ End(r)
  /\ UNCHANGED <<user, tickets, pwOf, slipped, lost>>

\* issueTokens: the row of a new token.  Its foreign key wants the user.
CreateSession(r, t) ==
  /\ Busy(r, "create") /\ user.exists /\ session[t] = "none"
  /\ session' = [session EXCEPT ![t] = "live"]
  /\ login' = [login EXCEPT ![t] = req[r].login]
  /\ End(r)
  /\ UNCHANGED <<user, tickets, pwOf, slipped, lost>>

-----------------------------------------------------------------------------
(* Sessions are revoked: handleLogout, handleChangeOwnPassword,            *)
(* handleResetPassword, handleUpdateUser.                                  *)

\* requireAuth lets a request of the user in: logout, a change of password or
\* a step of the second factor.  The access token it shows may be older than
\* any revocation.  What the handler compares first (the current password, a
\* code for the secret the row has) it reads along with that.
Authenticated(r) ==
  /\ req[r] = Idle /\ Usable
  /\ \/ \E at \in {"logout", "setpw", "setup", "disable"} : Become(r, at)
     \/ user.secret # 0 /\ Become(r, "confirm")
  /\ UNCHANGED <<user, session, tickets, ghosts>>

\* An administrator or the user's reseller resets the password.
ResetPassword(r) ==
  /\ req[r] = Idle /\ user.exists
  /\ Become(r, "setpw")
  /\ UNCHANGED <<user, session, tickets, ghosts>>

\* Mutant: the other sessions are left alone.
Mutant_UpdatePassword(r) ==
  /\ Busy(r, "setpw") /\ user.exists /\ user.pw < MaxPasswords
  /\ user' = [user EXCEPT !.pw = @ + 1]
  /\ End(r)
  /\ UNCHANGED <<session, tickets, ghosts>>

\* The UPDATE; when its answer is lost the handler gives up.
UpdatePassword(r) ==
  /\ Busy(r, "setpw") /\ user.exists /\ user.pw < MaxPasswords
  /\ user' = [user EXCEPT !.pw = @ + 1]
  /\ \/ GoTo(r, "revoke") /\ lost' = lost
     \/ End(r) /\ lost' = TRUE
  /\ UNCHANGED <<session, tickets, login, pwOf, slipped>>

\* RevokeUserSessions: one UPDATE of all the live rows.
Revoke(r) ==
  /\ req[r].at \in {"logout", "revoke"}
  /\ session' = [t \in Tokens |-> IF session[t] = "live" THEN "revoked" ELSE session[t]]
  /\ slipped' = {req[q].login : q \in {q \in Requests : req[q].at \in Issuing}}
  /\ tickets' = {[k EXCEPT !.stale = TRUE] : k \in tickets}
  /\ lost' = FALSE
  /\ End(r)
  /\ UNCHANGED <<user, login, pwOf>>

\* handleUpdateUser reads the row; what the request does not mention is
\* written back as it was read.
ReadUser(r) ==
  /\ req[r] = Idle /\ user.exists
  /\ \E active \in {user.active, TRUE, FALSE}, off \in BOOLEAN :
       /\ off => ~active
       /\ active \/ off \/ ~user.active
       /\ req' = [req EXCEPT ![r] =
                    [Idle EXCEPT !.at = "writeuser", !.active = active, !.off = off]]
  /\ UNCHANGED <<user, session, tickets, ghosts>>

\* Sessions are revoked only if the request itself asked to deactivate.
WriteUser(r) ==
  /\ Busy(r, "writeuser")
  /\ user' = IF user.exists THEN [user EXCEPT !.active = req[r].active] ELSE user
  /\ IF user.exists /\ req[r].off THEN GoTo(r, "revoke") ELSE End(r)
  /\ UNCHANGED <<session, tickets, ghosts>>

\* handleDeleteUser: the sessions go with the row.
DeleteUser ==
  /\ user.exists
  /\ user' = [user EXCEPT !.exists = FALSE, !.active = FALSE, !.secret = 0, !.totp = FALSE]
  /\ session' = [t \in Tokens |-> IF session[t] = "none" THEN "none" ELSE "gone"]
  /\ UNCHANGED <<tickets, req, ghosts>>

-----------------------------------------------------------------------------
(* The second factor: handleTOTPSetup, handleTOTPConfirm, handleTOTPDisable. *)

SetTOTP(r, secret, on) ==
  /\ user' = IF user.exists THEN [user EXCEPT !.secret = secret, !.totp = on] ELSE user
  /\ End(r)
  /\ UNCHANGED <<session, tickets, ghosts>>

\* A new secret, pending.
SetupTOTP(r) ==
  /\ Busy(r, "setup") /\ user.secret < MaxSecrets
  /\ SetTOTP(r, user.secret + 1, FALSE)

\* ConfirmTOTP turns on whatever secret the row has by now.
ConfirmTOTP(r) == Busy(r, "confirm") /\ SetTOTP(r, user.secret, TRUE)

DisableTOTP(r) == Busy(r, "disable") /\ SetTOTP(r, 0, FALSE)

-----------------------------------------------------------------------------
(* Time and failures.                                                      *)

\* An expired row counts as gone: no statement finds it but the purge.
Expire(t) ==
  /\ session[t] = "live"
  /\ session' = [session EXCEPT ![t] = "gone"]
  /\ UNCHANGED <<user, tickets, req, ghosts>>

\* PurgeExpiredSessions, from the housekeeping loop.
Purge(t) ==
  /\ session[t] = "revoked"
  /\ session' = [session EXCEPT ![t] = "gone"]
  /\ UNCHANGED <<user, tickets, req, ghosts>>

ExpireTicket(k) ==
  /\ tickets' = tickets \ {k}
  /\ UNCHANGED <<user, session, req, ghosts>>

\* A statement fails, the request's context is done, or the panel dies.  The
\* error of the revocation that follows a change of password is ignored.
Abandon(r) ==
  /\ req[r] # Idle
  /\ lost' = (lost \/ Busy(r, "revoke"))
  /\ End(r)
  /\ UNCHANGED <<user, session, tickets, login, pwOf, slipped>>

Issue(r) ==
  \/ \E l \in Logins : Login(r, l) \/ \E k \in tickets : VerifyTicket(r, l, k)
  \/ \E t \in Tokens : Refresh(r, t) \/ CreateSession(r, t)
  \/ Reread(r)

Manage(r) ==
  \/ Authenticated(r) \/ ResetPassword(r) \/ UpdatePassword(r)
  \/ Revoke(r) \/ ReadUser(r) \/ WriteUser(r)
  \/ SetupTOTP(r) \/ ConfirmTOTP(r) \/ DisableTOTP(r)

Next ==
  \/ \E r \in Requests : Issue(r) \/ Manage(r) \/ Abandon(r)
  \/ IssueTicket \/ DeleteUser
  \/ \E t \in Tokens : Expire(t) \/ Purge(t)
  \/ \E k \in tickets : ExpireTicket(k)

Spec == Init /\ [][Next]_vars

-----------------------------------------------------------------------------
(* Properties.                                                             *)

Held(l) == {t \in Tokens : session[t] = "live" /\ login[t] = l}
Serving(l) == {r \in Requests : req[r].at \in Issuing /\ req[r].login = l}

\* Rotation: however many requests present a token, and in whichever order
\* their statements run, a login never has two live tokens, nor a live token
\* and a request about to make another.
OneHolder ==
  \A l \in Logins :
    /\ \A t, u \in Held(l) : t = u
    /\ \A r, q \in Serving(l) : r = q
    /\ Held(l) = {} \/ Serving(l) = {}

\* "Cambiar la contraseña invalida el resto de sesiones": once no revocation
\* is pending or has failed, a session made with an older password is one
\* whose own login or renewal was under way when the others were revoked.
OldPasswordSessions ==
  \A l \in Logins :
    pwOf[l] \notin {0, user.pw} /\ (Held(l) # {} \/ Serving(l) # {}) =>
      l \in slipped \/ lost \/ \E r \in Requests : Busy(r, "revoke")

\* The rows and requests pass each login's baton and never find one again
\* that was dropped: a session that is over, for whatever reason, stays so.
HolderOf(l) ==
  IF pwOf[l] = 0 THEN "unused"
  ELSE IF Serving(l) # {} THEN "server"
  ELSE IF Held(l) # {} THEN "client"
  ELSE "over"

Baton == INSTANCE SessionBaton WITH holder <- [l \in Logins |-> HolderOf(l)]
PassesTheBaton == Baton!Spec

-----------------------------------------------------------------------------
(* What makes the properties inductive.                                    *)

\* Credentials that have not been checked yet have brought nothing about.
NotBegun == \A l \in Logins : pwOf[l] = 0 => Held(l) = {} /\ Serving(l) = {}

\* A ticket of an older password was there when sessions were last revoked.
TicketsKnown ==
  \A k \in tickets :
    k.pw # user.pw => k.stale \/ lost \/ \E r \in Requests : Busy(r, "revoke")

IInv == TypeOK /\ OneHolder /\ NotBegun /\ OldPasswordSessions /\ TicketsKnown

=============================================================================
