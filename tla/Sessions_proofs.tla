--------------------------- MODULE Sessions_proofs ---------------------------
(***************************************************************************)
(* Proofs about Sessions for every set of requests, tokens and logins.     *)
(***************************************************************************)
EXTENDS Sessions, TLAPS

-----------------------------------------------------------------------------
(* Type correctness: what requests do, and the rest of the state.          *)

Points == {"idle", "reread", "create", "logout", "setpw", "revoke",
           "setup", "confirm", "disable", "writeuser"}
Calls == [login : Logins \cup {NoLogin}, active : BOOLEAN, off : BOOLEAN, at : Points]

Sound(call) == call \in Calls /\ (call.at \in Issuing => call.login # NoLogin)
ReqOK == req \in [Requests -> Calls] /\ \A r \in Requests : Sound(req[r])

User == [exists : BOOLEAN, active : BOOLEAN, pw : Passwords,
         secret : Secrets, totp : BOOLEAN]
Ticket == [pw : Passwords, stale : BOOLEAN]

RowsOK ==
  /\ user \in User
  /\ session \in [Tokens -> {"none", "live", "revoked", "gone"}]
  /\ tickets \in SUBSET Ticket
  /\ login \in [Tokens -> Logins \cup {NoLogin}]
  /\ pwOf \in [Logins -> {0} \cup Passwords]
  /\ slipped \in SUBSET Logins /\ lost \in BOOLEAN
  /\ user.exists \/ \A t \in Tokens : session[t] \in {"none", "gone"}
  /\ \A t \in Tokens : login[t] = NoLogin <=> session[t] = "none"

LEMMA TypeParts == TypeOK <=> ReqOK /\ RowsOK
  BY DEF TypeOK, ReqOK, RowsOK, Sound, Calls, Points, User, Ticket

LEMMA TypePartsNext == TypeOK' <=> ReqOK' /\ RowsOK'
  BY DEF TypeOK, ReqOK, RowsOK, Sound, Calls, Points, User, Ticket

LEMMA IdleSound == Sound(Idle)
  BY DEF Sound, Idle, Calls, Points, Issuing

\* However a request goes on, it goes on soundly.
LEMMA ReqEnd ==
  ASSUME ReqOK, NEW r \in Requests, End(r)
  PROVE  ReqOK'
  BY IdleSound DEF ReqOK, End, Sound

LEMMA ReqBecome ==
  ASSUME ReqOK, NEW r \in Requests, NEW at \in Points \ Issuing, Become(r, at)
  PROVE  ReqOK'
<1>1. Sound([Idle EXCEPT !.at = at])
  BY DEF Sound, Idle, Calls
<1> QED
  BY <1>1 DEF ReqOK, Become, Sound

LEMMA ReqGoTo ==
  ASSUME ReqOK, NEW r \in Requests, NEW at \in Points, GoTo(r, at),
         at \in Issuing => req[r].at \in Issuing
  PROVE  ReqOK'
<1>1. Sound([req[r] EXCEPT !.at = at])
  BY DEF ReqOK, Sound, Calls
<1> QED
  BY <1>1 DEF ReqOK, GoTo, Sound

LEMMA ReqServe ==
  ASSUME ReqOK, NEW r \in Requests, NEW l \in Logins, NEW at \in Issuing,
         req' = [req EXCEPT ![r] = [Idle EXCEPT !.at = at, !.login = l]]
  PROVE  ReqOK'
<1>1. Sound([Idle EXCEPT !.at = at, !.login = l])
  BY NoLoginAssumption DEF Sound, Idle, Calls, Points, Issuing
<1> QED
  BY <1>1 DEF ReqOK, Sound

LEMMA TypeInit == Init => TypeOK
<1> SUFFICES ASSUME Init
             PROVE  ReqOK /\ RowsOK
  BY TypeParts
<1>1. ReqOK
  BY IdleSound DEF Init, ReqOK, Sound
<1>2. user \in User
  BY BoundsAssumption DEF Init, User, Passwords, Secrets
<1>3. RowsOK
  BY <1>2 DEF Init, RowsOK
<1> QED
  BY <1>1, <1>3

LEMMA TypeIssue ==
  ASSUME TypeOK, NEW r \in Requests, Issue(r)
  PROVE  TypeOK'
<1> ReqOK /\ RowsOK
  BY TypeParts
<1> SUFFICES ReqOK' /\ RowsOK'
  BY TypePartsNext
<1>1. ASSUME NEW l \in Logins, Login(r, l)
      PROVE  ReqOK' /\ RowsOK'
  <2>1. ReqOK'
    BY <1>1, ReqServe DEF Login, Verified, Issuing
  <2>2. RowsOK'
    BY <1>1 DEF Login, Verified, RowsOK, User
  <2> QED
    BY <2>1, <2>2
<1>2. ASSUME NEW l \in Logins, NEW k \in tickets, VerifyTicket(r, l, k)
      PROVE  ReqOK' /\ RowsOK'
  <2>1. ReqOK'
    BY <1>2, ReqServe DEF VerifyTicket, Verified, Issuing
  <2>2. RowsOK'
    BY <1>2 DEF VerifyTicket, Verified, RowsOK, Ticket
  <2> QED
    BY <2>1, <2>2
<1>3. ASSUME NEW t \in Tokens, Refresh(r, t)
      PROVE  ReqOK' /\ RowsOK'
  <2>1. login[t] \in Logins
    BY <1>3 DEF Refresh, RowsOK
  <2>2. ReqOK'
    BY <1>3, <2>1, ReqServe DEF Refresh, Issuing
  <2>3. RowsOK'
    BY <1>3 DEF Refresh, RowsOK, ghosts
  <2> QED
    BY <2>2, <2>3
<1>4. ASSUME NEW t \in Tokens, CreateSession(r, t)
      PROVE  ReqOK' /\ RowsOK'
  <2>1. req[r].login \in Logins
    BY <1>4 DEF CreateSession, Busy, ReqOK, Sound, Calls, Issuing
  <2>2. ReqOK'
    BY <1>4, ReqEnd DEF CreateSession
  <2>3. RowsOK'
    BY <1>4, <2>1, NoLoginAssumption DEF CreateSession, RowsOK
  <2> QED
    BY <2>2, <2>3
<1>5. CASE Reread(r)
  <2>1. ReqOK'
    BY <1>5, ReqGoTo, ReqEnd DEF Reread, Busy, Points, Issuing
  <2>2. RowsOK'
    BY <1>5 DEF Reread, RowsOK, ghosts
  <2> QED
    BY <2>1, <2>2
<1> QED
  BY <1>1, <1>2, <1>3, <1>4, <1>5 DEF Issue

LEMMA TypeManage ==
  ASSUME TypeOK, NEW r \in Requests, Manage(r)
  PROVE  TypeOK'
<1> ReqOK /\ RowsOK
  BY TypeParts
<1> SUFFICES ReqOK' /\ RowsOK'
  BY TypePartsNext
<1>1. ReqOK'
  <2>1. CASE Authenticated(r) \/ ResetPassword(r)
    BY <2>1, ReqBecome DEF Authenticated, ResetPassword, Points, Issuing
  <2>2. CASE UpdatePassword(r) \/ WriteUser(r)
    BY <2>2, ReqGoTo, ReqEnd DEF UpdatePassword, WriteUser, Points, Issuing
  <2>3. CASE Revoke(r) \/ SetupTOTP(r) \/ ConfirmTOTP(r) \/ DisableTOTP(r)
    BY <2>3, ReqEnd DEF Revoke, SetupTOTP, ConfirmTOTP, DisableTOTP, SetTOTP
  <2>4. CASE ReadUser(r)
    <3>1. PICK active \in BOOLEAN, off \in BOOLEAN :
            req' = [req EXCEPT ![r] =
                      [Idle EXCEPT !.at = "writeuser", !.active = active, !.off = off]]
      BY <2>4 DEF ReadUser, RowsOK, User
    <3>2. Sound([Idle EXCEPT !.at = "writeuser", !.active = active, !.off = off])
      BY DEF Sound, Idle, Calls, Points, Issuing
    <3> QED
      BY <3>1, <3>2 DEF ReqOK, Sound
  <2> QED
    BY <2>1, <2>2, <2>3, <2>4 DEF Manage
<1>2. user' \in User /\ user'.exists = user.exists
  <2> USE BoundsAssumption DEF ghosts
  <2>u. user \in User
    BY DEF RowsOK
  <2>1. CASE Authenticated(r) \/ ResetPassword(r) \/ ReadUser(r) \/ Revoke(r)
    BY <2>1, <2>u DEF Authenticated, ResetPassword, ReadUser, Revoke
  <2>2. CASE UpdatePassword(r)
    <3>1. user.pw + 1 \in Passwords
      BY <2>2, <2>u DEF UpdatePassword, User, Passwords
    <3> QED
      BY <2>2, <3>1, <2>u DEF UpdatePassword, User
  <2>3. CASE WriteUser(r)
    <3>1. req[r].active \in BOOLEAN
      BY DEF ReqOK, Calls
    <3> QED
      BY <2>3, <3>1, <2>u DEF WriteUser, User
  <2>4. ASSUME NEW secret \in Secrets, NEW on \in BOOLEAN, SetTOTP(r, secret, on)
        PROVE  user' \in User /\ user'.exists = user.exists
    BY <2>4, <2>u DEF SetTOTP, User
  <2>5. CASE SetupTOTP(r)
    <3>1. user.secret + 1 \in Secrets
      BY <2>5, <2>u DEF SetupTOTP, User, Secrets
    <3> QED
      BY <2>4, <2>5, <3>1 DEF SetupTOTP
  <2>6. CASE ConfirmTOTP(r) \/ DisableTOTP(r)
    <3>1. user.secret \in Secrets /\ 0 \in Secrets
      BY <2>u DEF User, Secrets
    <3> QED
      BY <2>4, <2>6, <3>1 DEF ConfirmTOTP, DisableTOTP
  <2> QED
    BY <2>1, <2>2, <2>3, <2>5, <2>6 DEF Manage
<1>3. RowsOK'
  <2>1. CASE Revoke(r)
    <3>1. \A q \in Requests : req[q].at \in Issuing => req[q].login \in Logins
      BY DEF ReqOK, Sound, Calls
    <3>2. slipped' \in SUBSET Logins
      BY <2>1, <3>1 DEF Revoke
    <3>3. tickets' \in SUBSET Ticket
      <4>1. \A k \in Ticket : [k EXCEPT !.stale = TRUE] \in Ticket
        BY DEF Ticket
      <4> QED
        BY <2>1, <4>1 DEF Revoke, RowsOK
    <3> QED
      BY <1>2, <2>1, <3>2, <3>3 DEF Revoke, RowsOK
  <2>2. CASE ~Revoke(r)
    <3>1. UNCHANGED <<session, tickets, login, pwOf, slipped>> /\ lost' \in BOOLEAN
      BY <2>2 DEF Manage, Authenticated, ResetPassword, UpdatePassword, ReadUser,
           WriteUser, SetupTOTP, ConfirmTOTP, DisableTOTP, SetTOTP, RowsOK, ghosts
    <3> QED
      BY <1>2, <3>1 DEF RowsOK
  <2> QED
    BY <2>1, <2>2
<1> QED
  BY <1>1, <1>3

LEMMA TypeNext == TypeOK /\ [Next]_vars => TypeOK'
<1> SUFFICES ASSUME TypeOK, [Next]_vars
             PROVE  TypeOK'
  OBVIOUS
<1>1. ASSUME NEW r \in Requests, Issue(r) \/ Manage(r)
      PROVE  TypeOK'
  BY <1>1, TypeIssue, TypeManage
<1> ReqOK /\ RowsOK
  BY TypeParts
<1>2. ASSUME NEW r \in Requests, Abandon(r)
      PROVE  ReqOK' /\ RowsOK'
  BY <1>2, ReqEnd DEF Abandon, RowsOK
<1>3. ASSUME IssueTicket
      PROVE  ReqOK' /\ RowsOK'
  <2>1. [pw |-> user.pw, stale |-> FALSE] \in Ticket
    BY DEF RowsOK, User, Ticket
  <2> QED
    BY <1>3, <2>1 DEF IssueTicket, ReqOK, RowsOK, ghosts
<1>4. ASSUME DeleteUser
      PROVE  ReqOK' /\ RowsOK'
  <2>1. 0 \in Secrets /\ user \in User
    BY BoundsAssumption DEF RowsOK, Secrets
  <2>2. user' \in User
    BY <1>4, <2>1 DEF DeleteUser, User
  <2> QED
    BY <1>4, <2>2 DEF DeleteUser, ReqOK, RowsOK, ghosts
<1>5. ASSUME NEW t \in Tokens, Expire(t) \/ Purge(t)
      PROVE  ReqOK' /\ RowsOK'
  BY <1>5 DEF Expire, Purge, ReqOK, RowsOK, ghosts
<1>6. ASSUME NEW k \in tickets, ExpireTicket(k)
      PROVE  ReqOK' /\ RowsOK'
  BY <1>6 DEF ExpireTicket, ReqOK, RowsOK, ghosts
<1>7. ASSUME UNCHANGED vars
      PROVE  ReqOK' /\ RowsOK'
  BY <1>7 DEF vars, ReqOK, RowsOK
<1> QED
  BY <1>1, <1>2, <1>3, <1>4, <1>5, <1>6, <1>7, TypePartsNext DEF Next

\* Every reachable state is well typed.
THEOREM TypeCorrect == Spec => []TypeOK
  BY TypeInit, TypeNext, PTL DEF Spec

-----------------------------------------------------------------------------
(* What the steps do to the tokens and requests of each login.             *)

Pending == lost \/ \E r \in Requests : Busy(r, "revoke")

\* Nothing begins, and no token or request comes to a login.
Shrinks ==
  /\ pwOf' = pwOf
  /\ \A l \in Logins : Held(l)' \subseteq Held(l) /\ Serving(l)' \subseteq Serving(l)

\* Nor does a password change, or what is known of it get lost.
Keeps ==
  /\ Shrinks
  /\ user'.pw = user.pw /\ slipped' = slipped
  /\ Pending => Pending'
  /\ \A k \in tickets' : k \in tickets \/ k.pw = user.pw

\* A request that ends, or goes on as what it was, serves no other login.
LEMMA NoNewService ==
  ASSUME ReqOK, NEW r \in Requests, NEW call,
         req' = [req EXCEPT ![r] = call],
         call.at \in Issuing =>
           req[r].at \in Issuing /\ call.login = req[r].login
  PROVE  \A l \in Logins : Serving(l)' \subseteq Serving(l)
  BY DEF ReqOK, Serving

LEMMA NoNewHolder ==
  ASSUME login' = login,
         \A t \in Tokens : session'[t] = "live" => session[t] = "live"
  PROVE  \A l \in Logins : Held(l)' \subseteq Held(l)
  BY DEF Held

\* The credentials of login l are right, and request r serves it.
LEMMA VerifiedEffect ==
  ASSUME TypeOK, NEW r \in Requests, NEW l \in Logins, NEW pw \in Passwords,
         Verified(r, l, pw), UNCHANGED <<session, login>>
  PROVE  /\ pwOf[l] = 0 /\ pwOf'[l] = pw /\ pw # 0
         /\ \A m \in Logins : m # l => pwOf'[m] = pwOf[m]
         /\ \A m \in Logins :
              /\ Held(m)' = Held(m)
              /\ Serving(m)' = IF m = l THEN Serving(m) \cup {r} ELSE Serving(m)
         /\ Pending /\ lost' = lost => Pending'
<1> ReqOK /\ RowsOK
  BY TypeParts
<1>1. /\ pwOf[l] = 0 /\ pwOf'[l] = pw /\ pw # 0
      /\ \A m \in Logins : m # l => pwOf'[m] = pwOf[m]
  BY DEF Verified, RowsOK, Passwords
<1>2. \A m \in Logins : Held(m)' = Held(m)
  BY DEF Held
<1>3. \A q \in Requests :
        req'[q] = IF q = r THEN [Idle EXCEPT !.at = "create", !.login = l] ELSE req[q]
  BY DEF Verified, ReqOK
<1>4. req[r].at = "idle"
  BY DEF Verified, Idle
<1>5. \A m \in Logins :
        Serving(m)' = IF m = l THEN Serving(m) \cup {r} ELSE Serving(m)
  BY <1>3, <1>4 DEF Serving, Idle, Issuing
<1>6. Pending /\ lost' = lost => Pending'
  BY <1>3, <1>4 DEF Pending, Busy
<1> QED
  BY <1>1, <1>2, <1>5, <1>6

\* The token t goes, and request r serves its login.
LEMMA RefreshEffect ==
  ASSUME TypeOK, NEW r \in Requests, NEW t \in Tokens, Refresh(r, t)
  PROVE  /\ login[t] \in Logins /\ t \in Held(login[t])
         /\ UNCHANGED <<pwOf, user, tickets, slipped>>
         /\ \A m \in Logins :
              /\ Held(m)' = Held(m) \ {t}
              /\ Serving(m)' = IF m = login[t] THEN Serving(m) \cup {r} ELSE Serving(m)
         /\ Pending => Pending'
<1> ReqOK /\ RowsOK
  BY TypeParts
<1>1. login[t] \in Logins /\ t \in Held(login[t])
  BY DEF Refresh, RowsOK, Held
<1>2. \A m \in Logins : Held(m)' = Held(m) \ {t}
  BY DEF Refresh, RowsOK, Held, ghosts
<1>3. \A q \in Requests :
        req'[q] = IF q = r THEN [Idle EXCEPT !.at = "reread", !.login = login[t]] ELSE req[q]
  BY DEF Refresh, ReqOK
<1>4. req[r].at = "idle"
  BY DEF Refresh, Idle
<1>5. \A m \in Logins :
        Serving(m)' = IF m = login[t] THEN Serving(m) \cup {r} ELSE Serving(m)
  BY <1>3, <1>4 DEF Serving, Idle, Issuing
<1>6. Pending => Pending'
  BY <1>3, <1>4 DEF Pending, Busy, Refresh, ghosts
<1> QED
  BY <1>1, <1>2, <1>5, <1>6 DEF Refresh, ghosts

\* Request r is over, and its login has token t.
LEMMA CreateEffect ==
  ASSUME TypeOK, NEW r \in Requests, NEW t \in Tokens, CreateSession(r, t)
  PROVE  /\ req[r].login \in Logins /\ r \in Serving(req[r].login)
         /\ UNCHANGED <<pwOf, user, tickets, slipped>>
         /\ \A m \in Logins :
              /\ Held(m)' = IF m = req[r].login THEN Held(m) \cup {t} ELSE Held(m)
              /\ Serving(m)' = Serving(m) \ {r}
         /\ Pending => Pending'
<1> ReqOK /\ RowsOK
  BY TypeParts
<1>1. req[r].at = "create" /\ req[r].login \in Logins
  BY DEF CreateSession, Busy, ReqOK, Sound, Calls, Issuing
<1>2. \A u \in Tokens :
        /\ session'[u] = IF u = t THEN "live" ELSE session[u]
        /\ login'[u] = IF u = t THEN req[r].login ELSE login[u]
  BY DEF CreateSession, RowsOK
<1>3. session[t] = "none"
  BY DEF CreateSession
<1>4. \A m \in Logins :
        Held(m)' = IF m = req[r].login THEN Held(m) \cup {t} ELSE Held(m)
  BY <1>2, <1>3 DEF Held
<1>5. \A q \in Requests : req'[q] = IF q = r THEN Idle ELSE req[q]
  BY DEF CreateSession, End, ReqOK
<1>6. \A m \in Logins : Serving(m)' = Serving(m) \ {r}
  BY <1>5 DEF Serving, Idle, Issuing
<1>7. Pending => Pending'
  BY <1>1, <1>5 DEF Pending, Busy, CreateSession
<1> QED
  BY <1>1, <1>4, <1>6, <1>7 DEF CreateSession, Serving, Issuing

LEMMA RevokeShrinks ==
  ASSUME TypeOK, NEW r \in Requests, Revoke(r)
  PROVE  /\ Shrinks
         /\ \A m \in Logins : Held(m)' = {}
         /\ \A m \in Logins : Serving(m)' # {} => m \in slipped'
         /\ \A k \in tickets' : k.stale
<1> ReqOK /\ RowsOK
  BY TypeParts
<1>1. req' = [req EXCEPT ![r] = Idle] /\ Idle.at \notin Issuing
  BY DEF Revoke, End, Idle, Issuing
<1>2. \A m \in Logins : Serving(m)' \subseteq Serving(m)
  BY <1>1, NoNewService
<1>3. \A m \in Logins : Held(m)' = {}
  BY DEF Revoke, Held, RowsOK
<1>4. \A m \in Logins : Serving(m) # {} => m \in slipped'
  BY DEF Revoke, Serving
<1>5. \A k \in tickets' : k.stale
  <2>1. \A k \in Ticket : [k EXCEPT !.stale = TRUE].stale
    BY DEF Ticket
  <2> QED
    BY <2>1 DEF Revoke, RowsOK
<1> QED
  BY <1>2, <1>3, <1>4, <1>5 DEF Shrinks, Revoke

LEMMA UpdateShrinks ==
  ASSUME TypeOK, NEW r \in Requests, UpdatePassword(r)
  PROVE  Shrinks /\ Pending'
<1> ReqOK /\ RowsOK
  BY TypeParts
<1>1. \A m \in Logins : Held(m)' \subseteq Held(m)
  BY NoNewHolder DEF UpdatePassword
<1>2. CASE GoTo(r, "revoke")
  <2>1. \A m \in Logins : Serving(m)' \subseteq Serving(m)
    <3>1. [req[r] EXCEPT !.at = "revoke"].at \notin Issuing
      BY DEF ReqOK, Calls, Issuing
    <3> QED
      BY <1>2, <3>1, NoNewService DEF GoTo
  <2>2. req'[r].at = "revoke"
    BY <1>2 DEF GoTo, ReqOK, Calls
  <2> QED
    BY <1>1, <2>1, <2>2 DEF Shrinks, UpdatePassword, Pending, Busy
<1>3. CASE End(r) /\ lost' = TRUE
  <2>1. \A m \in Logins : Serving(m)' \subseteq Serving(m)
    BY <1>3, NoNewService DEF End, Idle, Issuing
  <2> QED
    BY <1>1, <1>3, <2>1 DEF Shrinks, UpdatePassword, Pending
<1> QED
  BY <1>2, <1>3 DEF UpdatePassword

\* A step of r that ends it, or takes it to a point at which no token is
\* issued, and was not the revocation.
LEMMA CallKeeps ==
  ASSUME TypeOK, NEW r \in Requests, NEW call,
         req' = [req EXCEPT ![r] = call],
         call.at \in Issuing => req[r].at \in Issuing /\ call.login = req[r].login,
         req[r].at # "revoke" \/ lost',
         UNCHANGED <<login, pwOf, slipped, session, tickets>>, lost' \in {lost, TRUE},
         user'.pw = user.pw
  PROVE  Keeps
<1> ReqOK /\ RowsOK
  BY TypeParts
<1>1. \A m \in Logins : Serving(m)' \subseteq Serving(m)
  BY NoNewService
<1>2. \A m \in Logins : Held(m)' \subseteq Held(m)
  BY NoNewHolder
<1>3. ASSUME Pending
      PROVE  Pending'
  <2>1. CASE lost
    BY <2>1 DEF Pending
  <2>2. CASE \E q \in Requests : Busy(q, "revoke")
    <3>1. PICK q \in Requests : Busy(q, "revoke")
      BY <2>2
    <3>2. CASE q = r
      BY <3>1, <3>2 DEF Busy, Pending
    <3>3. CASE q # r
      BY <3>1, <3>3 DEF Busy, Pending, ReqOK
    <3> QED
      BY <3>2, <3>3
  <2> QED
    BY <1>3, <2>1, <2>2 DEF Pending
<1> QED
  BY <1>1, <1>2, <1>3 DEF Keeps, Shrinks

\* A step outside of requests.
LEMMA RowsKeep ==
  ASSUME UNCHANGED <<req, login, pwOf, slipped, lost>>, user'.pw = user.pw,
         \A t \in Tokens : session'[t] = "live" => session[t] = "live",
         \A k \in tickets' : k \in tickets \/ k.pw = user.pw
  PROVE  Keeps
<1>1. \A m \in Logins : Held(m)' \subseteq Held(m)
  BY NoNewHolder
<1> QED
  BY <1>1 DEF Keeps, Shrinks, Serving, Pending, Busy

\* Every step is one of these.
LEMMA StepKinds ==
  ASSUME TypeOK, [Next]_vars
  PROVE  \/ \E r \in Requests, l \in Logins :
              Login(r, l) \/ \E k \in tickets : VerifyTicket(r, l, k)
         \/ \E r \in Requests, t \in Tokens : Refresh(r, t) \/ CreateSession(r, t)
         \/ \E r \in Requests : Revoke(r) \/ UpdatePassword(r)
         \/ Keeps
<1> ReqOK /\ RowsOK
  BY TypeParts
<1>1. ASSUME NEW r \in Requests, Reread(r)
      PROVE  Keeps
  <2>1. CASE GoTo(r, "create")
    <3>1. /\ [req[r] EXCEPT !.at = "create"].login = req[r].login
          /\ req[r].at = "reread"
      BY <1>1 DEF Reread, Busy, ReqOK, Calls
    <3> QED
      BY <1>1, <2>1, <3>1, CallKeeps DEF Reread, GoTo, Issuing, ghosts
  <2>2. CASE End(r)
    BY <1>1, <2>2, CallKeeps DEF Reread, Busy, End, Idle, Issuing, ghosts
  <2> QED
    BY <1>1, <2>1, <2>2 DEF Reread
<1>2. ASSUME NEW r \in Requests, Authenticated(r) \/ ResetPassword(r) \/ ReadUser(r)
      PROVE  Keeps
  <2>i. req[r] = Idle
    BY <1>2 DEF Authenticated, ResetPassword, ReadUser
  <2>u. UNCHANGED <<user, session, tickets, login, pwOf, slipped, lost>>
    BY <1>2 DEF Authenticated, ResetPassword, ReadUser, ghosts
  <2>1. /\ req[r].at # "revoke"
        /\ UNCHANGED <<user, session, tickets, login, pwOf, slipped, lost>>
    BY <2>i, <2>u DEF Idle
  <2>2. CASE ReadUser(r)
    <3>1. PICK active, off :
            req' = [req EXCEPT ![r] =
                      [Idle EXCEPT !.at = "writeuser", !.active = active, !.off = off]]
      BY <2>2 DEF ReadUser
    <3>2. [Idle EXCEPT !.at = "writeuser", !.active = active, !.off = off].at
            = "writeuser"
      BY DEF Idle
    <3> QED
      BY <2>1, <3>1, <3>2, CallKeeps DEF Issuing
  <2>3. CASE Authenticated(r) \/ ResetPassword(r)
    <3>1. PICK at \in Points \ Issuing : Become(r, at)
      BY <2>3 DEF Authenticated, ResetPassword, Points, Issuing
    <3>2. [Idle EXCEPT !.at = at].at = at
      BY DEF Idle
    <3> QED
      BY <2>1, <3>1, <3>2, CallKeeps DEF Become
  <2> QED
    BY <1>2, <2>2, <2>3
<1>3. ASSUME NEW r \in Requests, WriteUser(r)
      PROVE  Keeps
  <2>1. /\ req[r].at = "writeuser"
        /\ UNCHANGED <<session, tickets, login, pwOf, slipped, lost>>
    BY <1>3 DEF WriteUser, Busy, ghosts
  <2>2. user'.pw = user.pw
    BY <1>3 DEF WriteUser, RowsOK, User
  <2>3. CASE GoTo(r, "revoke")
    <3>1. [req[r] EXCEPT !.at = "revoke"].at = "revoke"
      BY DEF ReqOK, Calls
    <3> QED
      BY <2>1, <2>2, <2>3, <3>1, CallKeeps DEF GoTo, Issuing
  <2>4. CASE End(r)
    BY <2>1, <2>2, <2>4, CallKeeps DEF End, Idle, Issuing
  <2> QED
    BY <1>3, <2>3, <2>4 DEF WriteUser
<1>4. ASSUME NEW r \in Requests, SetupTOTP(r) \/ ConfirmTOTP(r) \/ DisableTOTP(r)
      PROVE  Keeps
  <2>1. /\ req[r].at # "revoke" /\ End(r)
        /\ UNCHANGED <<session, tickets, login, pwOf, slipped, lost>>
    BY <1>4 DEF SetupTOTP, ConfirmTOTP, DisableTOTP, SetTOTP, Busy, ghosts
  <2>2. user'.pw = user.pw
    BY <1>4 DEF SetupTOTP, ConfirmTOTP, DisableTOTP, SetTOTP, RowsOK, User
  <2> QED
    BY <2>1, <2>2, CallKeeps DEF End, Idle, Issuing
<1>5. ASSUME NEW r \in Requests, Abandon(r)
      PROVE  Keeps
  <2> DEFINE revoking == Busy(r, "revoke")
  <2>1. lost' = (lost \/ revoking) /\ lost \in BOOLEAN
    BY <1>5 DEF Abandon, RowsOK
  <2>2. revoking <=> req[r].at = "revoke"
    BY DEF Busy
  <2> HIDE DEF revoking
  <2>3. (~revoking \/ lost') /\ lost' \in {lost, TRUE}
    BY <2>1, Zenon
  <2> QED
    BY <1>5, <2>2, <2>3, CallKeeps DEF Abandon, End, Idle, Issuing
<1>6. ASSUME IssueTicket \/ (\E k \in tickets : ExpireTicket(k))
      PROVE  Keeps
  BY <1>6, RowsKeep DEF IssueTicket, ExpireTicket, ghosts
<1>7. ASSUME DeleteUser \/ (\E t \in Tokens : Expire(t) \/ Purge(t))
      PROVE  Keeps
  <2>1. /\ UNCHANGED <<req, login, pwOf, slipped, lost, tickets>>
        /\ user'.pw = user.pw
    BY <1>7 DEF DeleteUser, Expire, Purge, RowsOK, User, ghosts
  <2>2. \A t \in Tokens : session'[t] = "live" => session[t] = "live"
    BY <1>7 DEF DeleteUser, Expire, Purge, RowsOK
  <2> QED
    BY <2>1, <2>2, RowsKeep
<1>8. CASE UNCHANGED vars
  BY <1>8, RowsKeep DEF vars
<1> QED
  BY <1>1, <1>2, <1>3, <1>4, <1>5, <1>6, <1>7, <1>8 DEF Next, Issue, Manage

-----------------------------------------------------------------------------
(* The inductive invariant.                                                *)

LEMMA InitIInv == Init => IInv
<1> SUFFICES ASSUME Init
             PROVE  IInv
  OBVIOUS
<1>1. \A l \in Logins : Held(l) = {} /\ Serving(l) = {} /\ pwOf[l] = 0
  BY DEF Init, Held, Serving, Idle, Issuing
<1> QED
  BY <1>1, TypeInit DEF IInv, OneHolder, NotBegun, OldPasswordSessions, TicketsKnown, Init

\* Both parts that speak of holders only.
LEMMA ShrinksHolders ==
  ASSUME OneHolder, NotBegun, Shrinks
  PROVE  OneHolder' /\ NotBegun'
<1>1. \A l \in Logins : Held(l)' \subseteq Held(l) /\ Serving(l)' \subseteq Serving(l)
  BY DEF Shrinks
<1>2. OneHolder'
  BY <1>1 DEF OneHolder
<1>3. NotBegun'
  BY <1>1 DEF NotBegun, Shrinks
<1> QED
  BY <1>2, <1>3

LEMMA HoldersNext ==
  ASSUME IInv, [Next]_vars
  PROVE  OneHolder' /\ NotBegun'
<1> TypeOK /\ OneHolder /\ NotBegun
  BY DEF IInv
<1>1. ASSUME NEW r \in Requests, NEW l \in Logins, NEW pw \in Passwords,
             Verified(r, l, pw), UNCHANGED <<session, login>>
      PROVE  OneHolder' /\ NotBegun'
  <2>1. Held(l) = {} /\ Serving(l) = {}
    BY <1>1, VerifiedEffect DEF NotBegun
  <2>2. \A m \in Logins :
          /\ Held(m)' = Held(m)
          /\ Serving(m)' = IF m = l THEN {r} ELSE Serving(m)
    BY <1>1, <2>1, VerifiedEffect
  <2>3. OneHolder'
    BY <2>1, <2>2 DEF OneHolder
  <2>4. NotBegun'
    BY <1>1, <2>2, VerifiedEffect DEF NotBegun
  <2> QED
    BY <2>3, <2>4
<1>2. ASSUME NEW r \in Requests, NEW t \in Tokens, Refresh(r, t)
      PROVE  OneHolder' /\ NotBegun'
  <2>1. login[t] \in Logins /\ t \in Held(login[t]) /\ pwOf' = pwOf
    BY <1>2, RefreshEffect
  <2>2. Held(login[t]) = {t} /\ Serving(login[t]) = {}
    BY <2>1 DEF OneHolder, Held
  <2>3. \A m \in Logins :
          /\ Held(m)' = Held(m) \ {t}
          /\ Serving(m)' = IF m = login[t] THEN {r} ELSE Serving(m)
    BY <1>2, <2>2, RefreshEffect
  <2>4. OneHolder'
    BY <2>2, <2>3 DEF OneHolder
  <2>5. NotBegun'
    BY <2>1, <2>3 DEF NotBegun
  <2> QED
    BY <2>4, <2>5
<1>3. ASSUME NEW r \in Requests, NEW t \in Tokens, CreateSession(r, t)
      PROVE  OneHolder' /\ NotBegun'
  <2> DEFINE l == req[r].login
  <2>1. l \in Logins /\ r \in Serving(l) /\ pwOf' = pwOf
    BY <1>3, CreateEffect
  <2>2. Serving(l) = {r} /\ Held(l) = {}
    BY <2>1 DEF OneHolder, Serving
  <2>3. \A m \in Logins :
          /\ Held(m)' = IF m = l THEN {t} ELSE Held(m)
          /\ Serving(m)' = Serving(m) \ {r}
    BY <1>3, <2>2, CreateEffect
  <2> HIDE DEF l
  <2>4. OneHolder'
    BY <2>2, <2>3 DEF OneHolder
  <2>5. NotBegun'
    BY <2>1, <2>3 DEF NotBegun
  <2> QED
    BY <2>4, <2>5
<1>4. CASE Shrinks
  BY <1>4, ShrinksHolders
<1>5. user.pw \in Passwords /\ \A k \in tickets : k.pw \in Passwords
  BY DEF TypeOK
<1> QED
  BY <1>1, <1>2, <1>3, <1>4, <1>5, StepKinds, RevokeShrinks, UpdateShrinks
     DEF Login, VerifyTicket, Keeps

\* Both parts that speak of passwords.
LEMMA PasswordsNext ==
  ASSUME IInv, [Next]_vars
  PROVE  OldPasswordSessions' /\ TicketsKnown'
<1> TypeOK /\ NotBegun
  BY DEF IInv
<1>o. \A l \in Logins :
        pwOf[l] \notin {0, user.pw} /\ (Held(l) # {} \/ Serving(l) # {}) =>
          l \in slipped \/ Pending
  BY DEF IInv, OldPasswordSessions, Pending
<1>t. \A k \in tickets : k.pw # user.pw => k.stale \/ Pending
  BY DEF IInv, TicketsKnown, Pending
<1> SUFFICES
      /\ \A l \in Logins :
           pwOf'[l] \notin {0, user'.pw} /\ (Held(l)' # {} \/ Serving(l)' # {}) =>
             l \in slipped' \/ Pending'
      /\ \A k \in tickets' : k.pw # user'.pw => k.stale \/ Pending'
  BY DEF OldPasswordSessions, TicketsKnown, Pending
<1> DEFINE Goal == /\ \A l \in Logins :
                        pwOf'[l] \notin {0, user'.pw} /\ (Held(l)' # {} \/ Serving(l)' # {}) =>
                          l \in slipped' \/ Pending'
                   /\ \A k \in tickets' : k.pw # user'.pw => k.stale \/ Pending'
<1>p. user.pw \in Passwords /\ \A k \in tickets : k.pw \in Passwords
  BY DEF TypeOK
<1>1. ASSUME NEW r \in Requests, NEW l \in Logins, Login(r, l)
      PROVE  Goal
  <2>1. /\ Verified(r, l, user.pw)
        /\ UNCHANGED <<user, session, tickets, login, slipped, lost>>
    BY <1>1 DEF Login
  <2>2. /\ pwOf'[l] = user.pw
        /\ \A m \in Logins : m # l => pwOf'[m] = pwOf[m]
        /\ \A m \in Logins :
             m # l => Held(m)' = Held(m) /\ Serving(m)' = Serving(m)
        /\ Pending => Pending'
    BY <1>p, <2>1, VerifiedEffect
  <2> QED
    BY <1>o, <1>t, <2>1, <2>2
<1>2. ASSUME NEW r \in Requests, NEW l \in Logins, NEW k \in tickets, VerifyTicket(r, l, k)
      PROVE  Goal
  <2>1. /\ Verified(r, l, k.pw)
        /\ UNCHANGED <<user, session, tickets, login, lost>>
        /\ slipped \subseteq slipped'
        /\ k.stale => l \in slipped'
    BY <1>2 DEF VerifyTicket
  <2>2. /\ pwOf'[l] = k.pw
        /\ \A m \in Logins : m # l => pwOf'[m] = pwOf[m]
        /\ \A m \in Logins :
             m # l => Held(m)' = Held(m) /\ Serving(m)' = Serving(m)
        /\ Pending => Pending'
    BY <1>p, <2>1, VerifiedEffect
  <2> QED
    BY <1>o, <1>t, <2>1, <2>2
<1>3. ASSUME NEW r \in Requests, NEW t \in Tokens, Refresh(r, t)
      PROVE  Goal
  <2>1. /\ login[t] \in Logins /\ t \in Held(login[t])
        /\ UNCHANGED <<pwOf, user, tickets, slipped>>
        /\ \A m \in Logins :
             /\ Held(m)' \subseteq Held(m)
             /\ m # login[t] => Serving(m)' = Serving(m)
        /\ Pending => Pending'
    BY <1>3, RefreshEffect
  <2> QED
    BY <1>o, <1>t, <2>1
<1>4. ASSUME NEW r \in Requests, NEW t \in Tokens, CreateSession(r, t)
      PROVE  Goal
  <2>1. /\ req[r].login \in Logins /\ r \in Serving(req[r].login)
        /\ UNCHANGED <<pwOf, user, tickets, slipped>>
        /\ \A m \in Logins :
             /\ m # req[r].login => Held(m)' = Held(m)
             /\ Serving(m)' \subseteq Serving(m)
        /\ Pending => Pending'
    BY <1>4, CreateEffect
  <2> QED
    BY <1>o, <1>t, <2>1
<1>5. ASSUME NEW r \in Requests, Revoke(r)
      PROVE  Goal
  BY <1>5, RevokeShrinks
<1>6. ASSUME NEW r \in Requests, UpdatePassword(r)
      PROVE  Goal
  BY <1>6, UpdateShrinks
<1>7. CASE Keeps
  BY <1>o, <1>t, <1>7 DEF Keeps, Shrinks
<1> QED
  BY <1>1, <1>2, <1>3, <1>4, <1>5, <1>6, <1>7, StepKinds

LEMMA IInvNext == IInv /\ [Next]_vars => IInv'
  BY TypeNext, HoldersNext, PasswordsNext DEF IInv

\* The inductive invariant holds in every reachable state.
THEOREM Invariance == Spec => []IInv
  BY InitIInv, IInvNext, PTL DEF Spec

\* However many requests present a refresh token at once, a login never has
\* two live tokens, nor a live one and a request that makes another.
THEOREM RotationHolds == Spec => []OneHolder
<1>1. IInv => OneHolder
  BY DEF IInv
<1> QED
  BY <1>1, Invariance, PTL

\* After a change of password only those sessions of the old one are left
\* that were being made when the others were revoked, unless the revocation
\* is still to come or has failed.
THEOREM PasswordChangeRevokes == Spec => []OldPasswordSessions
<1>1. IInv => OldPasswordSessions
  BY DEF IInv
<1> QED
  BY <1>1, Invariance, PTL

-----------------------------------------------------------------------------
(* The rows and requests implement the baton.                              *)

LEMMA HolderCases ==
  ASSUME NEW l \in Logins
  PROVE  /\ pwOf[l] = 0 => HolderOf(l) = "unused"
         /\ pwOf[l] # 0 /\ Serving(l) # {} => HolderOf(l) = "server"
         /\ pwOf[l] # 0 /\ Serving(l) = {} /\ Held(l) # {} => HolderOf(l) = "client"
         /\ pwOf[l] # 0 /\ Serving(l) = {} /\ Held(l) = {} => HolderOf(l) = "over"
  BY DEF HolderOf

LEMMA HolderCasesNext ==
  ASSUME NEW l \in Logins
  PROVE  /\ pwOf'[l] = 0 => HolderOf(l)' = "unused"
         /\ pwOf'[l] # 0 /\ Serving(l)' # {} => HolderOf(l)' = "server"
         /\ pwOf'[l] # 0 /\ Serving(l)' = {} /\ Held(l)' # {} => HolderOf(l)' = "client"
         /\ pwOf'[l] # 0 /\ Serving(l)' = {} /\ Held(l)' = {} => HolderOf(l)' = "over"
  BY DEF HolderOf

\* The batons of all logins.
Holders == [l \in Logins |-> HolderOf(l)]

\* One baton is passed when its holder changes and no other's does.
LEMMA PassesOne ==
  ASSUME NEW l \in Logins, NEW from, NEW to,
         HolderOf(l) = from, HolderOf(l)' = to,
         \A m \in Logins : m # l => HolderOf(m)' = HolderOf(m)
  PROVE  Baton!Pass(l, from, to)
  BY DEF Baton!Pass

\* Batons that are lost together, or none at all.
LEMMA ShrinksEnds ==
  ASSUME TypeOK, OneHolder, NotBegun, Shrinks
  PROVE  Baton!End
<1>1. \A l \in Logins :
        \/ HolderOf(l)' = HolderOf(l)
        \/ /\ HolderOf(l) \in {"server", "client"}
           /\ HolderOf(l)' = "over"
  <2> SUFFICES ASSUME NEW l \in Logins
               PROVE  \/ HolderOf(l)' = HolderOf(l)
                      \/ /\ HolderOf(l) \in {"server", "client"}
                         /\ HolderOf(l)' = "over"
    OBVIOUS
  <2>1. /\ pwOf'[l] = pwOf[l]
        /\ Held(l)' \subseteq Held(l) /\ Serving(l)' \subseteq Serving(l)
        /\ Held(l) = {} \/ Serving(l) = {}
    BY DEF Shrinks, OneHolder
  <2>2. Held(l)' = {} \/ Serving(l)' = {}
    BY <2>1
  <2>3. CASE pwOf[l] = 0
    BY <2>1, <2>3, HolderCases, HolderCasesNext
  <2>4. CASE pwOf[l] # 0 /\ Held(l)' = {} /\ Serving(l)' = {}
    BY <2>1, <2>4, HolderCases, HolderCasesNext
  <2>5. CASE pwOf[l] # 0 /\ Serving(l)' # {}
    <3>1. Serving(l) # {}
      BY <2>1, <2>5
    <3> QED
      BY <2>1, <2>5, <3>1, HolderCases, HolderCasesNext
  <2>6. CASE pwOf[l] # 0 /\ Held(l)' # {} /\ Serving(l)' = {}
    <3>1. Held(l) # {} /\ Serving(l) = {}
      BY <2>1, <2>6
    <3> QED
      BY <2>1, <2>6, <3>1, HolderCases, HolderCasesNext
  <2> QED
    BY <2>3, <2>4, <2>5, <2>6
<1> DEFINE S == {l \in Logins : HolderOf(l)' # HolderOf(l)}
<1>2. S \in SUBSET {l \in Logins : Holders[l] \in {"server", "client"}}
  BY <1>1 DEF Holders
<1>3. Holders' = [l \in Logins |-> IF l \in S THEN "over" ELSE Holders[l]]
  BY <1>1 DEF Holders
<1> QED
  BY <1>2, <1>3 DEF Baton!End, Holders

\* A login's credentials are found right: its baton starts with the server.
LEMMA VerifiedBegins ==
  ASSUME TypeOK, NotBegun, NEW r \in Requests, NEW l \in Logins, NEW pw \in Passwords,
         Verified(r, l, pw), UNCHANGED <<session, login>>
  PROVE  Baton!Begin(l)
<1>1. /\ pwOf[l] = 0 /\ pwOf'[l] # 0 /\ Serving(l)' # {}
      /\ \A m \in Logins : m # l => /\ pwOf'[m] = pwOf[m]
                                    /\ Held(m)' = Held(m) /\ Serving(m)' = Serving(m)
  BY VerifiedEffect
<1>2. HolderOf(l) = "unused" /\ HolderOf(l)' = "server"
  BY <1>1, HolderCases, HolderCasesNext
<1>3. \A m \in Logins : m # l => HolderOf(m)' = HolderOf(m)
  BY <1>1, HolderCases, HolderCasesNext
<1> QED
  BY <1>2, <1>3, PassesOne DEF Baton!Begin, Baton!Pass

LEMMA BatonStep ==
  ASSUME IInv, [Next]_vars
  PROVE  Baton!Next
<1> TypeOK /\ OneHolder /\ NotBegun
  BY DEF IInv
<1>p. user.pw \in Passwords /\ \A k \in tickets : k.pw \in Passwords
  BY DEF TypeOK
<1>1. ASSUME NEW r \in Requests, NEW l \in Logins,
             Login(r, l) \/ \E k \in tickets : VerifyTicket(r, l, k)
      PROVE  Baton!Next
  <2>1. Baton!Begin(l)
    BY <1>1, <1>p, VerifiedBegins DEF Login, VerifyTicket
  <2> QED
    BY <2>1 DEF Baton!Next
<1>2. ASSUME NEW r \in Requests, NEW t \in Tokens, Refresh(r, t)
      PROVE  Baton!Next
  <2>l. PICK l \in Logins : l = login[t]
    BY <1>2, RefreshEffect
  <2>1. /\ l \in Logins /\ t \in Held(l) /\ pwOf' = pwOf
        /\ \A m \in Logins :
             /\ Held(m)' = Held(m) \ {t}
             /\ Serving(m)' = IF m = l THEN Serving(m) \cup {r} ELSE Serving(m)
    BY <1>2, <2>l, RefreshEffect
  <2>2. pwOf[l] # 0 /\ Serving(l) = {} /\ Held(l) # {} /\ Serving(l)' # {}
    BY <2>1 DEF NotBegun, OneHolder
  <2>3. \A m \in Logins : m # l => Held(m)' = Held(m) /\ Serving(m)' = Serving(m)
    BY <2>1 DEF Held
  <2>4. HolderOf(l) = "client" /\ HolderOf(l)' = "server"
    BY <2>1, <2>2, HolderCases, HolderCasesNext
  <2>5. \A m \in Logins : m # l => HolderOf(m)' = HolderOf(m)
    BY <2>1, <2>3, HolderCases, HolderCasesNext
  <2>6. Baton!HandIn(l)
    BY <2>1, <2>4, <2>5, PassesOne DEF Baton!HandIn, Baton!Pass
  <2> QED
    BY <2>1, <2>6 DEF Baton!Next
<1>3. ASSUME NEW r \in Requests, NEW t \in Tokens, CreateSession(r, t)
      PROVE  Baton!Next
  <2>l. PICK l \in Logins : l = req[r].login
    BY <1>3, CreateEffect
  <2>1. /\ l \in Logins /\ r \in Serving(l) /\ pwOf' = pwOf
        /\ \A m \in Logins :
             /\ Held(m)' = IF m = l THEN Held(m) \cup {t} ELSE Held(m)
             /\ Serving(m)' = Serving(m) \ {r}
    BY <1>3, <2>l, CreateEffect
  <2>2. /\ pwOf[l] # 0 /\ Serving(l) # {} /\ Held(l)' # {}
        /\ Serving(l) = {r}
    BY <2>1 DEF NotBegun, OneHolder
  <2>3. Serving(l)' = {}
    BY <2>1, <2>2
  <2>4. \A m \in Logins : m # l => Held(m)' = Held(m) /\ Serving(m)' = Serving(m)
    BY <2>1 DEF Serving
  <2>5. HolderOf(l) = "server" /\ HolderOf(l)' = "client"
    BY <2>1, <2>2, <2>3, HolderCases, HolderCasesNext
  <2>6. \A m \in Logins : m # l => HolderOf(m)' = HolderOf(m)
    BY <2>1, <2>4, HolderCases, HolderCasesNext
  <2>7. Baton!HandOut(l)
    BY <2>1, <2>5, <2>6, PassesOne DEF Baton!HandOut, Baton!Pass
  <2> QED
    BY <2>1, <2>7 DEF Baton!Next
<1>4. CASE Shrinks
  BY <1>4, ShrinksEnds DEF Baton!Next
<1> QED
  BY <1>1, <1>2, <1>3, <1>4, StepKinds, RevokeShrinks, UpdateShrinks DEF Keeps

\* Seen from a login, all that the requests do is to hand its session to and
\* fro, until it is over for good.
THEOREM Refinement == Spec => PassesTheBaton
<1>1. Init => Baton!Init
  BY HolderCases DEF Init, Baton!Init
<1>2. IInv /\ [Next]_vars => Baton!Next
  BY BatonStep
<1> QED
  BY <1>1, <1>2, Invariance, PTL DEF Spec, PassesTheBaton, Baton!Spec

=============================================================================
