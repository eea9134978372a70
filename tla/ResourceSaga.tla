---------------------------- MODULE ResourceSaga ----------------------------
(***************************************************************************)
(* The databases, SFTP users and mailboxes of one account: handlers that   *)
(* make or remove something on another server (MariaDB, sftpgo, the mail   *)
(* server) and the row that records it in PostgreSQL, with a compensation  *)
(* when the second write fails, while other handlers do the same.          *)
(*                                                                         *)
(* Calls are numbered; what a call makes carries its number, so that the   *)
(* password a user has is the number of the call that made the user.       *)
(***************************************************************************)
EXTENDS Naturals, FiniteSets

CONSTANTS
  Handlers,    \* request goroutines
  Databases,   \* names of databases, each with a user of the same name
  Logins,      \* names of SFTP users
  Boxes,       \* addresses of mailboxes
  NoName,      \* none of them
  Limit,       \* MaxDatabases, MaxFTPAccounts and MaxMailboxes of the plan
  MaxCalls,    \* bound on the requests
  MaxFaults    \* bound on failed calls, lost answers and lost contexts

Names == Databases \cup Logins \cup Boxes

ASSUME NamesAssumption ==
  /\ Databases \cap Logins = {} /\ (Databases \cup Logins) \cap Boxes = {}
  /\ NoName \notin Names
ASSUME HandlersAssumption == IsFiniteSet(Handlers)
ASSUME BoundsAssumption == Limit \in Nat /\ MaxCalls \in Nat /\ MaxFaults \in Nat

VARIABLES
  db,       \* MariaDB's databases: the call that made each, or 0
  user,     \* users of MariaDB and sftpgo, and mailboxes: likewise
  rec,      \* the rows: the call that inserted each
  op,       \* what each handler is doing
  calls, faults

vars == <<db, user, rec, op, calls, faults>>

Number == 0 .. MaxCalls
Making == {"db", "user", "insert"}
Idle == [kind |-> "none", at |-> "idle", name |-> NoName, id |-> 0]

\* Besides the types: only a request for a database is ever at MariaDB's
\* databases.
TypeOK ==
  /\ db \in [Databases -> Number]
  /\ user \in [Names -> Number]
  /\ rec \in [Names -> Number]
  /\ op \in [Handlers -> {Idle}
       \cup [kind : {"create"}, name : Names, id : 1 .. MaxCalls,
             at : Making \cup {"dropdb", "dropuser"}]
       \cup [kind : {"delete"}, name : Names, id : 1 .. MaxCalls,
             at : {"dropdb", "dropuser", "unrecord"}]]
  /\ \A p \in Handlers : op[p].at \in {"db", "dropdb"} => op[p].name \in Databases
  /\ calls \in Number /\ faults \in 0 .. MaxFaults

Init ==
  /\ db = [n \in Databases |-> 0]
  /\ user = [n \in Names |-> 0]
  /\ rec = [n \in Names |-> 0]
  /\ op = [p \in Handlers |-> Idle]
  /\ calls = 0 /\ faults = 0

Works == faults' = faults
Fault == faults < MaxFaults /\ faults' = faults + 1

GoTo(p, at) == op' = [op EXCEPT ![p].at = at]
End(p) == op' = [op EXCEPT ![p] = Idle]
Busy(p, at) == op[p].at = at
Absent(p, f) == f[op[p].name] = 0

\* IF NOT EXISTS, and sftpgo's 409: what is there already stays as it is.
Made(p, f) == IF Absent(p, f) THEN [f EXCEPT ![op[p].name] = op[p].id] ELSE f

\* IF EXISTS, and 404: what is not there is as good as removed.
Removed(p, f) == [f EXCEPT ![op[p].name] = 0]

\* The rows CountAccountDatabases and its like count.
Recorded(Kind) == {n \in Kind : rec[n] # 0}
KindOf(n) ==
  IF n \in Databases THEN Databases ELSE IF n \in Logins THEN Logins ELSE Boxes

-----------------------------------------------------------------------------
(* handleCreateDatabase, handleCreateFTP and handleCreateMailbox.          *)

Called(p, call) ==
  /\ op[p] = Idle /\ calls < MaxCalls
  /\ calls' = calls + 1
  /\ op' = [op EXCEPT ![p] = call]
  /\ UNCHANGED <<db, user, rec, faults>>

\* Mutant: one too many.
Mutant_WithinPlan(n) == Cardinality(Recorded(KindOf(n))) <= Limit

WithinPlan(n) == Cardinality(Recorded(KindOf(n))) < Limit

\* The plan's limit is looked at once, before anything is made.
CallCreate(p, n) ==
  /\ WithinPlan(n)
  /\ Called(p, [kind |-> "create", name |-> n, id |-> calls + 1,
                at |-> IF n \in Databases THEN "db" ELSE "user"])

\* CREATE DATABASE; its failure ends the request.
MakeDatabase(p) ==
  /\ Busy(p, "db")
  /\ \/ Works /\ db' = Made(p, db) /\ GoTo(p, "user")
     \/ Fault /\ db' \in {db, Made(p, db)} /\ End(p)
  /\ UNCHANGED <<user, rec, calls>>

\* CREATE USER and GRANT, or POST /users, or setup email add, which takes no
\* address a second time; likewise.
MakeUser(p) ==
  /\ Busy(p, "user")
  /\ \/ /\ Works /\ user' = Made(p, user)
        /\ IF op[p].name \in Boxes /\ ~Absent(p, user) THEN End(p) ELSE GoTo(p, "insert")
     \/ Fault /\ user' \in {user, Made(p, user)} /\ End(p)
  /\ UNCHANGED <<db, rec, calls>>

\* Mutant: SFTP users and mailboxes go the way of databases.
Mutant_DropFirst(n) == "dropdb"

DropFirst(n) == IF n \in Databases THEN "dropdb" ELSE "dropuser"

\* Mutant: an INSERT that fails is answered, and that is all.
Mutant_Insert(p) ==
  /\ Busy(p, "insert")
  /\ Works /\ rec' = Made(p, rec) /\ End(p)
  /\ UNCHANGED <<db, user, calls>>

\* The INSERT fails if the name is recorded already; any failure leads to
\* the compensation.
Insert(p) ==
  /\ Busy(p, "insert")
  /\ \/ /\ Works /\ rec' = Made(p, rec)
        /\ IF Absent(p, rec) THEN End(p) ELSE GoTo(p, DropFirst(op[p].name))
     \/ Fault /\ rec' \in {rec, Made(p, rec)} /\ GoTo(p, DropFirst(op[p].name))
  /\ UNCHANGED <<db, user, calls>>

-----------------------------------------------------------------------------
(* DropDatabase, DeleteUser and DeleteMailbox, as the compensation of a    *)
(* creation or as the first half of a removal.                             *)

CallDelete(p, n) ==
  /\ rec[n] # 0
  /\ Called(p, [kind |-> "delete", name |-> n, id |-> rec[n], at |-> DropFirst(n)])

DropDatabase(p) ==
  /\ Busy(p, "dropdb")
  /\ \/ Works /\ db' = Removed(p, db) /\ GoTo(p, "dropuser")
     \/ Fault /\ db' \in {db, Removed(p, db)} /\ End(p)
  /\ UNCHANGED <<user, rec, calls>>

\* A removal goes on to the row; a compensation is over.  Whether setup
\* email del complains of an address it does not know is left open.
DropUser(p) ==
  /\ Busy(p, "dropuser")
  /\ \/ /\ Works /\ user' = Removed(p, user)
        /\ IF op[p].kind = "delete" THEN GoTo(p, "unrecord") ELSE End(p)
     \/ Works /\ op[p].name \in Boxes /\ Absent(p, user) /\ user' = user /\ End(p)
     \/ Fault /\ user' \in {user, Removed(p, user)} /\ End(p)
  /\ UNCHANGED <<db, rec, calls>>

\* DELETE by the row's identifier.
DeleteRecord(p) ==
  /\ Busy(p, "unrecord")
  /\ \/ Works /\ rec' = IF rec[op[p].name] = op[p].id THEN Removed(p, rec) ELSE rec
     \/ Fault /\ rec' = rec
  /\ End(p)
  /\ UNCHANGED <<db, user, calls>>

\* The panel dies or the request's context is done between two calls: what
\* was left to do, compensation included, is not done.
Abandon(p) ==
  /\ op[p] # Idle /\ Fault
  /\ End(p)
  /\ UNCHANGED <<db, user, rec, calls>>

Next ==
  \E p \in Handlers :
    \/ \E n \in Names : CallCreate(p, n) \/ CallDelete(p, n)
    \/ MakeDatabase(p) \/ MakeUser(p) \/ Insert(p)
    \/ DropDatabase(p) \/ DropUser(p) \/ DeleteRecord(p)
    \/ Abandon(p)

Spec == Init /\ [][Next]_vars

-----------------------------------------------------------------------------
(* Properties.                                                             *)

Quiet == \A p \in Handlers : op[p] = Idle

\* "Para no dejar huérfanos": whatever creations and removals of the same
\* name interleave, as long as no call fails, nothing is left on the other
\* servers that no row records.
NoOrphans ==
  Quiet /\ faults = 0 =>
    /\ \A n \in Databases : db[n] # 0 => rec[n] # 0
    /\ \A n \in Names : user[n] # 0 => rec[n] # 0

\* The plan's limit, checked before anything is made, is exceeded by no more
\* than the requests that were under way at once.
OvershootBounded ==
  \A Kind \in {Databases, Logins, Boxes} :
    Recorded(Kind) # {} =>
      Cardinality(Recorded(Kind)) < Limit + Cardinality(Handlers)

\* The password a creation returned is the one its user has, or the user is
\* gone; never that of another request, as long as no call fails.  (After a
\* failure a retry may return a password the user does not have.)
PasswordWorks ==
  Quiet /\ faults = 0 => \A n \in Names : rec[n] # 0 => user[n] \in {0, rec[n]}

-----------------------------------------------------------------------------
(* What makes the properties inductive.                                    *)

\* A creation that has not tried to record its name yet.
Unrecorded(p) == op[p].at \in Making

\* The number of such a call is its own: no row has it, and no other call.
Numbered ==
  /\ \A n \in Names : rec[n] <= calls
  /\ \A p \in Handlers : op[p].id <= calls
  /\ \A p \in Handlers : Unrecorded(p) =>
       /\ \A n \in Names : rec[n] # op[p].id
       /\ \A q \in Handlers \ {p} : op[q].id # op[p].id

Does(p, kind, n, id, points) ==
  /\ op[p].kind = kind /\ op[p].name = n /\ op[p].id = id
  /\ op[p].at \in points

\* What f has under the name n is in the hands of the call that made it,
\* which will record or remove it (at `kept`), or is recorded under that
\* call's number and no removal has done with it (at `done`).
InHands(f, n, kept) == \E p \in Handlers : Does(p, "create", n, f[n], kept)
OnRecord(f, n, done) ==
  rec[n] = f[n] /\ \A p \in Handlers : ~Does(p, "delete", n, f[n], done)
AccountedFor(f, n, kept, done) == f[n] # 0 => InHands(f, n, kept) \/ OnRecord(f, n, done)

Accounted ==
  faults = 0 =>
    /\ \A n \in Databases :
         AccountedFor(db, n, {"user", "insert", "dropdb"}, {"dropuser", "unrecord"})
    /\ \A n \in Names :
         AccountedFor(user, n, {"insert", "dropdb", "dropuser"}, {"unrecord"})

\* Every request that was let in has its place beyond the limit.
Pending(Kind) == {p \in Handlers : Unrecorded(p) /\ op[p].name \in Kind}
Headroom ==
  \A Kind \in {Databases, Logins, Boxes} :
    /\ IsFiniteSet(Recorded(Kind))
    /\ Recorded(Kind) # {} \/ Pending(Kind) # {} =>
         Cardinality(Recorded(Kind)) + Cardinality(Pending(Kind))
           < Limit + Cardinality(Handlers)

IInv == TypeOK /\ Numbered /\ Accounted /\ Headroom

=============================================================================
