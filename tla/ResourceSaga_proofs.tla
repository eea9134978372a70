------------------------ MODULE ResourceSaga_proofs ------------------------
(***************************************************************************)
(* Proofs about ResourceSaga for every set of handlers and names and every *)
(* limit: type correctness, and from one inductive invariant that nothing  *)
(* is orphaned, that passwords work, and how far a limit is exceeded; and  *)
(* that handlers keep to a plan's limits as PlanLimit does.                *)
(***************************************************************************)
EXTENDS ResourceSaga, TLAPS, FiniteSetTheorems

-----------------------------------------------------------------------------
(* Type correctness: what handlers do, and the rest of the state.          *)

Creation == [kind : {"create"}, name : Names, id : 1 .. MaxCalls,
             at : Making \cup {"dropdb", "dropuser"}]
Removal == [kind : {"delete"}, name : Names, id : 1 .. MaxCalls,
            at : {"dropdb", "dropuser", "unrecord"}]

OpOK ==
  /\ op \in [Handlers -> {Idle} \cup Creation \cup Removal]
  /\ \A p \in Handlers : op[p].at \in {"db", "dropdb"} => op[p].name \in Databases
RowsOK ==
  /\ db \in [Databases -> Number]
  /\ user \in [Names -> Number]
  /\ rec \in [Names -> Number]
  /\ calls \in Number /\ faults \in 0 .. MaxFaults

LEMMA TypeParts == TypeOK <=> OpOK /\ RowsOK
  BY DEF TypeOK, OpOK, RowsOK, Creation, Removal

LEMMA TypePartsNext == TypeOK' <=> OpOK' /\ RowsOK'
  BY DEF TypeOK, OpOK, RowsOK, Creation, Removal

\* A handler that is not idle has a call in its hands.
LEMMA BusyHandler ==
  ASSUME OpOK, NEW p \in Handlers
  PROVE  /\ op[p].at \in Making => op[p] \in Creation
         /\ op[p].at = "unrecord" => op[p] \in Removal
         /\ op[p].at # "idle" => op[p] \in Creation \cup Removal
         /\ op[p].kind = "delete" => op[p] \in Removal
  BY DEF OpOK, Creation, Removal, Idle, Making

LEMMA OpEnd ==
  ASSUME OpOK, NEW p \in Handlers, End(p)
  PROVE  OpOK'
  BY DEF OpOK, End, Idle

\* A call goes on to a point of a call of its kind.
LEMMA OpGoTo ==
  ASSUME OpOK, NEW p \in Handlers, NEW at, GoTo(p, at),
         \/ op[p] \in Creation /\ at \in Making \cup {"dropdb", "dropuser"}
         \/ op[p] \in Removal /\ at \in {"dropdb", "dropuser", "unrecord"},
         at \in {"db", "dropdb"} => op[p].name \in Databases
  PROVE  OpOK'
<1> DEFINE now == [op[p] EXCEPT !.at = at]
<1>1. now \in Creation \cup Removal /\ now.at = at /\ now.name = op[p].name
  BY DEF Creation, Removal
<1>2. op' = [op EXCEPT ![p] = now]
  BY DEF GoTo
<1> HIDE DEF now
<1> QED
  BY <1>1, <1>2 DEF OpOK

\* What a call makes or removes leaves the other names as they are.
LEMMA MadeType ==
  ASSUME OpOK, NEW p \in Handlers, op[p] # Idle, NEW S, NEW f \in [S -> Number]
  PROVE  Made(p, f) \in [S -> Number] /\ Removed(p, f) \in [S -> Number]
<1>1. op[p].id \in Number /\ 0 \in Number
  BY BoundsAssumption DEF OpOK, Creation, Removal, Number
<1> QED
  BY <1>1 DEF Made, Removed

LEMMA TypeInit == Init => TypeOK
<1> SUFFICES ASSUME Init PROVE OpOK /\ RowsOK
  BY TypeParts
<1> QED
  BY BoundsAssumption DEF Init, OpOK, RowsOK, Number, Idle

LEMMA FaultType ==
  ASSUME RowsOK, Works \/ Fault
  PROVE  faults' \in 0 .. MaxFaults
  BY BoundsAssumption DEF RowsOK, Works, Fault

LEMMA TypeCall ==
  ASSUME TypeOK, NEW p \in Handlers, NEW n \in Names,
         CallCreate(p, n) \/ CallDelete(p, n)
  PROVE  TypeOK'
<1> OpOK /\ RowsOK
  BY TypeParts
<1> SUFFICES OpOK' /\ RowsOK'
  BY TypePartsNext
<1>1. RowsOK'
  BY BoundsAssumption DEF CallCreate, CallDelete, Called, RowsOK, Number
<1>2. CASE CallCreate(p, n)
  <2> DEFINE call == [kind |-> "create", name |-> n, id |-> calls + 1,
                      at |-> IF n \in Databases THEN "db" ELSE "user"]
  <2>1. calls + 1 \in 1 .. MaxCalls
    BY <1>2, BoundsAssumption DEF CallCreate, Called, RowsOK, Number
  <2>2. call \in Creation
    BY <2>1 DEF Creation, Making
  <2>3. call.at \in {"db", "dropdb"} => call.name \in Databases
    OBVIOUS
  <2> QED
    BY <1>1, <1>2, <2>2, <2>3 DEF CallCreate, Called, OpOK
<1>3. CASE CallDelete(p, n)
  <2> DEFINE call == [kind |-> "delete", name |-> n, id |-> rec[n],
                      at |-> DropFirst(n)]
  <2>1. rec[n] \in 1 .. MaxCalls
    BY <1>3, BoundsAssumption DEF CallDelete, RowsOK, Number
  <2>2. call \in Removal
    BY <2>1 DEF Removal, DropFirst
  <2>3. call.at \in {"db", "dropdb"} => call.name \in Databases
    BY DEF DropFirst
  <2> QED
    BY <1>1, <1>3, <2>2, <2>3 DEF CallDelete, Called, OpOK
<1> QED
  BY <1>2, <1>3

LEMMA TypeStep ==
  ASSUME TypeOK, NEW p \in Handlers,
         \/ MakeDatabase(p) \/ MakeUser(p) \/ Insert(p)
         \/ DropDatabase(p) \/ DropUser(p) \/ DeleteRecord(p)
         \/ Abandon(p)
  PROVE  TypeOK'
<1> OpOK /\ RowsOK
  BY TypeParts
<1> SUFFICES OpOK' /\ RowsOK'
  BY TypePartsNext
<1>1. faults' \in 0 .. MaxFaults
  BY FaultType DEF MakeDatabase, MakeUser, Insert, DropDatabase, DropUser,
                   DeleteRecord, Abandon, Works
<1>2. op[p] # Idle
  BY DEF MakeDatabase, MakeUser, Insert, DropDatabase, DropUser, DeleteRecord,
         Abandon, Busy, Idle
<1>3. /\ Made(p, db) \in [Databases -> Number]
      /\ Made(p, user) \in [Names -> Number]
      /\ Made(p, rec) \in [Names -> Number]
  BY <1>2, MadeType DEF RowsOK
<1>4. /\ Removed(p, db) \in [Databases -> Number]
      /\ Removed(p, user) \in [Names -> Number]
      /\ Removed(p, rec) \in [Names -> Number]
  BY <1>2, MadeType DEF RowsOK
<1>5. RowsOK'
  BY <1>1, <1>3, <1>4
     DEF MakeDatabase, MakeUser, Insert, DropDatabase, DropUser, DeleteRecord,
         Abandon, RowsOK
<1>6. CASE MakeDatabase(p) \/ MakeUser(p) \/ Insert(p)
  <2>1. op[p] \in Creation
    BY <1>6, BusyHandler DEF MakeDatabase, MakeUser, Insert, Busy, Making
  <2> QED
    BY <1>5, <1>6, <2>1, OpEnd, OpGoTo
       DEF MakeDatabase, MakeUser, Insert, DropFirst, Making
<1>7. CASE DropDatabase(p) \/ DropUser(p)
  <2>1. op[p] \in Creation \cup Removal
    BY <1>7, BusyHandler DEF DropDatabase, DropUser, Busy
  <2>2. op[p].kind = "delete" => op[p] \in Removal
    BY BusyHandler
  <2> QED
    BY <1>5, <1>7, <2>1, <2>2, OpEnd, OpGoTo DEF DropDatabase, DropUser
<1>8. CASE DeleteRecord(p) \/ Abandon(p)
  BY <1>5, <1>8, OpEnd DEF DeleteRecord, Abandon
<1> QED
  BY <1>6, <1>7, <1>8

LEMMA TypeNext == TypeOK /\ [Next]_vars => TypeOK'
<1> SUFFICES ASSUME TypeOK, [Next]_vars PROVE TypeOK'
  OBVIOUS
<1>1. CASE Next
  BY <1>1, TypeCall, TypeStep DEF Next
<1>2. CASE UNCHANGED vars
  BY <1>2 DEF vars, TypeOK, Creation, Removal
<1> QED
  BY <1>1, <1>2

\* Every variable keeps its type, and a handler is at a point of its kind of
\* call: no creation deletes the row, no removal inserts one.
THEOREM TypeCorrect == Spec => []TypeOK
  BY TypeInit, TypeNext, PTL DEF Spec

-----------------------------------------------------------------------------
(* The numbers of calls.                                                   *)

\* A step that keeps or clears rows, or gives a row the number of the call
\* whose recording it ends, and begins no creation, keeps the numbers apart.
LEMMA NumberedKept ==
  ASSUME TypeOK, Numbered, NEW p \in Handlers, calls' = calls,
         op' = [op EXCEPT ![p] = Idle]
           \/ \E at : op' = [op EXCEPT ![p].at = at] /\ op[p] # Idle
                      /\ (at \in Making => Unrecorded(p)),
         \A n \in Names :
           \/ rec'[n] \in {0, rec[n]}
           \/ rec'[n] = op[p].id /\ ~Unrecorded(p)'
  PROVE  Numbered'
<1> op \in [Handlers -> {Idle} \cup Creation \cup Removal]
  BY TypeParts DEF OpOK
<1> calls \in Nat /\ rec \in [Names -> Nat] /\ \A q \in Handlers : op[q].id \in Nat
  BY TypeParts, BoundsAssumption
     DEF RowsOK, Number, Creation, Removal, Idle
<1>1. \A q \in Handlers : op'[q].id \in {0, op[q].id}
  BY DEF Idle, Creation, Removal
<1>2. \A q \in Handlers : Unrecorded(q)' => Unrecorded(q) /\ op'[q].id = op[q].id
  BY DEF Idle, Creation, Removal, Unrecorded, Making
<1>3. \A q \in Handlers : Unrecorded(q) => op[q].id # 0
  BY DEF Idle, Creation, Removal, Unrecorded, Making
<1>4. \A n \in Names : rec'[n] <= calls'
  BY DEF Numbered
<1>5. \A q \in Handlers : op'[q].id <= calls'
  BY <1>1 DEF Numbered
<1>6. ASSUME NEW q \in Handlers, Unrecorded(q)'
      PROVE  /\ \A n \in Names : rec'[n] # op'[q].id
             /\ \A r \in Handlers \ {q} : op'[r].id # op'[q].id
  <2>1. Unrecorded(q) /\ op'[q].id = op[q].id /\ op[q].id # 0
    BY <1>2, <1>3, <1>6
  <2>2. \A r \in Handlers \ {q} : op'[r].id # op'[q].id
    BY <1>1, <2>1 DEF Numbered
  <2>3. ASSUME NEW n \in Names, rec'[n] = op[p].id, ~Unrecorded(p)'
        PROVE  rec'[n] # op'[q].id
    <3>1. q # p
      BY <1>6, <2>3
    <3> QED
      BY <2>1, <2>3, <3>1 DEF Numbered
  <2>4. ASSUME NEW n \in Names, rec'[n] \in {0, rec[n]}
        PROVE  rec'[n] # op'[q].id
    BY <2>1, <2>4 DEF Numbered
  <2> QED
    BY <2>2, <2>3, <2>4
<1> QED
  BY <1>4, <1>5, <1>6 DEF Numbered

\* A new call has a number no row and no other call has, or that of a row.
LEMMA NumberedCall ==
  ASSUME TypeOK, Numbered, NEW p \in Handlers, NEW n \in Names,
         CallCreate(p, n) \/ CallDelete(p, n)
  PROVE  Numbered'
<1> op \in [Handlers -> {Idle} \cup Creation \cup Removal]
  BY TypeParts DEF OpOK
<1> calls \in Nat /\ rec \in [Names -> Nat] /\ \A q \in Handlers : op[q].id \in Nat
  BY TypeParts, BoundsAssumption
     DEF RowsOK, Number, Creation, Removal, Idle
<1>1. CASE CallCreate(p, n)
  <2>1. op'[p].id = calls + 1 /\ calls' = calls + 1 /\ rec' = rec
    BY <1>1 DEF CallCreate, Called
  <2>2. \A q \in Handlers \ {p} : op'[q] = op[q]
    BY <1>1 DEF CallCreate, Called
  <2> QED
    BY <2>1, <2>2 DEF Numbered, Unrecorded
<1>2. CASE CallDelete(p, n)
  <2>1. /\ op'[p].id = rec[n] /\ op'[p].at \notin Making
        /\ calls' = calls + 1 /\ rec' = rec
    BY <1>2 DEF CallDelete, Called, DropFirst, Making
  <2>2. \A q \in Handlers \ {p} : op'[q] = op[q]
    BY <1>2 DEF CallDelete, Called
  <2> QED
    BY <2>1, <2>2 DEF Numbered, Unrecorded
<1> QED
  BY <1>1, <1>2

LEMMA NumberedStep ==
  ASSUME TypeOK, Numbered, NEW p \in Handlers,
         \/ MakeDatabase(p) \/ MakeUser(p) \/ Insert(p)
         \/ DropDatabase(p) \/ DropUser(p) \/ DeleteRecord(p)
         \/ Abandon(p)
  PROVE  Numbered'
<1> OpOK /\ RowsOK
  BY TypeParts
<1> op[p] # Idle
  BY DEF MakeDatabase, MakeUser, Insert, DropDatabase, DropUser, DeleteRecord,
         Abandon, Busy, Idle
<1>1. CASE MakeDatabase(p) \/ MakeUser(p) \/ DropDatabase(p) \/ DropUser(p)
            \/ Abandon(p)
  <2>1. calls' = calls /\ rec' = rec
    BY <1>1 DEF MakeDatabase, MakeUser, DropDatabase, DropUser, Abandon
  <2>2. \/ op' = [op EXCEPT ![p] = Idle]
        \/ \E at : op' = [op EXCEPT ![p].at = at] /\ (at \in Making => Unrecorded(p))
    BY <1>1 DEF MakeDatabase, MakeUser, DropDatabase, DropUser, Abandon, End, GoTo,
                Busy, Making, Unrecorded
  <2> QED
    BY <2>1, <2>2, NumberedKept
<1>2. CASE Insert(p)
  <2>1. \/ op' = [op EXCEPT ![p] = Idle]
        \/ \E at : op' = [op EXCEPT ![p].at = at] /\ at \notin Making
    BY <1>2 DEF Insert, End, GoTo, DropFirst, Making
  <2>2. ~Unrecorded(p)'
    BY <2>1 DEF Unrecorded, Idle, Making, OpOK, Creation, Removal
  <2>3. \A n \in Names : rec'[n] \in {rec[n], op[p].id}
    BY <1>2 DEF Insert, Made, RowsOK
  <2> QED
    BY <1>2, <2>1, <2>2, <2>3, NumberedKept DEF Insert
<1>3. CASE DeleteRecord(p)
  <2>1. \A n \in Names : rec'[n] \in {0, rec[n]}
    BY <1>3 DEF DeleteRecord, Removed, RowsOK
  <2> QED
    BY <1>3, <2>1, NumberedKept DEF DeleteRecord, End
<1> QED
  BY <1>1, <1>2, <1>3

-----------------------------------------------------------------------------
(* What is on the other servers is accounted for.                          *)

DatabasesAccounted ==
  faults = 0 => \A n \in Databases :
    AccountedFor(db, n, {"user", "insert", "dropdb"}, {"dropuser", "unrecord"})
UsersAccounted ==
  faults = 0 => \A n \in Names :
    AccountedFor(user, n, {"insert", "dropdb", "dropuser"}, {"unrecord"})

LEMMA AccountedParts == Accounted <=> DatabasesAccounted /\ UsersAccounted
  BY DEF Accounted, DatabasesAccounted, UsersAccounted

LEMMA AccountedPartsNext == Accounted' <=> DatabasesAccounted' /\ UsersAccounted'
  BY DEF Accounted, DatabasesAccounted, UsersAccounted

\* Only a step of p itself changes what p does.
LEMMA OthersKeep ==
  ASSUME NEW p \in Handlers, NEW c, op \in [Handlers -> {Idle} \cup Creation \cup Removal],
         op' = [op EXCEPT ![p] = c]
  PROVE  op'[p] = c /\ \A q \in Handlers \ {p} : op'[q] = op[q]
  OBVIOUS

LEMMA AccountedCall ==
  ASSUME TypeOK, Accounted, NEW p \in Handlers, NEW n \in Names,
         CallCreate(p, n) \/ CallDelete(p, n)
  PROVE  Accounted'
<1> op \in [Handlers -> {Idle} \cup Creation \cup Removal]
  BY TypeParts DEF OpOK
<1>1. /\ op[p] = Idle /\ \A q \in Handlers \ {p} : op'[q] = op[q]
      /\ UNCHANGED <<db, user, rec, faults>>
  BY DEF CallCreate, CallDelete, Called
<1>2. op'[p].kind = "create" \/ op'[p].at \in {"dropdb", "dropuser"}
  BY DEF CallCreate, CallDelete, Called, DropFirst
<1>3. /\ op'[p].kind = "delete" => op'[p].at = DropFirst(op'[p].name)
  BY DEF CallCreate, CallDelete, Called
<1> QED
  BY <1>1, <1>2, <1>3, NamesAssumption
     DEF Accounted, AccountedFor, InHands, OnRecord, Does, Idle, DropFirst, Names

\* As long as no call fails, a call goes on and its work is taken over.
LEMMA AccountedMake ==
  ASSUME TypeOK, Numbered, Accounted, NEW p \in Handlers,
         MakeDatabase(p) \/ MakeUser(p), faults' = 0
  PROVE  Accounted'
<1> OpOK /\ RowsOK
  BY TypeParts
<1> op \in [Handlers -> {Idle} \cup Creation \cup Removal]
  BY DEF OpOK
<1>1. faults = 0
  BY BoundsAssumption DEF MakeDatabase, MakeUser, Works, Fault, RowsOK
<1>2. op[p] \in Creation
  BY BusyHandler DEF MakeDatabase, MakeUser, Busy, Making
<1> DEFINE n == op[p].name
<1>3. \A q \in Handlers \ {p} : op'[q] = op[q]
  BY DEF MakeDatabase, MakeUser, GoTo, End
<1>4. CASE MakeDatabase(p)
  <2>1. /\ op'[p].kind = "create" /\ op'[p].name = n /\ op'[p].id = op[p].id
        /\ op'[p].at = "user" /\ op[p].at = "db"
        /\ rec' = rec /\ user' = user /\ faults' = 0 /\ db' = Made(p, db)
    BY <1>1, <1>2, <1>4, BoundsAssumption
       DEF MakeDatabase, Busy, GoTo, Creation, Fault, RowsOK
  <2>2. DatabasesAccounted'
    <3> SUFFICES ASSUME NEW m \in Databases
                 PROVE  AccountedFor(db, m, {"user", "insert", "dropdb"},
                                     {"dropuser", "unrecord"})'
      BY DEF DatabasesAccounted
    <3>1. \/ db'[m] = db[m]
          \/ m = n /\ db'[m] = op[p].id
      BY <2>1 DEF Made, RowsOK
    <3> QED
      BY <1>1, <1>2, <1>3, <2>1, <3>1
         DEF Accounted, AccountedFor, InHands, OnRecord, Does, Creation
  <2>3. UsersAccounted'
    BY <1>1, <1>2, <1>3, <2>1
       DEF Accounted, UsersAccounted, AccountedFor, InHands, OnRecord, Does, Creation
  <2> QED
    BY <2>2, <2>3, AccountedPartsNext
<1>5. CASE MakeUser(p)
  <2>1. /\ rec' = rec /\ db' = db /\ faults' = 0 /\ user' = Made(p, user)
        /\ op[p].at = "user"
        /\ \/ op'[p] = Idle /\ n \in Boxes /\ user[n] # 0
           \/ /\ op'[p].kind = "create" /\ op'[p].name = n /\ op'[p].id = op[p].id
              /\ op'[p].at = "insert"
    BY <1>1, <1>2, <1>5, BoundsAssumption
       DEF MakeUser, Busy, GoTo, End, Creation, Fault, RowsOK, Absent
  <2>2. DatabasesAccounted'
    <3>1. n \notin Boxes => op'[p].at = "insert"
      BY <2>1
    <3> QED
      BY <1>1, <1>2, <1>3, <2>1, NamesAssumption
         DEF Accounted, DatabasesAccounted, AccountedFor, InHands, OnRecord, Does,
             Creation, Idle
  <2>3. UsersAccounted'
    <3> SUFFICES ASSUME NEW m \in Names
                 PROVE  AccountedFor(user, m, {"insert", "dropdb", "dropuser"},
                                     {"unrecord"})'
      BY DEF UsersAccounted
    <3>1. \/ user'[m] = user[m]
          \/ m = n /\ user'[m] = op[p].id /\ op'[p].at = "insert"
      BY <2>1 DEF Made, Absent, RowsOK
    <3> QED
      BY <1>1, <1>2, <1>3, <2>1, <3>1
         DEF Accounted, AccountedFor, InHands, OnRecord, Does, Creation, Idle
  <2> QED
    BY <2>2, <2>3, AccountedPartsNext
<1> QED
  BY <1>4, <1>5

LEMMA AccountedInsert ==
  ASSUME TypeOK, Numbered, Accounted, NEW p \in Handlers, Insert(p), faults' = 0
  PROVE  Accounted'
<1> OpOK /\ RowsOK
  BY TypeParts
<1> op \in [Handlers -> {Idle} \cup Creation \cup Removal]
  BY DEF OpOK
<1>1. faults = 0
  BY BoundsAssumption DEF Insert, Works, Fault, RowsOK
<1>2. op[p] \in Creation /\ Unrecorded(p) /\ op[p].at = "insert"
  BY BusyHandler DEF Insert, Busy, Making, Unrecorded
<1> DEFINE n == op[p].name
<1>3. \A q \in Handlers \ {p} : op'[q] = op[q]
  BY DEF Insert, GoTo, End
<1>4. \A q \in Handlers \ {p} : op[q].id # op[p].id
  BY <1>2 DEF Numbered
<1>5. n \in Names /\ op[p].id # 0
  BY <1>2 DEF Creation
<1>6. CASE rec[n] = 0
  <2>1. /\ db' = db /\ user' = user /\ rec' = [rec EXCEPT ![n] = op[p].id]
        /\ op'[p] = Idle
    BY <1>1, <1>6, BoundsAssumption
       DEF Insert, Works, Fault, RowsOK, Made, Absent, End
  <2> QED
    BY <1>1, <1>2, <1>3, <1>4, <1>5, <1>6, <2>1
       DEF Accounted, AccountedFor, InHands, OnRecord, Does, Idle, RowsOK, Names
<1>7. CASE rec[n] # 0
  <2>1. /\ db' = db /\ user' = user /\ rec' = rec
        /\ op'[p].kind = "create" /\ op'[p].name = n /\ op'[p].id = op[p].id
        /\ op'[p].at = DropFirst(n)
    BY <1>1, <1>2, <1>7, BoundsAssumption
       DEF Insert, Works, Fault, RowsOK, Made, Absent, GoTo, Creation
  <2> QED
    BY <1>1, <1>2, <1>3, <2>1
       DEF Accounted, AccountedFor, InHands, OnRecord, Does, DropFirst, Creation
<1> QED
  BY <1>6, <1>7

LEMMA AccountedDrop ==
  ASSUME TypeOK, Accounted, NEW p \in Handlers,
         DropDatabase(p) \/ DropUser(p), faults' = 0
  PROVE  Accounted'
<1> OpOK /\ RowsOK
  BY TypeParts
<1> op \in [Handlers -> {Idle} \cup Creation \cup Removal]
  BY DEF OpOK
<1>1. faults = 0
  BY BoundsAssumption DEF DropDatabase, DropUser, Works, Fault, RowsOK
<1>2. op[p] \in Creation \cup Removal
  BY BusyHandler DEF DropDatabase, DropUser, Busy
<1> DEFINE n == op[p].name
<1>3. \A q \in Handlers \ {p} : op'[q] = op[q]
  BY DEF DropDatabase, DropUser, GoTo, End
<1>4. CASE DropDatabase(p)
  <2>1. /\ db' = [db EXCEPT ![n] = 0] /\ user' = user /\ rec' = rec
        /\ op[p].at = "dropdb"
        /\ op'[p].kind = op[p].kind /\ op'[p].name = n /\ op'[p].id = op[p].id
        /\ op'[p].at = "dropuser"
    BY <1>1, <1>2, <1>4, BoundsAssumption
       DEF DropDatabase, Busy, GoTo, Works, Fault, RowsOK, Removed, Creation, Removal
  <2>2. DatabasesAccounted'
    <3>1. \A m \in Databases : db'[m] # 0 => db'[m] = db[m] /\ m # n
      BY <2>1 DEF RowsOK
    <3> QED
      BY <1>1, <1>3, <2>1, <3>1
         DEF Accounted, DatabasesAccounted, AccountedFor, InHands, OnRecord, Does
  <2>3. UsersAccounted'
    BY <1>1, <1>3, <2>1
       DEF Accounted, UsersAccounted, AccountedFor, InHands, OnRecord, Does
  <2> QED
    BY <2>2, <2>3, AccountedPartsNext
<1>5. CASE DropUser(p)
  <2>1. /\ user' = [user EXCEPT ![n] = 0] /\ db' = db /\ rec' = rec
        /\ op[p].at = "dropuser"
        /\ \/ op'[p] = Idle /\ op[p].kind = "create"
           \/ op'[p] = Idle /\ n \in Boxes
           \/ /\ op'[p].kind = "delete" /\ op[p].kind = "delete"
              /\ op'[p].name = n /\ op'[p].id = op[p].id
              /\ op'[p].at = "unrecord"
    BY <1>1, <1>2, <1>5, BoundsAssumption
       DEF DropUser, Busy, GoTo, End, Works, Fault, RowsOK, Removed, Absent, Creation, Removal
  <2>2. DatabasesAccounted'
    BY <1>1, <1>3, <2>1, NamesAssumption
       DEF Accounted, DatabasesAccounted, AccountedFor, InHands, OnRecord, Does, Idle
  <2>3. UsersAccounted'
    <3>1. \A m \in Names : user'[m] # 0 => user'[m] = user[m] /\ m # n
      BY <2>1 DEF RowsOK
    <3> QED
      BY <1>1, <1>3, <2>1, <3>1
         DEF Accounted, UsersAccounted, AccountedFor, InHands, OnRecord, Does, Idle
  <2> QED
    BY <2>2, <2>3, AccountedPartsNext
<1> QED
  BY <1>4, <1>5

LEMMA AccountedDelete ==
  ASSUME TypeOK, Accounted, NEW p \in Handlers, DeleteRecord(p), faults' = 0
  PROVE  Accounted'
<1> OpOK /\ RowsOK
  BY TypeParts
<1> op \in [Handlers -> {Idle} \cup Creation \cup Removal]
  BY DEF OpOK
<1>1. faults = 0
  BY BoundsAssumption DEF DeleteRecord, Works, Fault, RowsOK
<1>2. op[p] \in Removal /\ op[p].at = "unrecord"
  BY BusyHandler DEF DeleteRecord, Busy
<1>3. op'[p] = Idle /\ \A q \in Handlers \ {p} : op'[q] = op[q]
  BY DEF DeleteRecord, End
<1>4. /\ db' = db /\ user' = user
      /\ \A m \in Names : rec'[m] # rec[m] => m = op[p].name /\ rec[m] = op[p].id
  BY DEF DeleteRecord, Removed, RowsOK
<1> QED
  BY <1>1, <1>2, <1>3, <1>4
     DEF Accounted, AccountedFor, InHands, OnRecord, Does, Idle, Removal, Names

LEMMA AccountedStep ==
  ASSUME TypeOK, Numbered, Accounted, NEW p \in Handlers,
         \/ MakeDatabase(p) \/ MakeUser(p) \/ Insert(p)
         \/ DropDatabase(p) \/ DropUser(p) \/ DeleteRecord(p)
         \/ Abandon(p)
  PROVE  Accounted'
<1>1. CASE faults' # 0
  BY <1>1 DEF Accounted
<1>2. CASE faults' = 0
  <2>1. ~Abandon(p)
    BY <1>2, TypeParts, BoundsAssumption DEF Abandon, Fault, RowsOK
  <2> QED
    BY <1>2, <2>1, AccountedMake, AccountedInsert, AccountedDrop, AccountedDelete
<1> QED
  BY <1>1, <1>2

-----------------------------------------------------------------------------
(* The requests that were let in have their place beyond the limit.        *)

Kinds == {Databases, Logins, Boxes}
HeadroomOf(Kind) ==
  /\ IsFiniteSet(Recorded(Kind))
  /\ Recorded(Kind) # {} \/ Pending(Kind) # {} =>
       Cardinality(Recorded(Kind)) + Cardinality(Pending(Kind))
         < Limit + Cardinality(Handlers)

LEMMA HeadroomParts == Headroom <=> \A Kind \in Kinds : HeadroomOf(Kind)
  BY DEF Headroom, HeadroomOf, Kinds

LEMMA HeadroomPartsNext == Headroom' <=> \A Kind \in Kinds : HeadroomOf(Kind)'
  BY DEF Headroom, HeadroomOf, Kinds

LEMMA KindOfName ==
  ASSUME NEW Kind \in Kinds, NEW n \in Kind
  PROVE  KindOf(n) = Kind
  BY NamesAssumption DEF Kinds, KindOf

\* Fewer rows and fewer requests need no more room.
LEMMA FewerFit ==
  ASSUME NEW R, NEW P, NEW S, NEW Q, IsFiniteSet(R), IsFiniteSet(P),
         S \subseteq R, Q \subseteq P, NEW room \in Nat,
         R # {} \/ P # {} => Cardinality(R) + Cardinality(P) < room
  PROVE  /\ IsFiniteSet(S)
         /\ S # {} \/ Q # {} => Cardinality(S) + Cardinality(Q) < room
<1>1. IsFiniteSet(S) /\ Cardinality(S) <= Cardinality(R)
  BY FS_Subset
<1>2. IsFiniteSet(Q) /\ Cardinality(Q) <= Cardinality(P)
  BY FS_Subset
<1>3. /\ Cardinality(R) \in Nat /\ Cardinality(P) \in Nat
      /\ Cardinality(S) \in Nat /\ Cardinality(Q) \in Nat
  BY <1>1, <1>2, FS_CardinalityType
<1> QED
  BY <1>1, <1>2, <1>3

LEMMA Room == Limit + Cardinality(Handlers) \in Nat
  BY BoundsAssumption, HandlersAssumption, FS_CardinalityType

LEMMA PendingFinite ==
  ASSUME NEW Kind
  PROVE  IsFiniteSet(Pending(Kind)) /\ Cardinality(Pending(Kind)) <= Cardinality(Handlers)
<1>1. Pending(Kind) \in SUBSET Handlers
  BY DEF Pending
<1> QED
  BY <1>1, HandlersAssumption, FS_Subset

LEMMA PendingFiniteNext ==
  ASSUME NEW Kind
  PROVE  IsFiniteSet(Pending(Kind)') /\ Cardinality(Pending(Kind)') <= Cardinality(Handlers)
<1>1. Pending(Kind)' \in SUBSET Handlers
  BY DEF Pending
<1> QED
  BY <1>1, HandlersAssumption, FS_Subset

LEMMA HeadroomFewer ==
  ASSUME NEW Kind, HeadroomOf(Kind),
         Recorded(Kind)' \subseteq Recorded(Kind), Pending(Kind)' \subseteq Pending(Kind)
  PROVE  HeadroomOf(Kind)'
<1>1. IsFiniteSet(Pending(Kind))
  BY PendingFinite
<1>2. /\ IsFiniteSet(Recorded(Kind)')
      /\ Recorded(Kind)' # {} \/ Pending(Kind)' # {} =>
           Cardinality(Recorded(Kind)') + Cardinality(Pending(Kind)')
             < Limit + Cardinality(Handlers)
  BY <1>1, FewerFit, Room DEF HeadroomOf
<1> QED
  BY <1>2 DEF HeadroomOf

\* A request is let in only below the limit, and the handlers are so many.
LEMMA HeadroomCall ==
  ASSUME TypeOK, Headroom, NEW p \in Handlers, NEW n \in Names,
         CallCreate(p, n) \/ CallDelete(p, n)
  PROVE  Headroom'
<1> OpOK /\ RowsOK
  BY TypeParts
<1> SUFFICES ASSUME NEW Kind \in Kinds PROVE HeadroomOf(Kind)'
  BY HeadroomPartsNext
<1> HeadroomOf(Kind)
  BY HeadroomParts
<1>1. Recorded(Kind)' = Recorded(Kind)
  BY DEF Recorded, CallCreate, CallDelete, Called
<1>2. CASE CallCreate(p, n) /\ n \in Kind
  <2>1. Cardinality(Recorded(Kind)) < Limit
    BY <1>2, KindOfName DEF CallCreate, WithinPlan
  <2>2. IsFiniteSet(Recorded(Kind)) /\ Cardinality(Recorded(Kind)) \in Nat
    BY FS_CardinalityType DEF HeadroomOf
  <2>3. /\ Cardinality(Pending(Kind)') \in Nat
        /\ Cardinality(Pending(Kind)') <= Cardinality(Handlers)
    BY PendingFiniteNext, FS_CardinalityType
  <2>4. Cardinality(Handlers) \in Nat
    BY HandlersAssumption, FS_CardinalityType
  <2>5. Cardinality(Recorded(Kind)') + Cardinality(Pending(Kind)')
          < Limit + Cardinality(Handlers)
    BY <1>1, <2>1, <2>2, <2>3, <2>4, BoundsAssumption
  <2> QED
    BY <1>1, <2>2, <2>5 DEF HeadroomOf
<1>3. CASE ~(CallCreate(p, n) /\ n \in Kind)
  <2>1. Pending(Kind)' \subseteq Pending(Kind)
    BY <1>3 DEF Pending, Unrecorded, CallCreate, CallDelete, Called, DropFirst, Making, OpOK
  <2> QED
    BY <1>1, <2>1, HeadroomFewer
<1> QED
  BY <1>2, <1>3

LEMMA OneMore ==
  ASSUME NEW S, NEW x, IsFiniteSet(S)
  PROVE  /\ IsFiniteSet(S \cup {x}) /\ Cardinality(S) \in Nat
         /\ Cardinality(S \cup {x}) <= Cardinality(S) + 1
<1>1. Cardinality(S) \in Nat
  BY FS_CardinalityType
<1>2. /\ IsFiniteSet(S \cup {x})
      /\ Cardinality(S \cup {x}) = IF x \in S THEN Cardinality(S) ELSE Cardinality(S) + 1
  BY FS_AddElement
<1> QED
  BY <1>1, <1>2

\* A row takes the place of the request that inserts it.
LEMMA HeadroomInsert ==
  ASSUME TypeOK, Headroom, NEW p \in Handlers, Insert(p)
  PROVE  Headroom'
<1> OpOK /\ RowsOK
  BY TypeParts
<1> SUFFICES ASSUME NEW Kind \in Kinds PROVE HeadroomOf(Kind)'
  BY HeadroomPartsNext
<1> HeadroomOf(Kind)
  BY HeadroomParts
<1> DEFINE n == op[p].name
           R == Recorded(Kind)
           P == Pending(Kind)
<1>1. Unrecorded(p)
  BY DEF Insert, Busy, Unrecorded, Making
<1>2. Recorded(Kind)' \subseteq IF n \in Kind THEN R \cup {n} ELSE R
  BY DEF Insert, Made, Recorded, RowsOK, Kinds, Names
<1>3. Pending(Kind)' \subseteq P \ {p}
  BY DEF Insert, End, GoTo, Pending, Unrecorded, Making, DropFirst, Idle, OpOK, Creation, Removal
<1>4. CASE n \in Kind
  <2>1. p \in P
    BY <1>1, <1>4 DEF Pending
  <2>2. IsFiniteSet(P) /\ IsFiniteSet(R)
    BY PendingFinite DEF HeadroomOf
  <2>3. /\ IsFiniteSet(R \cup {n})
        /\ Cardinality(R \cup {n}) <= Cardinality(R) + 1
        /\ Cardinality(R) \in Nat
    BY <2>2, OneMore
  <2>4. /\ IsFiniteSet(P \ {p})
        /\ Cardinality(P \ {p}) = Cardinality(P) - 1
        /\ Cardinality(P) \in Nat
    BY <2>1, <2>2, FS_RemoveElement, FS_CardinalityType
  <2>5. Cardinality(R) + Cardinality(P) < Limit + Cardinality(Handlers)
    BY <2>1 DEF HeadroomOf
  <2>6. Cardinality(R \cup {n}) \in Nat /\ Cardinality(P \ {p}) \in Nat
    BY <2>3, <2>4, FS_CardinalityType
  <2>7. Cardinality(R \cup {n}) + Cardinality(P \ {p}) < Limit + Cardinality(Handlers)
    BY <2>3, <2>4, <2>5, <2>6, Room
  <2>8. /\ IsFiniteSet(Recorded(Kind)')
        /\ Recorded(Kind)' # {} \/ Pending(Kind)' # {} =>
             Cardinality(Recorded(Kind)') + Cardinality(Pending(Kind)')
               < Limit + Cardinality(Handlers)
    BY <1>2, <1>3, <1>4, <2>3, <2>4, <2>7, FewerFit, Room
  <2> QED
    BY <2>8 DEF HeadroomOf
<1>5. CASE n \notin Kind
  BY <1>2, <1>3, <1>5, HeadroomFewer
<1> QED
  BY <1>4, <1>5

LEMMA HeadroomStep ==
  ASSUME TypeOK, Headroom, NEW p \in Handlers,
         \/ MakeDatabase(p) \/ MakeUser(p) \/ DropDatabase(p) \/ DropUser(p)
         \/ DeleteRecord(p) \/ Abandon(p)
  PROVE  Headroom'
<1> OpOK /\ RowsOK
  BY TypeParts
<1> SUFFICES ASSUME NEW Kind \in Kinds PROVE HeadroomOf(Kind)'
  BY HeadroomPartsNext
<1> HeadroomOf(Kind)
  BY HeadroomParts
<1>1. \A n \in Names : rec'[n] \in {0, rec[n]}
  BY DEF MakeDatabase, MakeUser, DropDatabase, DropUser, DeleteRecord, Abandon, Removed, RowsOK
<1>2. Recorded(Kind)' \subseteq Recorded(Kind)
  BY <1>1 DEF Recorded, Kinds, Names
<1>3. \/ op' = [op EXCEPT ![p] = Idle]
      \/ \E at : op' = [op EXCEPT ![p].at = at] /\ (at \in Making => Unrecorded(p))
  BY DEF MakeDatabase, MakeUser, DropDatabase, DropUser, DeleteRecord, Abandon,
         End, GoTo, Busy, Making, Unrecorded
<1>4. Pending(Kind)' \subseteq Pending(Kind)
  BY <1>3 DEF Pending, Unrecorded, Idle, Making, OpOK, Creation, Removal
<1> QED
  BY <1>2, <1>4, HeadroomFewer

-----------------------------------------------------------------------------
(* The inductive invariant and what follows from it.                       *)

LEMMA InvInit == Init => IInv
<1> SUFFICES ASSUME Init PROVE Numbered /\ Accounted /\ Headroom
  BY TypeInit DEF IInv
<1>1. Numbered /\ Accounted
  BY NamesAssumption DEF Init, Numbered, Accounted, AccountedFor, Unrecorded, Idle, Making, Names
<1>2. ASSUME NEW Kind \in Kinds
      PROVE  HeadroomOf(Kind)
  <2>1. Recorded(Kind) = {} /\ Pending(Kind) = {}
    BY DEF Init, Recorded, Pending, Unrecorded, Idle, Making, Kinds, Names
  <2> QED
    BY <2>1, FS_EmptySet DEF HeadroomOf
<1> QED
  BY <1>1, <1>2, HeadroomParts

LEMMA InvNext == IInv /\ [Next]_vars => IInv'
<1> SUFFICES ASSUME IInv, [Next]_vars PROVE IInv'
  OBVIOUS
<1> TypeOK /\ Numbered /\ Accounted /\ Headroom
  BY DEF IInv
<1>1. TypeOK'
  BY TypeNext
<1>2. CASE UNCHANGED vars
  BY <1>1, <1>2
     DEF vars, IInv, Numbered, Unrecorded, Accounted, AccountedFor, InHands, OnRecord,
         Does, Headroom, Recorded, Pending
<1>3. ASSUME NEW p \in Handlers, NEW n \in Names, CallCreate(p, n) \/ CallDelete(p, n)
      PROVE  IInv'
  BY <1>1, <1>3, NumberedCall, AccountedCall, HeadroomCall DEF IInv
<1>4. ASSUME NEW p \in Handlers,
             \/ MakeDatabase(p) \/ MakeUser(p) \/ Insert(p)
             \/ DropDatabase(p) \/ DropUser(p) \/ DeleteRecord(p)
             \/ Abandon(p)
      PROVE  IInv'
  BY <1>1, <1>4, NumberedStep, AccountedStep, HeadroomInsert, HeadroomStep DEF IInv
<1> QED
  BY <1>2, <1>3, <1>4 DEF Next

LEMMA Invariance == Spec => []IInv
  BY InvInit, InvNext, PTL DEF Spec

\* Once every request has ended and as long as no call failed, every
\* database, user and mailbox on the other servers has a row, whichever
\* creations and removals of its name overlapped.
THEOREM NothingOrphaned == Spec => []NoOrphans
<1>1. IInv => NoOrphans
  BY DEF IInv, NoOrphans, Quiet, Accounted, AccountedFor, InHands, OnRecord, Does, Idle
<1> QED
  BY <1>1, Invariance, PTL

\* Likewise, a user that a row records was made by the request that inserted
\* the row, whose answer gave the password.
THEOREM PasswordsWork == Spec => []PasswordWorks
<1>1. IInv => PasswordWorks
  BY DEF IInv, PasswordWorks, Quiet, Accounted, AccountedFor, InHands, OnRecord, Does, Idle
<1> QED
  BY <1>1, Invariance, PTL

\* The limit, looked at before anything is made, is exceeded by fewer rows
\* than there are handlers, whatever fails.
THEOREM OvershootIsBounded == Spec => []OvershootBounded
<1>1. ASSUME IInv, NEW Kind \in Kinds, Recorded(Kind) # {}
      PROVE  Cardinality(Recorded(Kind)) < Limit + Cardinality(Handlers)
  <2>1. HeadroomOf(Kind)
    BY <1>1, HeadroomParts DEF IInv
  <2>2. Cardinality(Recorded(Kind)) \in Nat /\ Cardinality(Pending(Kind)) \in Nat
    BY <2>1, PendingFinite, FS_CardinalityType DEF HeadroomOf
  <2> QED
    BY <1>1, <2>1, <2>2, Room DEF HeadroomOf
<1>2. IInv => OvershootBounded
  BY <1>1 DEF OvershootBounded, Kinds
<1> QED
  BY <1>2, Invariance, PTL

-----------------------------------------------------------------------------
(* The plan.                                                               *)

\* A kind of things as PlanLimit sees it.
Plan(Kind) == INSTANCE PlanLimit WITH
  Things <- Kind, Clients <- Handlers,
  taken <- Recorded(Kind), inside <- Pending(Kind), lifted <- FALSE

LEMMA PlanLibrary ==
  ASSUME NEW Kind
  PROVE  \A S : /\ Plan(Kind)!Cardinality(S) = Cardinality(S)
               /\ Plan(Kind)!IsFiniteSet(S) <=> IsFiniteSet(S)
<1>1. \A S : Plan(Kind)!Cardinality(S) = Cardinality(S)
  BY DEF Plan!Cardinality, Cardinality
<1>2. \A S : Plan(Kind)!IsFiniteSet(S) <=> IsFiniteSet(S)
  BY DEF Plan!IsFiniteSet, IsFiniteSet
<1> QED
  BY <1>1, <1>2

\* What a step of p does to the requests that were let in.
LEMMA PendingAfter ==
  ASSUME OpOK, NEW p \in Handlers, NEW x, op' = [op EXCEPT ![p] = x], NEW Kind
  PROVE  /\ x.at \in Making /\ x.name \in Kind => Pending(Kind)' = Pending(Kind) \cup {p}
         /\ ~(x.at \in Making /\ x.name \in Kind) => Pending(Kind)' = Pending(Kind) \ {p}
<1>1. op'[p] = x /\ \A q \in Handlers \ {p} : op'[q] = op[q]
  BY DEF OpOK
<1>2. Pending(Kind)' = {q \in Handlers : op'[q].at \in Making /\ op'[q].name \in Kind}
  BY DEF Pending, Unrecorded
<1>3. Pending(Kind) = {q \in Handlers : op[q].at \in Making /\ op[q].name \in Kind}
  BY DEF Pending, Unrecorded
<1> QED
  BY <1>1, <1>2, <1>3

\* A handler that goes on leaves those let in when it is past the making,
\* one that ends leaves them if it was there.
LEMMA PendingSteps ==
  ASSUME OpOK, NEW p \in Handlers, NEW Kind, op[p] # Idle
  PROVE  /\ End(p) => Pending(Kind)' = Pending(Kind) \ {p}
         /\ \A at : GoTo(p, at) /\ at \in Making /\ op[p].at \in Making =>
              Pending(Kind)' = Pending(Kind)
         /\ \A at : GoTo(p, at) /\ at \notin Making => Pending(Kind)' = Pending(Kind) \ {p}
<1>1. ASSUME End(p) PROVE Pending(Kind)' = Pending(Kind) \ {p}
  <2>1. op' = [op EXCEPT ![p] = Idle]
    BY <1>1 DEF End
  <2>2. Idle.at \notin Making
    BY DEF Idle, Making
  <2> QED
    BY <2>1, <2>2, PendingAfter
<1>2. ASSUME NEW at, GoTo(p, at)
      PROVE  /\ at \in Making /\ op[p].at \in Making => Pending(Kind)' = Pending(Kind)
             /\ at \notin Making => Pending(Kind)' = Pending(Kind) \ {p}
  <2> DEFINE x == [op[p] EXCEPT !.at = at]
  <2>1. op' = [op EXCEPT ![p] = x]
    BY <1>2 DEF GoTo
  <2>2. x.at = at /\ x.name = op[p].name
    BY DEF OpOK, Creation, Removal, Idle
  <2> HIDE DEF x
  <2>3. CASE at \in Making /\ op[p].at \in Making
    <3>1. CASE op[p].name \in Kind
      <4>1. p \in Pending(Kind)
        BY <2>3, <3>1 DEF Pending, Unrecorded
      <4>2. Pending(Kind)' = Pending(Kind) \cup {p}
        BY <2>1, <2>2, <2>3, <3>1, PendingAfter
      <4> QED
        BY <2>3, <4>1, <4>2
    <3>2. CASE op[p].name \notin Kind
      <4>1. p \notin Pending(Kind)
        BY <3>2 DEF Pending
      <4>2. Pending(Kind)' = Pending(Kind) \ {p}
        BY <2>1, <2>2, <3>2, PendingAfter
      <4> QED
        BY <2>3, <4>1, <4>2
    <3> QED
      BY <3>1, <3>2
  <2>4. CASE at \notin Making
    BY <2>1, <2>2, <2>4, PendingAfter
  <2> QED
    BY <2>3, <2>4
<1> QED
  BY <1>1, <1>2

\* Leaving, for one who may not have been there.
LEMMA Leaves ==
  ASSUME NEW Kind, NEW p \in Handlers,
         Recorded(Kind)' = Recorded(Kind), Pending(Kind)' \in {Pending(Kind), Pending(Kind) \ {p}}
  PROVE  [Plan(Kind)!Next]_(Plan(Kind)!vars)
<1>1. CASE Pending(Kind)' = Pending(Kind)
  BY <1>1 DEF Plan!vars
<1>2. CASE Pending(Kind)' = Pending(Kind) \ {p} /\ p \in Pending(Kind)
  <2>1. Plan(Kind)!Leave(p)
    BY <1>2 DEF Plan!Leave
  <2> QED
    BY <2>1 DEF Plan!Next
<1>3. CASE p \notin Pending(Kind)
  BY <1>3 DEF Plan!vars
<1> QED
  BY <1>1, <1>2, <1>3

\* A request asks once, and what follows takes one name or none.
LEMMA PlanStep ==
  ASSUME TypeOK, [Next]_vars, NEW Kind \in Kinds
  PROVE  [Plan(Kind)!Next]_(Plan(Kind)!vars)
<1> OpOK /\ RowsOK
  BY TypeParts
<1> DEFINE R == Recorded(Kind)
           P == Pending(Kind)
           Done == [Plan(Kind)!Next]_(Plan(Kind)!vars)
<1>0. Kind \subseteq Names
  BY DEF Kinds, Names
<1>1. CASE UNCHANGED vars
  <2>1. R' = R /\ P' = P
    BY <1>1 DEF vars, Recorded, Pending, Unrecorded
  <2> QED
    BY <2>1 DEF Plan!vars
<1>2. ASSUME NEW p \in Handlers, NEW n \in Names, CallCreate(p, n)
      PROVE  Done
  <2> DEFINE x == [kind |-> "create", name |-> n, id |-> calls + 1,
                   at |-> IF n \in Databases THEN "db" ELSE "user"]
  <2>1. op' = [op EXCEPT ![p] = x] /\ op[p] = Idle
    BY <1>2 DEF CallCreate, Called
  <2>2. x.at \in Making /\ x.name = n
    BY DEF Making
  <2>3. R' = R
    BY <1>2 DEF CallCreate, Called, Recorded
  <2>4. p \notin P
    BY <2>1 DEF Pending, Unrecorded, Idle, Making
  <2> HIDE DEF x
  <2>5. CASE n \in Kind
    <3>1. Pending(Kind)' = Pending(Kind) \cup {p}
      BY <2>1, <2>2, <2>5, PendingAfter
    <3>2. Cardinality(Recorded(Kind)) < Limit
      BY <1>2, <2>5, KindOfName DEF CallCreate, WithinPlan
    <3>3. Plan(Kind)!Cardinality(Recorded(Kind)) < Limit
      BY <3>2 DEF Plan!Cardinality, Cardinality
    <3>4. Recorded(Kind)' = Recorded(Kind) /\ p \notin Pending(Kind)
      BY <2>3, <2>4
    <3>5. Plan(Kind)!LetIn(p)
      BY <3>1, <3>3, <3>4 DEF Plan!LetIn
    <3> QED
      BY <3>5 DEF Plan!Next
  <2>6. CASE n \notin Kind
    <3>1. Pending(Kind)' = Pending(Kind) \ {p}
      BY <2>1, <2>2, <2>6, PendingAfter
    <3> QED
      BY <2>3, <3>1, Leaves
  <2> QED
    BY <2>5, <2>6
<1>3. ASSUME NEW p \in Handlers, NEW n \in Names, CallDelete(p, n)
      PROVE  Done
  <2> DEFINE x == [kind |-> "delete", name |-> n, id |-> rec[n], at |-> DropFirst(n)]
  <2>1. op' = [op EXCEPT ![p] = x]
    BY <1>3 DEF CallDelete, Called
  <2>2. x.at \notin Making
    BY DEF Making, DropFirst
  <2>3. R' = R
    BY <1>3 DEF CallDelete, Called, Recorded
  <2> HIDE DEF x
  <2>4. Pending(Kind)' = Pending(Kind) \ {p}
    BY <2>1, <2>2, PendingAfter
  <2> QED
    BY <2>3, <2>4, Leaves
<1>4. ASSUME NEW p \in Handlers,
             MakeDatabase(p) \/ MakeUser(p) \/ DropDatabase(p) \/ DropUser(p) \/ Abandon(p)
      PROVE  Done
  <2>1. R' = R
    BY <1>4 DEF MakeDatabase, MakeUser, DropDatabase, DropUser, Abandon, Recorded
  <2>2. op[p] # Idle
    BY <1>4 DEF MakeDatabase, MakeUser, DropDatabase, DropUser, Abandon, Busy, Idle
  <2>3. \/ End(p)
        \/ \E at : GoTo(p, at) /\ (at \notin Making \/ op[p].at \in Making)
    BY <1>4 DEF MakeDatabase, MakeUser, DropDatabase, DropUser, Abandon, Busy, Making
  <2>4. Pending(Kind)' \in {Pending(Kind), Pending(Kind) \ {p}}
    BY <2>2, <2>3, PendingSteps
  <2> QED
    BY <2>1, <2>4, Leaves
<1>5. ASSUME NEW p \in Handlers, Insert(p)
      PROVE  Done
  <2> DEFINE n == op[p].name
  <2>1. op[p] # Idle /\ op[p].at \in Making /\ op[p] \in Creation
    BY <1>5, BusyHandler DEF Insert, Busy, Idle, Making
  <2>2. n \in Names /\ op[p].id # 0
    BY <2>1 DEF Creation
  <2>3. End(p) \/ \E at : GoTo(p, at) /\ at \notin Making
    BY <1>5 DEF Insert, DropFirst, Making
  <2>4. Pending(Kind)' = Pending(Kind) \ {p}
    BY <2>1, <2>3, PendingSteps
  <2>5. CASE n \in Kind /\ rec[n] = 0 /\ rec' = [rec EXCEPT ![n] = op[p].id]
    <3>1. n \notin R /\ R' = R \cup {n}
      BY <1>0, <2>2, <2>5 DEF Recorded, RowsOK
    <3>2. p \in Pending(Kind)
      BY <2>1, <2>5 DEF Pending, Unrecorded
    <3>3. Plan(Kind)!Take(p, n)
      BY <2>4, <3>1, <3>2 DEF Plan!Take
    <3> QED
      BY <2>5, <3>3 DEF Plan!Next
  <2>6. CASE ~(n \in Kind /\ rec[n] = 0 /\ rec' = [rec EXCEPT ![n] = op[p].id])
    <3>1. rec' = rec \/ (n \notin Kind /\ rec' = [rec EXCEPT ![n] = op[p].id])
      BY <1>5, <2>6 DEF Insert, Made, Absent
    <3>2. Recorded(Kind)' = Recorded(Kind)
      BY <1>0, <2>2, <3>1 DEF Recorded, RowsOK
    <3> QED
      BY <2>4, <3>2, Leaves
  <2> QED
    BY <2>5, <2>6
<1>6. ASSUME NEW p \in Handlers, DeleteRecord(p)
      PROVE  Done
  <2> DEFINE n == op[p].name
  <2>1. Pending(Kind)' = Pending(Kind)
    <3>1. op[p] # Idle /\ p \notin Pending(Kind) /\ End(p)
      BY <1>6 DEF DeleteRecord, Busy, Idle, Pending, Unrecorded, Making
    <3>2. Pending(Kind)' = Pending(Kind) \ {p}
      BY <3>1, PendingSteps
    <3> QED
      BY <3>1, <3>2
  <2>2. op[p] \in Removal
    BY <1>6, BusyHandler DEF DeleteRecord, Busy
  <2>3. n \in Names /\ rec' \in {rec, [rec EXCEPT ![n] = 0]}
    BY <1>6, <2>2 DEF DeleteRecord, Removed, Removal
  <2>4. R' = R \ (R \ R') /\ R \ R' \in SUBSET Kind
    BY <1>0, <2>3 DEF Recorded, RowsOK
  <2>5. Plan(Kind)!Give(R \ R')
    BY <2>1, <2>4 DEF Plan!Give
  <2> QED
    BY <2>4, <2>5 DEF Plan!Next
<1> QED
  BY <1>1, <1>2, <1>3, <1>4, <1>5, <1>6 DEF Next

\* Databases, SFTP users and mailboxes each keep to the plan as PlanLimit
\* does: whoever inserts a row asked for it once, and no row is inserted
\* twice for one question.
THEOREM KeepsToPlan == ASSUME NEW Kind \in Kinds PROVE Spec => Plan(Kind)!Spec
<1>1. Init => Plan(Kind)!Init
  <2> SUFFICES ASSUME Init PROVE Plan(Kind)!Init
    OBVIOUS
  <2>1. Recorded(Kind) = {} /\ Pending(Kind) = {}
    BY DEF Init, Recorded, Pending, Unrecorded, Idle, Making, Kinds, Names
  <2>2. IsFiniteSet({}) /\ Cardinality({}) = 0
    BY FS_EmptySet
  <2> QED
    BY <2>1, <2>2, BoundsAssumption, PlanLibrary DEF Plan!Init
<1>2. TypeOK /\ [Next]_vars => [Plan(Kind)!Next]_(Plan(Kind)!vars)
  BY PlanStep
<1> QED
  BY <1>1, <1>2, TypeCorrect, PTL DEF Spec, Plan!Spec

=============================================================================
