------------------------ MODULE SiteLifecycle_proofs ------------------------
(***************************************************************************)
(* Proofs about SiteLifecycle for every set of sites, handlers and kinds   *)
(* of operations: type correctness, that a suspension takes the domains    *)
(* off the edge, and that a quiet edge does what the rows say.             *)
(***************************************************************************)
EXTENDS SiteLifecycle, TLAPS

-----------------------------------------------------------------------------
(* Type correctness: what goroutines do, and the rest of the state.        *)

Calls == [kind : Kinds \cup {"reconcile", "boot"}, at : At,
          on : Sites \cup {Nobody}, left : SUBSET Sites, gone : SUBSET Sites,
          to : Status \cup {"none"}]
SoundCall(c) ==
  /\ c.at \in SitePoints => c.on \in Sites
  /\ c.at \in {"eachrow", "fix"} => c.to \in Status
  /\ c.at \in {"restart", "restarted"} => "restart" \in Kinds
OpOK == op \in [Procs -> Calls \cup {Idle}] /\ \A p \in Procs : SoundCall(op[p])
Scanning == op[Worker].at \in {"scan", "fix"} => \A s \in op[Worker].left : view[s] \in Status

SiteRow == [status : Status, up : BOOLEAN, dom : BOOLEAN] \cup {NoRow}
Ctr == [state : CtrState \ {"missing"}, by : Handlers] \cup {NoCtr}
AcctOK == acct \in {"active", "suspended", "none"} /\ ack \in Procs \cup {Nobody, Acked}
SiteOK == site \in [Sites -> SiteRow]
CtrOK == ctr \in [Sites -> Ctr]
EdgeOK ==
  edge \in [Sites -> Route] /\ sync \in [by : Procs \cup {Nobody}, table : [Sites -> Route]]
RestOK ==
  view \in [Sites -> Status \cup {"none"}] /\ ops \in 0 .. MaxOps /\ faults \in 0 .. MaxFaults
StateOK == AcctOK /\ SiteOK /\ CtrOK /\ EdgeOK /\ RestOK

TypeInv == TypeOK /\ Sound

LEMMA TypeParts == TypeInv <=> OpOK /\ Scanning /\ StateOK
  BY DEF TypeInv, TypeOK, Sound, OpOK, Scanning, StateOK, AcctOK, SiteOK, CtrOK, EdgeOK,
         RestOK, Calls, SoundCall, SiteRow, Ctr

LEMMA TypePartsNext == TypeInv' <=> OpOK' /\ Scanning' /\ StateOK'
  BY DEF TypeInv, TypeOK, Sound, OpOK, Scanning, StateOK, AcctOK, SiteOK, CtrOK, EdgeOK,
         RestOK, Calls, SoundCall, SiteRow, Ctr

LEMMA IdleSound == Idle.at = "idle" /\ SoundCall(Idle)
  BY DEF Idle, SoundCall, SitePoints, At

LEMMA BusyCall ==
  ASSUME OpOK, NEW p \in Procs, op[p].at # "idle"
  PROVE  op[p] \in Calls
  BY IdleSound DEF OpOK

\* However a goroutine goes on, it goes on soundly.
LEMMA OpBecome ==
  ASSUME OpOK, NEW p \in Procs, NEW c \in Calls \cup {Idle}, SoundCall(c),
         op' = [op EXCEPT ![p] = c]
  PROVE  OpOK'
  BY DEF OpOK

LEMMA OpEnd ==
  ASSUME OpOK, NEW p \in Procs, End(p)
  PROVE  OpOK'
  BY IdleSound, OpBecome DEF End

LEMMA OpGoTo ==
  ASSUME OpOK, NEW p \in Procs, op[p].at # "idle", NEW at \in At, GoTo(p, at),
         at \in SitePoints => op[p].at \in SitePoints,
         at \notin {"eachrow", "fix", "restart"},
         at = "restarted" => op[p].at = "restart"
  PROVE  OpOK'
<1> op[p] \in Calls /\ SoundCall(op[p])
  BY BusyCall DEF OpOK
<1> DEFINE c == [op[p] EXCEPT !.at = at]
<1>1. c \in Calls
  BY DEF Calls
<1>2. SoundCall(c)
  BY DEF SoundCall, Calls
<1> QED
  BY <1>1, <1>2, OpBecome DEF GoTo

\* Only what p does changes.
LEMMA EndAt ==
  ASSUME OpOK, NEW p \in Procs, End(p)
  PROVE  op'[p] = Idle /\ \A q \in Procs \ {p} : op'[q] = op[q]
  BY DEF OpOK, End

LEMMA GoToAt ==
  ASSUME OpOK, NEW p \in Procs, op[p].at # "idle", NEW at, GoTo(p, at)
  PROVE  /\ op'[p].at = at /\ op'[p].on = op[p].on
         /\ op'[p].left = op[p].left /\ op'[p].gone = op[p].gone
         /\ op'[p].to = op[p].to /\ op'[p].kind = op[p].kind
         /\ \A q \in Procs \ {p} : op'[q] = op[q]
<1>1. op[p] \in Calls
  BY BusyCall
<1>2. op'[p] = [op[p] EXCEPT !.at = at] /\ \A q \in Procs \ {p} : op'[q] = op[q]
  BY DEF OpOK, GoTo
<1> QED
  BY <1>1, <1>2 DEF Calls

LEMMA SetStatusType ==
  ASSUME SiteOK, NEW p, NEW s \in Sites, NEW status \in Status, SetStatus(p, s, status)
  PROVE  SiteOK'
<1> DEFINE row == [site[s] EXCEPT !.status = status]
<1>1. row \in SiteRow
  <2>1. CASE site[s] \in [status : Status, up : BOOLEAN, dom : BOOLEAN]
    <3>1. row \in [status : Status, up : BOOLEAN, dom : BOOLEAN]
      BY <2>1
    <3> QED
      BY <3>1 DEF SiteRow
  <2>2. CASE site[s] = NoRow
    <3>1. [NoRow EXCEPT !.status = status] \in [status : Status, up : BOOLEAN, dom : BOOLEAN]
      BY DEF NoRow
    <3> QED
      BY <2>2, <3>1 DEF SiteRow
  <2> QED
    BY <2>1, <2>2 DEF SiteOK, SiteRow
<1>2. site' = [site EXCEPT ![s] = row] \/ site' = site
  BY DEF SetStatus
<1> QED
  BY <1>1, <1>2 DEF SiteOK

LEMMA SetCtrType ==
  ASSUME CtrOK, NEW s \in Sites, Exists(s), NEW state \in CtrState \ {"missing"},
         SetCtr(s, state)
  PROVE  CtrOK'
  BY DEF CtrOK, Ctr, Exists, SetCtr, NoCtr

LEMMA FaultType ==
  ASSUME RestOK, Works \/ Fault, view' = view, ops' = ops
  PROVE  RestOK'
  BY BoundsAssumption DEF RestOK, Works, Fault

LEMMA RouteType == \A s \in Sites : RouteOf(s) \in Route
  BY DEF RouteOf, Route

LEMMA TypeInit == Init => TypeInv
<1> SUFFICES ASSUME Init PROVE OpOK /\ Scanning /\ StateOK
  BY TypeParts
<1>1. OpOK
  BY IdleSound DEF Init, OpOK
<1>2. Scanning
  BY IdleSound DEF Init, Scanning, Procs
<1>3. StateOK
  BY BoundsAssumption
     DEF Init, StateOK, AcctOK, SiteOK, SiteRow, CtrOK, Ctr, EdgeOK, Route, RestOK
<1> QED
  BY <1>1, <1>2, <1>3

LEMMA FirstPoint ==
  ASSUME NEW kind \in Kinds
  PROVE  /\ First(kind) \in At \ {"eachrow", "fix", "restarted", "load", "scan"}
         /\ First(kind) \in SitePoints => kind \in SiteKinds
         /\ First(kind) = "restart" => kind = "restart"
  BY KindsAssumption DEF First, At, SitePoints, SiteKinds, DomainKinds, AccountKinds

LEMMA TypeCalled ==
  ASSUME OpOK, RestOK, NEW p \in Procs, NEW kind \in Kinds, NEW s \in Sites \cup {Nobody},
         NEW left \in SUBSET Sites, kind \in SiteKinds => s \in Sites,
         Called(p, kind, s, left)
  PROVE  OpOK' /\ RestOK'
<1> DEFINE c == [kind |-> kind, at |-> First(kind), on |-> s,
                 left |-> left, gone |-> {}, to |-> "none"]
<1>1. c \in Calls
  BY FirstPoint DEF Calls
<1>2. SoundCall(c)
  BY FirstPoint DEF SoundCall
<1>3. OpOK'
  BY <1>1, <1>2, OpBecome DEF Called
<1>4. RestOK'
  BY BoundsAssumption DEF Called, RestOK
<1> QED
  BY <1>3, <1>4

\* What a handler does leaves the loop's list alone.
LEMMA ScanningKept ==
  ASSUME Scanning, op'[Worker].at = op[Worker].at, op'[Worker].left = op[Worker].left,
         view' = view
  PROVE  Scanning'
  BY DEF Scanning

LEMMA TypeCall ==
  ASSUME TypeInv, NEW p \in Handlers, Call(p)
  PROVE  TypeInv'
<1> OpOK /\ Scanning /\ StateOK
  BY TypeParts
<1> SUFFICES OpOK' /\ Scanning' /\ StateOK'
  BY TypePartsNext
<1> p \in Procs /\ p # Worker /\ Worker \in Procs
  BY ProcsAssumption DEF Procs
<1>1. /\ op[p] = Idle /\ UNCHANGED <<ctr, edge, sync, view, faults>>
      /\ \E c : op' = [op EXCEPT ![p] = c]
  BY DEF Call, CallSite, CallDomain, CallStatus, CallTerminate, Called
<1>2. Scanning'
  BY <1>1, ScanningKept DEF OpOK
<1>3. CtrOK' /\ EdgeOK'
  BY <1>1 DEF StateOK, CtrOK, EdgeOK
<1>4. ASSUME NEW kind \in Kinds \cap SiteKinds, NEW s \in Sites, CallSite(p, kind, s)
      PROVE  OpOK' /\ StateOK'
  <2>1. OpOK' /\ RestOK'
    BY <1>4, TypeCalled DEF CallSite, StateOK
  <2>2. AcctOK' /\ SiteOK'
    BY <1>4 DEF CallSite, StateOK, AcctOK, SiteOK, Forgotten
  <2> QED
    BY <1>3, <2>1, <2>2 DEF StateOK
<1>5. ASSUME NEW kind \in Kinds \cap DomainKinds, NEW s \in Sites, CallDomain(p, kind, s)
      PROVE  OpOK' /\ StateOK'
  <2>0. kind \notin SiteKinds
    BY <1>5 DEF SiteKinds, DomainKinds
  <2>1. OpOK' /\ RestOK'
    BY <1>5, <2>0, TypeCalled DEF CallDomain, StateOK
  <2>2. AcctOK'
    BY <1>5 DEF CallDomain, StateOK, AcctOK, Forgotten
  <2>3. site[s] \in [status : Status, up : BOOLEAN, dom : BOOLEAN]
    BY <1>5 DEF CallDomain, StateOK, SiteOK, SiteRow, Rows, NoRow
  <2>4. SiteOK'
    BY <1>5, <2>3 DEF CallDomain, StateOK, SiteOK, SiteRow
  <2> QED
    BY <1>3, <2>1, <2>2, <2>4 DEF StateOK
<1>6. ASSUME NEW kind \in Kinds \cap {"suspend", "unsuspend"}, CallStatus(p, kind)
      PROVE  OpOK' /\ StateOK'
  <2>0. kind \notin SiteKinds
    BY <1>6 DEF SiteKinds
  <2>1. OpOK' /\ RestOK'
    BY <1>6, <2>0, TypeCalled DEF CallStatus, StateOK
  <2>2. AcctOK' /\ SiteOK'
    BY <1>6 DEF CallStatus, StateOK, AcctOK, SiteOK
  <2> QED
    BY <1>3, <2>1, <2>2 DEF StateOK
<1>7. ASSUME "terminate" \in Kinds, CallTerminate(p)
      PROVE  OpOK' /\ StateOK'
  <2>0. "terminate" \notin SiteKinds /\ Rows \in SUBSET Sites
    BY DEF SiteKinds, Rows
  <2>1. OpOK' /\ RestOK'
    BY <1>7, <2>0, TypeCalled DEF CallTerminate, StateOK
  <2>2. AcctOK' /\ SiteOK'
    BY <1>7 DEF CallTerminate, StateOK, AcctOK, SiteOK, Forgotten
  <2> QED
    BY <1>3, <2>1, <2>2 DEF StateOK
<1> QED
  BY <1>2, <1>4, <1>5, <1>6, <1>7 DEF Call

LEMMA TypeCreate ==
  ASSUME TypeInv, NEW p \in Handlers,
         \/ Insert(p) \/ Prepare(p) \/ Replace(p) \/ Create(p) \/ BootCtr(p) \/ Health(p)
         \/ Record(p) \/ Failed(p)
  PROVE  OpOK' /\ StateOK'
<1> OpOK /\ Scanning /\ StateOK
  BY TypeParts
<1> p \in Procs
  BY DEF Procs
<1> DEFINE s == op[p].on
<1>1. op[p].at # "idle" /\ op[p].at \in SitePoints /\ s \in Sites
  BY DEF Insert, Prepare, Replace, Create, BootCtr, Health, Record, Failed, OpOK, SoundCall,
         SitePoints, At
<1>2. RestOK'
  BY FaultType DEF Insert, Prepare, Replace, Create, BootCtr, Health, Record, Failed, Works,
                   StateOK
<1>3. AcctOK' /\ EdgeOK'
  BY DEF Insert, Prepare, Replace, Create, BootCtr, Health, Record, Failed, StateOK, AcctOK,
         EdgeOK
<1>4. CASE Insert(p)
  <2>1. OpOK'
    <3> DEFINE c == [op[p] EXCEPT !.at = "prepare", !.gone = {}]
    <3>1. op[p] \in Calls
      BY <1>1, BusyCall
    <3>2. c \in Calls /\ SoundCall(c)
      BY <1>1, <3>1 DEF Calls, SoundCall, At
    <3>3. op' = [op EXCEPT ![p] = c] \/ End(p)
      BY <1>4 DEF Insert
    <3> QED
      BY <3>2, <3>3, OpBecome, OpEnd
  <2>2. SiteOK'
    BY <1>4 DEF Insert, StateOK, SiteOK, SiteRow, NoRow, Status
  <2>3. CtrOK'
    BY <1>4 DEF Insert, StateOK, CtrOK
  <2> QED
    BY <1>2, <1>3, <2>1, <2>2, <2>3 DEF StateOK
<1>5. CASE Prepare(p)
  <2>1. OpOK'
    BY <1>1, <1>5, OpGoTo, OpEnd DEF Prepare, At
  <2>2. HasRow(p, s) => site[s] \in [status : Status, up : BOOLEAN, dom : BOOLEAN]
    BY <1>1 DEF StateOK, SiteOK, SiteRow, HasRow, Rows, NoRow
  <2>3. SiteOK'
    <3> DEFINE row == [site[s] EXCEPT !.dom = TRUE]
    <3>1. HasRow(p, s) => row \in SiteRow
      BY <2>2 DEF SiteRow
    <3>2. site' = site \/ (HasRow(p, s) /\ site' = [site EXCEPT ![s] = row])
      BY <1>5 DEF Prepare
    <3> QED
      BY <3>1, <3>2 DEF StateOK, SiteOK
  <2>4. CtrOK'
    BY <1>5 DEF Prepare, StateOK, CtrOK
  <2> QED
    BY <1>2, <1>3, <2>1, <2>3, <2>4 DEF StateOK
<1>6. CASE Replace(p) \/ Create(p) \/ Health(p)
  <2>1. OpOK'
    BY <1>1, <1>6, OpGoTo DEF Replace, Create, Health, At
  <2>2. SiteOK'
    BY <1>6 DEF Replace, Create, Health, StateOK, SiteOK
  <2>3. CtrOK'
    BY <1>6 DEF Replace, Create, Health, StateOK, CtrOK, Ctr, CtrState
  <2> QED
    BY <1>2, <1>3, <2>1, <2>2, <2>3 DEF StateOK
<1>7. CASE BootCtr(p)
  <2>1. OpOK'
    BY <1>1, <1>7, OpGoTo DEF BootCtr, At
  <2>2. SiteOK'
    BY <1>7 DEF BootCtr, StateOK, SiteOK
  <2>3. ctr[s].by = p => Exists(s)
    BY <1>1, ProcsAssumption DEF StateOK, CtrOK, Ctr, Exists, NoCtr
  <2>4. CtrOK'
    <3>1. CASE ctr' = ctr
      BY <3>1 DEF StateOK, CtrOK
    <3>2. CASE ctr' # ctr
      BY <1>1, <1>7, <2>3, <3>2, SetCtrType DEF BootCtr, StateOK, CtrState
    <3> QED
      BY <3>1, <3>2
  <2> QED
    BY <1>2, <1>3, <2>1, <2>2, <2>4 DEF StateOK
<1>8. CASE Record(p)
  <2>1. OpOK'
    BY <1>1, <1>8, OpGoTo DEF Record, At, SitePoints
  <2>2. HasRow(p, s) => site[s] \in [status : Status, up : BOOLEAN, dom : BOOLEAN]
    BY <1>1 DEF StateOK, SiteOK, SiteRow, HasRow, Rows, NoRow
  <2>3. SiteOK'
    <3> DEFINE row == [site[s] EXCEPT !.status = "running", !.up = TRUE]
    <3>1. HasRow(p, s) => row \in SiteRow
      BY <2>2 DEF SiteRow, Status
    <3>2. site' = site \/ (HasRow(p, s) /\ site' = [site EXCEPT ![s] = row])
      BY <1>8 DEF Record
    <3> QED
      BY <3>1, <3>2 DEF StateOK, SiteOK
  <2>4. CtrOK'
    BY <1>8 DEF Record, StateOK, CtrOK
  <2> QED
    BY <1>2, <1>3, <2>1, <2>3, <2>4 DEF StateOK
<1>9. CASE Failed(p)
  <2>1. OpOK' /\ SiteOK'
    BY <1>1, <1>9, OpEnd, SetStatusType DEF Failed, StateOK, Status
  <2>2. CtrOK'
    BY <1>9 DEF Failed, StateOK, CtrOK
  <2> QED
    BY <1>2, <1>3, <2>1, <2>2 DEF StateOK
<1> QED
  BY <1>4, <1>5, <1>6, <1>7, <1>8, <1>9

LEMMA StoppedType ==
  ASSUME CtrOK, NEW s \in Sites, Stopped(s)
  PROVE  CtrOK'
<1>1. CASE ctr' = ctr
  BY <1>1 DEF CtrOK
<1>2. CASE ctr' # ctr
  BY <1>2, SetCtrType DEF Stopped, Exists, CtrState
<1> QED
  BY <1>1, <1>2

\* The operations that knew the rows of S go on at the points they were at.
LEMMA OrphanedCalls ==
  ASSUME OpOK, NEW S \in SUBSET Sites, NEW q \in Procs
  PROVE  /\ Orphaned(S)[q] \in Calls \cup {Idle} /\ SoundCall(Orphaned(S)[q])
         /\ op[q] \in Calls => Orphaned(S)[q] \in Calls
         /\ Orphaned(S)[q].at = op[q].at /\ Orphaned(S)[q].on = op[q].on
         /\ Orphaned(S)[q].left = op[q].left /\ Orphaned(S)[q].to = op[q].to
<1>1. CASE op[q] = Idle
  BY <1>1, IdleSound DEF Orphaned, OpOK
<1>2. CASE op[q] # Idle
  <2> DEFINE c == [op[q] EXCEPT !.gone = @ \cup S]
  <2>1. op[q] \in Calls /\ SoundCall(op[q])
    BY <1>2 DEF OpOK
  <2>2. c \in Calls /\ SoundCall(c)
    BY <2>1 DEF Calls, SoundCall
  <2>3. Orphaned(S)[q] = c
    BY <1>2 DEF Orphaned
  <2> QED
    BY <2>1, <2>2, <2>3 DEF Calls
<1> QED
  BY <1>1, <1>2

LEMMA OrphanedType ==
  ASSUME OpOK, NEW S \in SUBSET Sites, NEW p \in Procs, op[p].at # "idle",
         op' = [Orphaned(S) EXCEPT ![p].at = "lock"]
  PROVE  OpOK'
<1> DEFINE c == [Orphaned(S)[p] EXCEPT !.at = "lock"]
<1>1. Orphaned(S)[p] \in Calls
  BY OrphanedCalls, BusyCall
<1>2. c \in Calls /\ SoundCall(c)
  BY <1>1 DEF Calls, SoundCall, At, SitePoints
<1>3. Orphaned(S) = [q \in Procs |-> Orphaned(S)[q]]
  BY DEF Orphaned
<1>4. op' = [Orphaned(S) EXCEPT ![p] = c]
  OBVIOUS
<1>5. op'[p] = c /\ \A q \in Procs \ {p} : op'[q] = Orphaned(S)[q]
  BY <1>3, <1>4
<1>6. op' = [q \in Procs |-> op'[q]]
  BY <1>3, <1>4
<1> QED
  BY <1>2, <1>5, <1>6, OrphanedCalls DEF OpOK

LEMMA OrphanedAt ==
  ASSUME OpOK, NEW S \in SUBSET Sites, NEW p \in Procs, op[p].at # "idle",
         op' = [Orphaned(S) EXCEPT ![p].at = "lock"]
  PROVE  op'[p].at = "lock" /\ \A q \in Procs \ {p} : op'[q] = Orphaned(S)[q]
<1>1. Orphaned(S)[p] \in Calls
  BY OrphanedCalls, BusyCall
<1>2. /\ op'[p] = [Orphaned(S)[p] EXCEPT !.at = "lock"]
      /\ \A q \in Procs \ {p} : op'[q] = Orphaned(S)[q]
  BY DEF Orphaned
<1> QED
  BY <1>1, <1>2 DEF Calls

LEMMA TypeSite ==
  ASSUME TypeInv, NEW p \in Handlers,
         \/ Start(p) \/ Stop(p) \/ RecordStarted(p) \/ RecordStopped(p)
         \/ RecordRestarted(p) \/ Mark(p) \/ Remove(p) \/ DeleteRow(p)
  PROVE  OpOK' /\ StateOK'
<1> OpOK /\ Scanning /\ StateOK
  BY TypeParts
<1> p \in Procs
  BY DEF Procs
<1> DEFINE s == op[p].on
<1>1. op[p].at # "idle" /\ op[p].at \in SitePoints /\ s \in Sites
  BY DEF Start, Stop, RecordStarted, RecordStopped, RecordRestarted, Mark, Remove, DeleteRow,
         OpOK, SoundCall, SitePoints, At
<1>2. RestOK'
  BY FaultType DEF Start, Stop, RecordStarted, RecordStopped, RecordRestarted, Mark, Remove,
                   DeleteRow, Works, StateOK
<1>3. AcctOK' /\ EdgeOK'
  BY DEF Start, Stop, RecordStarted, RecordStopped, RecordRestarted, Mark, Remove, DeleteRow,
         StateOK, AcctOK, EdgeOK
<1>4. CASE Start(p)
  <2>1. OpOK'
    BY <1>1, <1>4, OpGoTo DEF Start, At
  <2>2. CtrOK'
    <3>1. CASE ctr' = ctr
      BY <3>1 DEF StateOK, CtrOK
    <3>2. CASE ctr' # ctr
      BY <1>1, <1>4, <3>2, SetCtrType DEF Start, StateOK, CtrState
    <3> QED
      BY <3>1, <3>2
  <2>3. SiteOK'
    BY <1>4 DEF Start, StateOK, SiteOK
  <2> QED
    BY <1>2, <1>3, <2>1, <2>2, <2>3 DEF StateOK
<1>5. CASE Stop(p) \/ Remove(p)
  <2>1. OpOK'
    BY <1>1, <1>5, OpGoTo, OpEnd DEF Stop, Remove, At
  <2>2. CtrOK'
    BY <1>1, <1>5, StoppedType DEF Stop, Remove, StateOK, CtrOK, Ctr
  <2>3. SiteOK'
    BY <1>5 DEF Stop, Remove, StateOK, SiteOK
  <2> QED
    BY <1>2, <1>3, <2>1, <2>2, <2>3 DEF StateOK
<1>6. CASE RecordStarted(p) \/ RecordStopped(p) \/ RecordRestarted(p) \/ Mark(p)
  <2>1. OpOK'
    BY <1>1, <1>6, OpGoTo, OpEnd
       DEF RecordStarted, RecordStopped, RecordRestarted, Mark, GoToIfRow, At, SitePoints
  <2>2. SiteOK'
    BY <1>1, <1>6, SetStatusType
       DEF RecordStarted, RecordStopped, RecordRestarted, Mark, StateOK, Status
  <2>3. CtrOK'
    BY <1>6 DEF RecordStarted, RecordStopped, RecordRestarted, Mark, StateOK, CtrOK
  <2> QED
    BY <1>2, <1>3, <2>1, <2>2, <2>3 DEF StateOK
<1>7. CASE DeleteRow(p)
  <2>1. ASSUME HasRow(p, s)
        PROVE  OpOK'
    BY <1>1, <1>7, <2>1, OrphanedType DEF DeleteRow, At, SitePoints
  <2>2. OpOK'
    BY <1>1, <1>7, <2>1, OpEnd DEF DeleteRow
  <2>3. SiteOK'
    BY <1>7 DEF DeleteRow, StateOK, SiteOK, SiteRow
  <2>4. CtrOK'
    BY <1>7 DEF DeleteRow, StateOK, CtrOK
  <2> QED
    BY <1>2, <1>3, <2>2, <2>3, <2>4 DEF StateOK
<1> QED
  BY <1>4, <1>5, <1>6, <1>7

LEMMA TypeAccount ==
  ASSUME TypeInv, NEW p \in Handlers,
         \/ List(p) \/ Each(p) \/ EachRow(p) \/ EachDone(p) \/ Purge(p) \/ DeleteAccount(p)
  PROVE  OpOK' /\ StateOK'
<1> OpOK /\ Scanning /\ StateOK
  BY TypeParts
<1> p \in Procs
  BY DEF Procs
<1>1. op[p].at # "idle" /\ op[p] \in Calls
  BY BusyCall DEF List, Each, EachRow, EachDone, Purge, DeleteAccount
<1>2. RestOK'
  BY FaultType DEF List, Each, EachRow, EachDone, Purge, DeleteAccount, Works, StateOK
<1>3. EdgeOK'
  BY DEF List, Each, EachRow, EachDone, Purge, DeleteAccount, StateOK, EdgeOK
<1>4. CASE List(p)
  <2> DEFINE c == [op[p] EXCEPT !.at = "each", !.left = Rows, !.gone = {}]
  <2>1. c \in Calls /\ SoundCall(c)
    BY <1>1 DEF Calls, SoundCall, At, SitePoints, Rows
  <2>2. OpOK'
    BY <1>4, <2>1, OpBecome DEF List
  <2> QED
    BY <1>2, <1>3, <1>4, <2>2 DEF List, StateOK, AcctOK, SiteOK, CtrOK
<1>5. CASE Each(p)
  <2>1. PICK s \in op[p].left, ok \in BOOLEAN :
          /\ IF ok THEN Works /\ Exists(s) ELSE (Works /\ ~Exists(s)) \/ Fault
          /\ IF ~ok THEN ctr' = ctr
             ELSE IF op[p].kind = "suspend" THEN Stopped(s) ELSE SetCtr(s, "running")
          /\ op' = [op EXCEPT ![p].at = "eachrow", ![p].on = s,
                      ![p].to = IF op[p].kind = "suspend" THEN "stopped"
                                ELSE IF ok THEN "running" ELSE "error"]
    BY <1>5 DEF Each
  <2> DEFINE to == IF op[p].kind = "suspend" THEN "stopped"
                   ELSE IF ok THEN "running" ELSE "error"
             c == [op[p] EXCEPT !.at = "eachrow", !.on = s, !.to = to]
  <2>2. s \in Sites /\ to \in Status
    BY <1>1 DEF Calls, Status
  <2>3. c \in Calls /\ SoundCall(c)
    BY <1>1, <2>2 DEF Calls, SoundCall, At, SitePoints
  <2>4. OpOK'
    BY <2>1, <2>3, OpBecome
  <2>5. CtrOK'
    <3>1. CASE ctr' = ctr
      BY <3>1 DEF StateOK, CtrOK
    <3>2. CASE ok /\ op[p].kind = "suspend"
      BY <2>1, <2>2, <3>2, StoppedType DEF StateOK
    <3>3. CASE ok /\ op[p].kind # "suspend"
      BY <2>1, <2>2, <3>3, SetCtrType DEF StateOK, CtrState
    <3> QED
      BY <2>1, <3>1, <3>2, <3>3
  <2> QED
    BY <1>2, <1>3, <1>5, <2>4, <2>5 DEF Each, StateOK, AcctOK, SiteOK
<1>6. CASE EachRow(p)
  <2> DEFINE c == [op[p] EXCEPT !.at = "each", !.left = @ \ {op[p].on}]
  <2>1. op[p].on \in Sites /\ op[p].to \in Status
    BY <1>6 DEF EachRow, OpOK, SoundCall, SitePoints, At
  <2>2. c \in Calls /\ SoundCall(c)
    BY <1>1 DEF Calls, SoundCall, At, SitePoints
  <2>3. OpOK'
    BY <1>6, <2>2, OpBecome DEF EachRow
  <2>4. SiteOK'
    BY <1>6, <2>1, SetStatusType DEF EachRow, StateOK
  <2> QED
    BY <1>2, <1>3, <1>6, <2>3, <2>4 DEF EachRow, StateOK, AcctOK, CtrOK
<1>7. CASE EachDone(p)
  <2>1. OpOK'
    BY <1>1, <1>7, OpGoTo DEF EachDone, At, SitePoints
  <2> QED
    BY <1>2, <1>3, <1>7, <2>1 DEF EachDone, StateOK, AcctOK, SiteOK, CtrOK
<1>8. CASE Purge(p)
  <2>1. PICK s \in op[p].left : op' = [op EXCEPT ![p].left = @ \ {s}]
    BY <1>8 DEF Purge
  <2> DEFINE c == [op[p] EXCEPT !.left = @ \ {s}]
  <2>2. c \in Calls /\ SoundCall(c)
    BY <1>1, <1>8 DEF Calls, OpOK, SoundCall
  <2>3. OpOK'
    BY <2>1, <2>2, OpBecome
  <2>4. CtrOK'
    BY <1>8 DEF Purge, StateOK, CtrOK, Ctr
  <2> QED
    BY <1>2, <1>3, <1>8, <2>3, <2>4 DEF Purge, StateOK, AcctOK, SiteOK
<1>9. CASE DeleteAccount(p)
  <2>1. OpOK'
    BY <1>1, <1>9, OrphanedType, OpEnd DEF DeleteAccount
  <2>2. SiteOK' /\ AcctOK'
    BY <1>9 DEF DeleteAccount, StateOK, SiteOK, SiteRow, AcctOK
  <2> QED
    BY <1>2, <1>3, <1>9, <2>1, <2>2 DEF DeleteAccount, StateOK, CtrOK
<1> QED
  BY <1>4, <1>5, <1>6, <1>7, <1>8, <1>9

LEMMA TypeSync ==
  ASSUME TypeInv, NEW p \in Procs, Lock(p) \/ Publish(p)
  PROVE  OpOK' /\ StateOK'
<1> OpOK /\ Scanning /\ StateOK
  BY TypeParts
<1>1. op[p].at # "idle"
  BY DEF Lock, Publish
<1>2. RestOK'
  BY FaultType DEF Lock, Publish, Works, StateOK
<1>3. OpOK'
  BY <1>1, OpGoTo, OpEnd DEF Lock, Publish, At, SitePoints
<1>4. EdgeOK' /\ AcctOK'
  BY RouteType DEF Lock, Publish, StateOK, EdgeOK, AcctOK
<1> QED
  BY <1>2, <1>3, <1>4 DEF Lock, Publish, StateOK, SiteOK, CtrOK

\* A status that is wanted is one a row can have.
LEMMA WantType ==
  ASSUME NEW state \in CtrState, NEW status \in Status
  PROVE  WantFor(state, status) \in Status
  BY DEF WantFor, CtrState, Status

LEMMA TypeLoop ==
  ASSUME TypeInv, Tick \/ Scan \/ Fix \/ Scanned
  PROVE  TypeInv'
<1> OpOK /\ Scanning /\ StateOK
  BY TypeParts
<1> Worker \in Procs
  BY DEF Procs
<1> SUFFICES OpOK' /\ Scanning' /\ StateOK'
  BY TypePartsNext
<1>1. AcctOK' /\ CtrOK' /\ EdgeOK'
  BY DEF Tick, Scan, Fix, Scanned, StateOK, AcctOK, CtrOK, EdgeOK
<1>2. CASE Tick
  <2> DEFINE left == {s \in Rows : site[s].status \notin {"provisioning", "deleting"}}
             c == [kind |-> "reconcile", at |-> "scan", on |-> Nobody, gone |-> {},
                   to |-> "none", left |-> left]
  <2>1. c \in Calls /\ SoundCall(c)
    BY DEF Calls, SoundCall, At, SitePoints, Rows
  <2>2. OpOK'
    BY <1>2, <2>1, OpBecome DEF Tick
  <2>3. \A s \in Sites : site[s].status \in Status \cup {"none"}
    BY DEF StateOK, SiteOK, SiteRow, NoRow
  <2>4. \A s \in left : s \in Sites /\ site[s].status \in Status
    BY <2>3 DEF Rows
  <2>5. op'[Worker].left = left /\ view' = [s \in Sites |-> site[s].status]
    BY <1>2 DEF Tick, OpOK
  <2>6. Scanning'
    BY <2>4, <2>5 DEF Scanning
  <2>7. RestOK' /\ SiteOK'
    BY <1>2, <2>3 DEF Tick, StateOK, RestOK, SiteOK
  <2> QED
    BY <1>1, <2>2, <2>6, <2>7 DEF StateOK
<1>3. CASE Scan
  <2>1. op[Worker].at = "scan" /\ op[Worker] \in Calls
    BY <1>3, BusyCall DEF Scan
  <2>2. PICK s \in op[Worker].left :
          \/ op' = [op EXCEPT ![Worker].at = "fix", ![Worker].on = s,
                              ![Worker].to = WantFor(ctr[s].state, view[s])]
          \/ op' = [op EXCEPT ![Worker].left = @ \ {s}]
    BY <1>3 DEF Scan
  <2> DEFINE want == WantFor(ctr[s].state, view[s])
             c == [op[Worker] EXCEPT !.at = "fix", !.on = s, !.to = want]
             d == [op[Worker] EXCEPT !.left = @ \ {s}]
  <2>3. s \in Sites /\ view[s] \in Status
    BY <2>1 DEF Calls, Scanning
  <2>4. ctr[s].state \in CtrState
    BY <2>3 DEF StateOK, CtrOK, Ctr, NoCtr, CtrState
  <2>5. want \in Status
    BY <2>3, <2>4, WantType
  <2> HIDE DEF want
  <2>6. c \in Calls /\ SoundCall(c)
    BY <2>1, <2>3, <2>5 DEF Calls, SoundCall, At, SitePoints
  <2>7. d \in Calls /\ SoundCall(d)
    BY <2>1 DEF Calls, SoundCall, At, SitePoints
  <2>8. op' = [op EXCEPT ![Worker] = c] \/ op' = [op EXCEPT ![Worker] = d]
    BY <2>2 DEF want
  <2>9. OpOK'
    BY <2>6, <2>7, <2>8, OpBecome
  <2>10. Scanning'
    <3>1. op'[Worker].left \subseteq op[Worker].left
      <4>1. op'[Worker] = c \/ op'[Worker] = d
        BY <2>8 DEF OpOK
      <4>2. c.left = op[Worker].left /\ d.left = op[Worker].left \ {s}
        BY <2>1 DEF Calls
      <4> QED
        BY <4>1, <4>2
    <3> QED
      BY <1>3, <2>1, <3>1 DEF Scan, Scanning
  <2>11. RestOK' /\ SiteOK'
    BY <1>3, FaultType DEF Scan, StateOK, SiteOK
  <2> QED
    BY <1>1, <2>9, <2>10, <2>11 DEF StateOK
<1>4. CASE Fix
  <2> DEFINE c == [op[Worker] EXCEPT !.at = "scan", !.left = @ \ {op[Worker].on}]
  <2>1. op[Worker].at = "fix" /\ op[Worker] \in Calls
    BY <1>4, BusyCall DEF Fix
  <2>2. op[Worker].on \in Sites /\ op[Worker].to \in Status
    BY <2>1 DEF OpOK, SoundCall, SitePoints, At
  <2>3. c \in Calls /\ SoundCall(c)
    BY <2>1 DEF Calls, SoundCall, At, SitePoints
  <2>4. OpOK'
    BY <1>4, <2>3, OpBecome DEF Fix
  <2>5. Scanning'
    <3>1. op'[Worker].left \subseteq op[Worker].left
      BY <1>4, <2>1 DEF Fix, OpOK, Calls
    <3> QED
      BY <1>4, <2>1, <3>1 DEF Fix, Scanning
  <2>6. SiteOK'
    BY <1>4, <2>2, SetStatusType DEF Fix, StateOK
  <2>7. RestOK'
    BY <1>4 DEF Fix, StateOK, RestOK
  <2> QED
    BY <1>1, <2>4, <2>5, <2>6, <2>7 DEF StateOK
<1>5. CASE Scanned
  <2>1. OpOK'
    BY <1>5, OpEnd, OpGoTo DEF Scanned, At, SitePoints
  <2>2. Scanning'
    <3>1. op'[Worker].at \in {"idle", "lock"}
      BY <1>5, IdleSound, EndAt, GoToAt DEF Scanned
    <3> QED
      BY <3>1 DEF Scanning
  <2>3. RestOK' /\ SiteOK'
    BY <1>5 DEF Scanned, StateOK, RestOK, SiteOK
  <2> QED
    BY <1>1, <2>1, <2>2, <2>3 DEF StateOK
<1> QED
  BY <1>2, <1>3, <1>4, <1>5

LEMMA TypeFault ==
  ASSUME TypeInv,
         \/ \E p \in Handlers : ContextDone(p)
         \/ \E s \in Sites : CtrDies(s) \/ CtrRecovers(s)
         \/ Crash
  PROVE  TypeInv'
<1> OpOK /\ Scanning /\ StateOK
  BY TypeParts
<1> SUFFICES OpOK' /\ Scanning' /\ StateOK'
  BY TypePartsNext
<1> Worker \in Procs /\ Worker \notin Handlers
  BY ProcsAssumption DEF Procs
<1>1. RestOK'
  BY FaultType DEF ContextDone, CtrDies, CtrRecovers, Crash, Works, StateOK
<1>2. ASSUME NEW p \in Handlers, ContextDone(p)
      PROVE  OpOK' /\ Scanning' /\ StateOK'
  <2>1. p \in Procs
    BY DEF Procs
  <2>2. OpOK'
    BY <1>2, <2>1, OpEnd DEF ContextDone
  <2>3. Scanning'
    BY <1>2, ScanningKept DEF ContextDone, End, OpOK
  <2>4. EdgeOK'
    BY <1>2 DEF ContextDone, StateOK, EdgeOK
  <2> QED
    BY <1>1, <1>2, <2>2, <2>3, <2>4 DEF ContextDone, StateOK, AcctOK, SiteOK, CtrOK
<1>3. ASSUME NEW s \in Sites, CtrDies(s) \/ CtrRecovers(s)
      PROVE  OpOK' /\ Scanning' /\ StateOK'
  <2>1. OpOK' /\ Scanning'
    BY <1>3 DEF CtrDies, CtrRecovers, OpOK, Scanning
  <2>2. CtrOK'
    BY <1>3, SetCtrType DEF CtrDies, CtrRecovers, Exists, CtrState, StateOK
  <2> QED
    BY <1>1, <1>3, <2>1, <2>2 DEF CtrDies, CtrRecovers, StateOK, AcctOK, SiteOK, EdgeOK
<1>4. CASE Crash
  <2> DEFINE c == [Idle EXCEPT !.kind = "boot", !.at = "lock"]
  <2>1. c \in Calls /\ SoundCall(c)
    BY DEF Idle, Calls, SoundCall, At, SitePoints
  <2>2. op' = [q \in Procs |-> IF q = Worker THEN c ELSE Idle]
    BY <1>4 DEF Crash
  <2> HIDE DEF c
  <2>3. OpOK'
    BY <2>1, <2>2, IdleSound DEF OpOK
  <2>4. Scanning'
    BY <2>2 DEF Scanning, c, Idle
  <2>5. EdgeOK'
    BY <1>4 DEF Crash, StateOK, EdgeOK
  <2> QED
    BY <1>1, <1>4, <2>3, <2>4, <2>5 DEF Crash, StateOK, AcctOK, SiteOK, CtrOK
<1> QED
  BY <1>2, <1>3, <1>4

LEMMA WorkScanning ==
  ASSUME TypeInv, NEW p \in Handlers, Work(p)
  PROVE  Scanning'
<1> OpOK /\ Scanning
  BY TypeParts
<1> p \in Procs /\ p # Worker /\ Worker \in Procs
  BY ProcsAssumption DEF Procs
<1>1. CASE DeleteRow(p) \/ DeleteAccount(p)
  <2>1. \/ End(p)
        \/ \E S \in SUBSET Sites : op' = [Orphaned(S) EXCEPT ![p].at = "lock"]
    BY <1>1 DEF DeleteRow, DeleteAccount, OpOK, SoundCall, SitePoints, At
  <2>2. ASSUME NEW S \in SUBSET Sites, op' = [Orphaned(S) EXCEPT ![p].at = "lock"]
        PROVE  op'[Worker].at = op[Worker].at /\ op'[Worker].left = op[Worker].left
    <3>1. op'[Worker] = Orphaned(S)[Worker]
      BY <2>2 DEF Orphaned
    <3> QED
      BY <3>1, OrphanedCalls
  <2> QED
    BY <1>1, <2>1, <2>2, ScanningKept, EndAt DEF DeleteRow, DeleteAccount
<1>2. CASE ~(DeleteRow(p) \/ DeleteAccount(p))
  <2>1. op'[Worker] = op[Worker]
    BY <1>2
       DEF Work, Insert, Prepare, Replace, Create, BootCtr, Health, Record, Failed, Start, Stop,
           RecordStarted, RecordStopped, RecordRestarted, Mark, Remove, List, Each, EachRow,
           EachDone, Purge, Publish, End, GoTo, GoToIfRow, OpOK
  <2>2. view' = view
    BY <1>2
       DEF Work, Insert, Prepare, Replace, Create, BootCtr, Health, Record, Failed, Start, Stop,
           RecordStarted, RecordStopped, RecordRestarted, Mark, Remove, List, Each, EachRow,
           EachDone, Purge, Publish
  <2> QED
    BY <2>1, <2>2, ScanningKept
<1> QED
  BY <1>1, <1>2

LEMMA TypeNext == TypeInv /\ [Next]_vars => TypeInv'
<1> SUFFICES ASSUME TypeInv, [Next]_vars PROVE TypeInv'
  OBVIOUS
<1> OpOK /\ Scanning
  BY TypeParts
<1>1. CASE UNCHANGED vars
  BY <1>1 DEF vars, TypeInv, TypeOK, Sound
<1>2. ASSUME NEW p \in Handlers, Work(p)
      PROVE  TypeInv'
  <2>1. OpOK' /\ StateOK'
    BY <1>2, TypeCreate, TypeSite, TypeAccount, TypeSync DEF Work, Procs
  <2> QED
    BY <1>2, <2>1, WorkScanning, TypePartsNext
<1>3. ASSUME NEW p \in Procs, Lock(p) \/ (Publish(p) /\ p = Worker)
      PROVE  TypeInv'
  <2>1. OpOK' /\ StateOK'
    BY <1>3, TypeSync
  <2>2. op'[Worker] = op[Worker] \/ op'[Worker].at \in {"load", "idle"}
    BY <1>3, IdleSound, EndAt, GoToAt DEF Lock, Publish, Procs
  <2>3. Scanning'
    BY <1>3, <2>2 DEF Lock, Publish, Scanning
  <2> QED
    BY <2>1, <2>3, TypePartsNext
<1> QED
  BY <1>1, <1>2, <1>3, TypeCall, TypeLoop, TypeFault DEF Next, Reconcile, Procs

\* Every variable keeps its type: a status stored is one the table allows,
\* whatever order the operations, the loop and the failures come in.
THEOREM TypeCorrect == Spec => []TypeOK
<1>1. Spec => []TypeInv
  BY TypeInit, TypeNext, PTL DEF Spec
<1> QED
  BY <1>1, PTL DEF TypeInv

-----------------------------------------------------------------------------
(* The mutex, and the routes of an account that is not active.             *)

\* What a handler does without publishing, and the loop's own steps.
WorkApart(p) == Work(p) /\ ~Publish(p)
Apart(p) ==
  \/ p \in Handlers /\ (Call(p) \/ WorkApart(p))
  \/ p = Worker /\ (Tick \/ Scan \/ Fix \/ Scanned)

LEMMA ApartWork ==
  ASSUME TypeInv, NEW p \in Handlers, WorkApart(p)
  PROVE  /\ sync' = sync /\ edge' = edge
         /\ op[p].at # "load" /\ op'[p].at # "load"
         /\ \A q \in Procs \ {p} : op'[q].at = op[q].at
<1> OpOK
  BY TypeParts
<1> p \in Procs
  BY DEF Procs
<1>1. sync' = sync /\ edge' = edge /\ op[p].at \notin {"load", "idle"}
  BY DEF WorkApart, Work, Insert, Prepare, Replace, Create, BootCtr, Health, Record, Failed,
         Start, Stop, RecordStarted, RecordStopped, RecordRestarted, Mark, Remove, DeleteRow,
         List, Each, EachRow, EachDone, Purge, DeleteAccount
<1>2. op[p] \in Calls
  BY <1>1, BusyCall
<1>3. CASE DeleteRow(p) \/ DeleteAccount(p)
  <2>1. \/ End(p)
        \/ \E S \in SUBSET Sites : op' = [Orphaned(S) EXCEPT ![p].at = "lock"]
    BY <1>3 DEF DeleteRow, DeleteAccount, OpOK, SoundCall, SitePoints, At
  <2>2. ASSUME NEW S \in SUBSET Sites, op' = [Orphaned(S) EXCEPT ![p].at = "lock"]
        PROVE  op'[p].at = "lock" /\ \A q \in Procs \ {p} : op'[q].at = op[q].at
    <3>1. \A q \in Procs \ {p} : op'[q] = Orphaned(S)[q]
      BY <2>2 DEF Orphaned
    <3>2. op'[p] = [Orphaned(S)[p] EXCEPT !.at = "lock"]
      BY <2>2 DEF Orphaned
    <3>3. Orphaned(S)[p] \in Calls
      BY <1>2, OrphanedCalls
    <3>4. op'[p].at = "lock"
      BY <3>2, <3>3 DEF Calls
    <3> QED
      BY <3>1, <3>4, OrphanedCalls
  <2> QED
    BY <1>1, <2>1, <2>2, EndAt, IdleSound
<1>4. CASE ~(DeleteRow(p) \/ DeleteAccount(p))
  <2>1. \/ End(p)
        \/ \E at \in At \ {"load"} : GoTo(p, at)
        \/ Insert(p) \/ List(p) \/ Each(p) \/ EachRow(p) \/ Purge(p)
    BY <1>4
       DEF WorkApart, Work, Prepare, Replace, Create, BootCtr, Health, Record, Failed,
           Start, Stop, RecordStarted, RecordStopped, RecordRestarted, Mark, Remove, EachDone,
           GoToIfRow, At
  <2>2. CASE End(p) \/ \E at \in At \ {"load"} : GoTo(p, at)
    BY <1>1, <2>2, EndAt, GoToAt, IdleSound
  <2>3. CASE Insert(p) \/ List(p) \/ Each(p) \/ EachRow(p) \/ Purge(p)
    <3>1. \A q \in Procs \ {p} : op'[q] = op[q]
      BY <2>3 DEF Insert, List, Each, EachRow, Purge, End, OpOK
    <3>2. op'[p].at \in {"idle", "prepare", "each", "eachrow", "purge"}
      <4>1. CASE Insert(p)
        BY <1>2, <4>1, IdleSound DEF Insert, End, OpOK, Calls
      <4>2. CASE List(p) \/ EachRow(p)
        BY <1>2, <4>2 DEF List, EachRow, OpOK, Calls
      <4>3. CASE Each(p)
        BY <1>2, <4>3 DEF Each, OpOK, Calls
      <4>4. CASE Purge(p)
        BY <1>2, <4>4 DEF Purge, OpOK, Calls
      <4> QED
        BY <2>3, <4>1, <4>2, <4>3, <4>4
    <3> QED
      BY <1>1, <3>1, <3>2
  <2> QED
    BY <2>1, <2>2, <2>3
<1> QED
  BY <1>3, <1>4

LEMMA ApartStep ==
  ASSUME TypeInv, NEW p \in Procs, Apart(p)
  PROVE  /\ sync' = sync /\ edge' = edge
         /\ op[p].at # "load" /\ op'[p].at # "load"
         /\ \A q \in Procs \ {p} : op'[q].at = op[q].at
<1> OpOK
  BY TypeParts
<1>1. CASE p \in Handlers /\ Call(p)
  <2>1. op[p] = Idle /\ sync' = sync /\ edge' = edge
    BY <1>1 DEF Call, CallSite, CallDomain, CallStatus, CallTerminate, Called
  <2>2. /\ \A q \in Procs \ {p} : op'[q] = op[q]
        /\ \E kind \in Kinds : op'[p].at = First(kind)
    BY <1>1 DEF Call, CallSite, CallDomain, CallStatus, CallTerminate, Called, OpOK
  <2> QED
    BY <2>1, <2>2, FirstPoint, IdleSound
<1>2. CASE p \in Handlers /\ WorkApart(p)
  BY <1>2, ApartWork
<1>3. CASE p = Worker /\ (Tick \/ Scan \/ Fix \/ Scanned)
  <2>1. sync' = sync /\ edge' = edge
    BY <1>3 DEF Tick, Scan, Fix, Scanned
  <2>2. op[p].at \in {"idle", "scan", "fix"}
    BY <1>3, IdleSound DEF Tick, Scan, Fix, Scanned
  <2>3. \A q \in Procs \ {p} : op'[q] = op[q]
    BY <1>3 DEF Tick, Scan, Fix, Scanned, End, GoTo, OpOK
  <2>4. op'[p].at # "load"
    <3>1. CASE Tick
      BY <1>3, <3>1 DEF Tick, OpOK
    <3>2. CASE Scan
      <4>1. op[p] \in Calls /\ op[p].at = "scan"
        BY <1>3, <3>2, BusyCall DEF Scan
      <4>2. PICK s, to : \/ op' = [op EXCEPT ![p].at = "fix", ![p].on = s, ![p].to = to]
                         \/ op' = [op EXCEPT ![p].left = @ \ {s}]
        BY <1>3, <3>2 DEF Scan
      <4> QED
        BY <4>1, <4>2 DEF OpOK, Calls
    <3>3. CASE Fix
      <4>1. op[p] \in Calls
        BY <1>3, <3>3, BusyCall DEF Fix
      <4>2. op' = [op EXCEPT ![p].at = "scan", ![p].left = @ \ {op[p].on}]
        BY <1>3, <3>3 DEF Fix
      <4> QED
        BY <4>1, <4>2 DEF OpOK, Calls
    <3>4. CASE Scanned
      BY <1>3, <3>4, EndAt, GoToAt, IdleSound DEF Scanned
    <3> QED
      BY <1>3, <3>1, <3>2, <3>3, <3>4
  <2> QED
    BY <2>1, <2>2, <2>3, <2>4
<1> QED
  BY <1>1, <1>2, <1>3 DEF Apart

\* What a step can be.
LEMMA StepCases ==
  ASSUME Next
  PROVE  \/ \E p \in Procs : Apart(p) \/ Lock(p) \/ Publish(p)
         \/ \E p \in Handlers : ContextDone(p)
         \/ \E s \in Sites : CtrDies(s) \/ CtrRecovers(s)
         \/ Crash
  BY DEF Next, Reconcile, Apart, WorkApart, Procs

LEMMA MutexNext ==
  ASSUME TypeInv, MutexInv, Next
  PROVE  MutexInv'
<1> OpOK /\ StateOK
  BY TypeParts
<1> USE ProcsAssumption
<1> sync \in [by : Procs \cup {Nobody}, table : [Sites -> Route]]
  BY DEF StateOK, EdgeOK
<1>1. ASSUME NEW p \in Procs, Apart(p)
      PROVE  MutexInv'
  BY <1>1, ApartStep DEF MutexInv
<1>2. ASSUME NEW p \in Procs, Lock(p)
      PROVE  MutexInv'
  <2>1. op'[p].at = "load" /\ \A q \in Procs \ {p} : op'[q] = op[q]
    BY <1>2, GoToAt DEF Lock
  <2>2. sync.by = Nobody /\ sync'.by = p
    BY <1>2 DEF Lock
  <2> QED
    BY <2>1, <2>2 DEF MutexInv
<1>3. ASSUME NEW p \in Procs, Publish(p)
      PROVE  MutexInv'
  <2>1. op'[p] = Idle /\ \A q \in Procs \ {p} : op'[q] = op[q]
    BY <1>3, EndAt DEF Publish
  <2>2. sync.by = p /\ sync'.by = Nobody
    BY <1>3 DEF Publish, MutexInv
  <2> QED
    BY <2>1, <2>2, IdleSound DEF MutexInv
<1>4. ASSUME NEW p \in Handlers, ContextDone(p)
      PROVE  MutexInv'
  <2>1. p \in Procs
    BY DEF Procs
  <2>2. op'[p] = Idle /\ \A q \in Procs \ {p} : op'[q] = op[q]
    BY <1>4, <2>1, EndAt DEF ContextDone
  <2>3. sync'.by = IF sync.by = p THEN Nobody ELSE sync.by
    BY <1>4 DEF ContextDone
  <2> QED
    BY <2>1, <2>2, <2>3, IdleSound DEF MutexInv
<1>5. ASSUME NEW s \in Sites, CtrDies(s) \/ CtrRecovers(s)
      PROVE  MutexInv'
  BY <1>5 DEF CtrDies, CtrRecovers, MutexInv
<1>6. CASE Crash
  <2>1. \A p \in Procs : op'[p].at # "load"
    BY <1>6 DEF Crash, Idle
  <2>2. sync'.by = Nobody
    BY <1>6 DEF Crash
  <2> QED
    BY <2>1, <2>2 DEF MutexInv
<1> QED
  BY <1>1, <1>2, <1>3, <1>4, <1>5, <1>6, StepCases

\* Whoever changes the account has not read the table since.
LEMMA AcctStep ==
  ASSUME TypeInv, NEW p \in Procs, Apart(p)
  PROVE  (acct' = acct /\ ack' \in {ack, Nobody}) \/ ack' = p
<1>1. CASE p \in Handlers /\ Call(p)
  BY <1>1 DEF Call, CallSite, CallDomain, CallStatus, CallTerminate, Forgotten
<1>2. CASE p \in Handlers /\ WorkApart(p)
  BY <1>2
     DEF WorkApart, Work, Insert, Prepare, Replace, Create, BootCtr, Health, Record, Failed,
         Start, Stop, RecordStarted, RecordStopped, RecordRestarted, Mark, Remove, DeleteRow,
         List, Each, EachRow, EachDone, Purge, DeleteAccount
<1>3. CASE p = Worker /\ (Tick \/ Scan \/ Fix \/ Scanned)
  BY <1>3 DEF Tick, Scan, Fix, Scanned
<1> QED
  BY <1>1, <1>2, <1>3 DEF Apart

LEMMA SuspendNext ==
  ASSUME TypeInv, MutexInv, SuspendInv, Next
  PROVE  SuspendInv'
<1> OpOK /\ StateOK
  BY TypeParts
<1> USE ProcsAssumption
<1> sync \in [by : Procs \cup {Nobody}, table : [Sites -> Route]]
  BY DEF StateOK, EdgeOK
<1>1. ASSUME NEW p \in Procs, Apart(p)
      PROVE  SuspendInv'
  <2>1. sync.by # p /\ sync' = sync /\ edge' = edge
    BY <1>1, ApartStep DEF MutexInv
  <2>2. CASE acct' = acct /\ ack' \in {ack, Nobody}
    BY <2>1, <2>2 DEF SuspendInv, Unrouted
  <2>3. CASE ack' = p
    BY <2>1, <2>3 DEF SuspendInv
  <2> QED
    BY <1>1, <2>2, <2>3, AcctStep
<1>2. ASSUME NEW p \in Procs, Lock(p)
      PROVE  SuspendInv'
  <2>1. UNCHANGED <<acct, ack, edge>> /\ sync'.table = [s \in Sites |-> RouteOf(s)]
    BY <1>2 DEF Lock
  <2>2. acct # "active" => Unrouted(sync'.table)
    BY <2>1 DEF Unrouted, RouteOf
  <2> QED
    BY <2>1, <2>2 DEF SuspendInv, Unrouted
<1>3. ASSUME NEW p \in Procs, Publish(p)
      PROVE  SuspendInv'
  <2>1. sync.by = p /\ sync'.by = Nobody /\ acct' = acct
    BY <1>3 DEF Publish, MutexInv
  <2>2. \/ edge' = sync.table /\ ack' = IF ack = p THEN Acked ELSE ack
        \/ edge' = edge /\ ack' = ack
    BY <1>3 DEF Publish
  <2> QED
    BY <2>1, <2>2 DEF SuspendInv, Unrouted
<1>4. ASSUME NEW p \in Handlers, ContextDone(p)
      PROVE  SuspendInv'
  BY <1>4 DEF ContextDone, SuspendInv, Unrouted
<1>5. ASSUME NEW s \in Sites, CtrDies(s) \/ CtrRecovers(s)
      PROVE  SuspendInv'
  BY <1>5 DEF CtrDies, CtrRecovers, SuspendInv, Unrouted
<1>6. CASE Crash
  BY <1>6 DEF Crash, SuspendInv, Unrouted
<1> QED
  BY <1>1, <1>2, <1>3, <1>4, <1>5, <1>6, StepCases

\* Whatever runs beside it or comes later, a suspension or termination that
\* has returned nil has taken every domain of the account off the edge, and
\* no publication brings one back before a reactivation.
THEOREM SuspensionHolds == Spec => []SuspensionUnroutes
<1> DEFINE J == TypeInv /\ MutexInv /\ SuspendInv
<1>1. Init => J
  BY TypeInit, ProcsAssumption, IdleSound DEF Init, MutexInv, SuspendInv
<1>2. J /\ [Next]_vars => J'
  <2>1. CASE Next
    BY <2>1, TypeNext, MutexNext, SuspendNext
  <2>2. CASE UNCHANGED vars
    BY <2>2, TypeNext DEF vars, MutexInv, SuspendInv, Unrouted
  <2> QED
    BY <2>1, <2>2
<1>3. J => SuspensionUnroutes
  BY DEF SuspendInv, SuspensionUnroutes, Unrouted
<1> QED
  BY <1>1, <1>2, <1>3, PTL DEF Spec

-----------------------------------------------------------------------------
(* What the edge owes the rows.                                            *)

LEMMA StatusField ==
  ASSUME SiteOK, NEW s \in Sites, NEW status, site' = [site EXCEPT ![s].status = status]
  PROVE  /\ site'[s].status = status
         /\ \A r \in Sites \ {s} : site'[r] = site[r]
         /\ site'[s].dom = site[s].dom
<1>1. site'[s] = [site[s] EXCEPT !.status = status]
  BY DEF SiteOK
<1>2. CASE site[s] = NoRow
  <2>1. site'[s] = [NoRow EXCEPT !.status = status]
    BY <1>1, <1>2
  <2> QED
    BY <1>2, <2>1 DEF NoRow, SiteOK
<1>3. CASE site[s] \in [status : Status, up : BOOLEAN, dom : BOOLEAN]
  BY <1>1, <1>3 DEF SiteOK
<1> QED
  BY <1>2, <1>3 DEF SiteOK, SiteRow

\* A step of p that neither loads nor locks leaves a site covered when p
\* still owes it a publication, marks it, or changes nothing about its route.
LEMMA CoveredKept ==
  ASSUME NEW p \in Procs, NEW s \in Sites, Covered(s), sync' = sync, edge' = edge,
         \/ Owes(p, s)'
         \/ site'[s].status = "error"
         \/ /\ \A q \in Procs \ {p} : op'[q] = op[q]
            /\ ~Owes(p, s) /\ RouteOf(s)' = RouteOf(s)
            /\ s \in Rows => s \in Rows'
            /\ site[s].status = "error" => site'[s].status = "error"
  PROVE  Covered(s)'
<1>1. CASE Owes(p, s)' \/ site'[s].status = "error"
  BY <1>1 DEF Covered
<1>2. CASE /\ \A q \in Procs \ {p} : op'[q] = op[q]
           /\ ~Owes(p, s) /\ RouteOf(s)' = RouteOf(s)
           /\ s \in Rows => s \in Rows'
           /\ site[s].status = "error" => site'[s].status = "error"
  <2>1. CASE site[s].status = "error"
    BY <1>2, <2>1 DEF Covered
  <2>2. ASSUME NEW q \in Procs, Owes(q, s)
        PROVE  Owes(q, s)'
    <3>1. q # p
      BY <1>2, <2>2
    <3> QED
      BY <1>2, <2>2, <3>1 DEF Owes, HasRow
  <2>3. Served(s)' = Served(s)
    BY DEF Served
  <2> QED
    BY <1>2, <2>1, <2>2, <2>3 DEF Covered
<1> QED
  BY <1>1, <1>2

\* In particular when the step writes no row.
LEMMA CoveredStay ==
  ASSUME NEW p \in Procs, NEW s \in Sites, Covered(s), sync' = sync, edge' = edge,
         site' = site, acct' = acct, \A q \in Procs \ {p} : op'[q] = op[q],
         Owes(p, s) => Owes(p, s)'
  PROVE  Covered(s)'
<1>1. RouteOf(s)' = RouteOf(s) /\ Rows' = Rows
  BY DEF RouteOf, Rows
<1> QED
  BY <1>1, CoveredKept

LEMMA CoverCall ==
  ASSUME TypeInv, NEW p \in Handlers, Call(p), NEW s \in Sites, Covered(s)
  PROVE  Covered(s)'
<1> OpOK
  BY TypeParts
<1> p \in Procs
  BY DEF Procs
<1>1. /\ op[p] = Idle /\ sync' = sync /\ edge' = edge
      /\ \A q \in Procs \ {p} : op'[q] = op[q]
  BY DEF Call, CallSite, CallDomain, CallStatus, CallTerminate, Called, OpOK
<1>2. ~Owes(p, s)
  BY <1>1 DEF Owes, Idle
<1>3. CASE site' = site /\ acct' = acct
  BY <1>1, <1>2, <1>3, CoveredStay
<1>4. ASSUME NEW kind \in Kinds \cap DomainKinds, NEW t \in Sites, CallDomain(p, kind, t)
      PROVE  Covered(s)'
  <2>1. op'[p].at = First(kind)
    BY <1>4 DEF CallDomain, Called, OpOK
  <2>2. First(kind) = "lock"
    BY <1>4 DEF First, DomainKinds
  <2> QED
    BY <1>1, <2>1, <2>2, CoveredKept DEF Owes
<1>5. ASSUME NEW kind \in Kinds \cap {"suspend", "unsuspend"}, CallStatus(p, kind)
      PROVE  Covered(s)'
  <2>1. op'[p].at = First(kind)
    BY <1>5 DEF CallStatus, Called, OpOK
  <2>2. First(kind) = "list"
    BY <1>5 DEF First, DomainKinds
  <2> QED
    BY <1>1, <2>1, <2>2, CoveredKept DEF Owes
<1> QED
  BY <1>3, <1>4, <1>5 DEF Call, CallSite, CallTerminate

LEMMA CoverCreate ==
  ASSUME TypeInv, NEW p \in Handlers, faults' = 0, faults \in Nat,
         \/ Insert(p) \/ Prepare(p) \/ Replace(p) \/ Create(p) \/ BootCtr(p) \/ Health(p)
         \/ Record(p) \/ Failed(p),
         NEW s \in Sites, Covered(s)
  PROVE  Covered(s)'
<1> OpOK /\ StateOK
  BY TypeParts
<1> p \in Procs
  BY DEF Procs
<1> ~Fault
  BY DEF Fault
<1> DEFINE t == op[p].on
<1>1. /\ sync' = sync /\ edge' = edge /\ acct' = acct
      /\ op[p].at # "idle" /\ op[p].at \in SitePoints /\ t \in Sites
  BY DEF Insert, Prepare, Replace, Create, BootCtr, Health, Record, Failed, OpOK, SoundCall,
         SitePoints, At
<1>2. op[p] \in Calls
  BY <1>1, BusyCall
<1>3. \A q \in Procs \ {p} : op'[q] = op[q]
  BY DEF Insert, Prepare, Replace, Create, BootCtr, Health, Record, Failed, GoTo, End, OpOK
<1>4. CASE Insert(p)
  <2>1. ~Owes(p, s)
    BY <1>4 DEF Insert, Owes
  <2>2. CASE site' = site
    BY <1>1, <1>3, <2>1, <2>2, CoveredStay
  <2>3. CASE site' # site
    <3>1. t \notin Rows /\ site' = [site EXCEPT ![t] = [NoRow EXCEPT !.status = "provisioning"]]
      BY <1>4, <2>3 DEF Insert
    <3>2. site'[t].status = "provisioning" /\ site[t].status = "none"
      BY <1>1, <3>1 DEF StateOK, SiteOK, Rows, NoRow
    <3>3. \A r \in Sites \ {t} : site'[r] = site[r]
      BY <3>1 DEF StateOK, SiteOK
    <3>4. RouteOf(s)' = RouteOf(s)
      BY <1>1, <3>2, <3>3 DEF RouteOf
    <3> QED
      BY <1>1, <1>3, <2>1, <3>2, <3>3, <3>4, CoveredKept DEF Rows
  <2> QED
    BY <2>2, <2>3
<1>5. CASE Prepare(p)
  <2>1. ~Owes(p, s)
    BY <1>5 DEF Prepare, Owes
  <2>2. CASE site' = site
    BY <1>1, <1>3, <2>1, <2>2, CoveredStay
  <2>3. CASE site' # site
    <3>1. HasRow(p, t) /\ site' = [site EXCEPT ![t].dom = TRUE] /\ GoTo(p, "replace")
      BY <1>5, <2>3 DEF Prepare
    <3>2. op'[p].at = "replace" /\ op'[p].on = t /\ op'[p].gone = op[p].gone
      BY <1>1, <3>1, GoToAt
    <3>3. /\ site'[t].status = site[t].status
          /\ \A r \in Sites \ {t} : site'[r] = site[r]
      BY <3>1 DEF StateOK, SiteOK, SiteRow, NoRow
    <3>4. HasRow(p, t)'
      BY <3>1, <3>2, <3>3 DEF HasRow, Rows
    <3>5. CASE s = t
      BY <1>1, <3>2, <3>4, <3>5, CoveredKept DEF Owes
    <3>6. CASE s # t
      BY <1>1, <1>3, <2>1, <3>3, <3>6, CoveredKept DEF RouteOf, Rows
    <3> QED
      BY <3>5, <3>6
  <2> QED
    BY <2>2, <2>3
<1>6. CASE Replace(p) \/ Create(p) \/ BootCtr(p) \/ Health(p)
  <2>1. site' = site
    BY <1>6 DEF Replace, Create, BootCtr, Health
  <2>2. /\ \E at \in {"create", "boot", "health", "record", "failed"} : GoTo(p, at)
        /\ op[p].at \in {"replace", "create", "boot", "health"}
    BY <1>6 DEF Replace, Create, BootCtr, Health
  <2>3. /\ op'[p].at \in {"create", "boot", "health", "record", "failed"}
        /\ op'[p].on = t /\ op'[p].gone = op[p].gone
    BY <1>1, <2>2, GoToAt
  <2>4. Owes(p, s) => Owes(p, s)'
    BY <2>1, <2>2, <2>3 DEF Owes, HasRow, Rows
  <2> QED
    BY <1>1, <1>3, <2>1, <2>4, CoveredStay
<1>7. CASE Record(p)
  <2>1. CASE HasRow(p, t)
    <3>1. op'[p].at = "lock"
      BY <1>1, <1>7, <2>1, GoToAt DEF Record
    <3> QED
      BY <1>1, <3>1, CoveredKept DEF Owes
  <2>2. CASE ~HasRow(p, t)
    <3>1. site' = site /\ ~Owes(p, s)
      BY <1>7, <2>2 DEF Record, Owes
    <3> QED
      BY <1>1, <1>3, <3>1, CoveredStay
  <2> QED
    BY <2>1, <2>2
<1>8. CASE Failed(p)
  <2>1. CASE HasRow(p, t) /\ s = t
    <3>1. site' = [site EXCEPT ![s].status = "error"]
      BY <1>8, <2>1 DEF Failed, SetStatus
    <3>2. site'[s].status = "error"
      BY <3>1, StatusField DEF StateOK
    <3> QED
      BY <1>1, <3>2, CoveredKept
  <2>2. CASE ~(HasRow(p, t) /\ s = t)
    <3>1. ~Owes(p, s)
      BY <1>8, <2>2 DEF Failed, Owes
    <3>2. site'[s] = site[s]
      BY <1>8, <2>2 DEF Failed, SetStatus, StateOK, SiteOK
    <3> QED
      BY <1>1, <1>3, <3>1, <3>2, CoveredKept DEF RouteOf, Rows
  <2> QED
    BY <2>1, <2>2
<1> QED
  BY <1>4, <1>5, <1>6, <1>7, <1>8

LEMMA CoverSite ==
  ASSUME TypeInv, NEW p \in Handlers, faults' = 0, faults \in Nat, "restart" \notin Kinds,
         \/ Start(p) \/ Stop(p) \/ RecordStarted(p) \/ RecordStopped(p)
         \/ RecordRestarted(p) \/ Mark(p) \/ Remove(p) \/ DeleteRow(p),
         NEW s \in Sites, Covered(s)
  PROVE  Covered(s)'
<1> OpOK /\ StateOK
  BY TypeParts
<1> p \in Procs
  BY DEF Procs
<1> ~Fault
  BY DEF Fault
<1> DEFINE t == op[p].on
<1>1. /\ sync' = sync /\ edge' = edge /\ acct' = acct
      /\ op[p].at # "idle" /\ op[p].at \in SitePoints /\ t \in Sites
  BY DEF Start, Stop, RecordStarted, RecordStopped, RecordRestarted, Mark, Remove, DeleteRow,
         OpOK, SoundCall, SitePoints, At
<1>2. op[p].at \notin {"restart", "restarted"}
  BY DEF OpOK, SoundCall
<1>3. CASE Start(p) \/ Stop(p)
  <2>1. site' = site /\ ~Owes(p, s)
    BY <1>2, <1>3 DEF Start, Stop, Owes
  <2>2. \A q \in Procs \ {p} : op'[q] = op[q]
    BY <1>3 DEF Start, Stop, GoTo, End, OpOK
  <2> QED
    BY <1>1, <2>1, <2>2, CoveredStay
<1>4. CASE RecordStarted(p) \/ RecordStopped(p)
  <2>1. CASE HasRow(p, t)
    <3>1. op'[p].at = "lock"
      BY <1>1, <1>4, <2>1, GoToAt DEF RecordStarted, RecordStopped, GoToIfRow
    <3> QED
      BY <1>1, <3>1, CoveredKept DEF Owes
  <2>2. CASE ~HasRow(p, t)
    <3>1. site' = site /\ ~Owes(p, s)
      BY <1>4, <2>2 DEF RecordStarted, RecordStopped, SetStatus, Owes
    <3>2. \A q \in Procs \ {p} : op'[q] = op[q]
      BY <1>4 DEF RecordStarted, RecordStopped, GoToIfRow, GoTo, End, OpOK
    <3> QED
      BY <1>1, <3>1, <3>2, CoveredStay
  <2> QED
    BY <2>1, <2>2
<1>5. CASE Mark(p)
  <2>1. /\ op'[p].at = "remove" /\ op'[p].on = t /\ op'[p].gone = op[p].gone
        /\ \A q \in Procs \ {p} : op'[q] = op[q]
    BY <1>1, <1>5, GoToAt DEF Mark
  <2>2. ~Owes(p, s)
    BY <1>5 DEF Mark, Owes
  <2>3. CASE site' = site
    BY <1>1, <2>1, <2>2, <2>3, CoveredStay
  <2>4. CASE site' # site
    <3>1. HasRow(p, t) /\ site' = [site EXCEPT ![t].status = "deleting"]
      BY <1>5, <2>4 DEF Mark, SetStatus
    <3>2. site'[t].status = "deleting" /\ \A r \in Sites \ {t} : site'[r] = site[r]
      BY <1>1, <3>1, StatusField DEF StateOK
    <3>3. CASE s = t
      <4>1. HasRow(p, t)'
        BY <1>1, <2>1, <3>1, <3>2 DEF HasRow, Rows
      <4> QED
        BY <1>1, <2>1, <3>3, <4>1, CoveredKept DEF Owes
    <3>4. CASE s # t
      BY <1>1, <2>1, <2>2, <3>2, <3>4, CoveredKept DEF RouteOf, Rows
    <3> QED
      BY <3>3, <3>4
  <2> QED
    BY <2>3, <2>4
<1>6. CASE Remove(p)
  <2>1. /\ op'[p].at = "deleterow" /\ op'[p].on = t /\ op'[p].gone = op[p].gone
        /\ \A q \in Procs \ {p} : op'[q] = op[q]
    BY <1>1, <1>6, GoToAt DEF Remove
  <2>2. Owes(p, s) => Owes(p, s)'
    BY <1>6, <2>1 DEF Remove, Owes, HasRow, Rows
  <2> QED
    BY <1>1, <1>6, <2>1, <2>2, CoveredStay DEF Remove
<1>7. CASE DeleteRow(p)
  <2>1. CASE HasRow(p, t)
    <3>1. op' = [Orphaned({t}) EXCEPT ![p].at = "lock"]
      BY <1>7, <2>1 DEF DeleteRow
    <3>2. op'[p].at = "lock"
      BY <1>1, <3>1, OrphanedAt
    <3> QED
      BY <1>1, <3>2, CoveredKept DEF Owes
  <2>2. CASE ~HasRow(p, t)
    <3>1. site' = site /\ ~Owes(p, s) /\ End(p)
      BY <1>7, <2>2 DEF DeleteRow, Owes
    <3> QED
      BY <1>1, <3>1, EndAt, CoveredStay
  <2> QED
    BY <2>1, <2>2
<1> QED
  BY <1>2, <1>3, <1>4, <1>5, <1>6, <1>7 DEF RecordRestarted

LEMMA CoverAccount ==
  ASSUME TypeInv, NEW p \in Handlers,
         \/ List(p) \/ Each(p) \/ EachRow(p) \/ EachDone(p) \/ Purge(p) \/ DeleteAccount(p),
         NEW s \in Sites, Covered(s)
  PROVE  Covered(s)'
<1> OpOK /\ StateOK
  BY TypeParts
<1> p \in Procs
  BY DEF Procs
<1>1. /\ sync' = sync /\ edge' = edge /\ op[p].at # "idle"
      /\ op[p] \in Calls
  BY BusyCall DEF List, Each, EachRow, EachDone, Purge, DeleteAccount
<1>2. CASE List(p) \/ EachRow(p)
  <2>1. op'[p].at = "each"
    BY <1>1, <1>2 DEF List, EachRow, OpOK, Calls
  <2> QED
    BY <1>1, <2>1, CoveredKept DEF Owes
<1>3. CASE Each(p)
  <2>1. op'[p].at = "eachrow"
    <3>1. PICK r \in op[p].left, to \in Status :
            op' = [op EXCEPT ![p].at = "eachrow", ![p].on = r, ![p].to = to]
      BY <1>3 DEF Each, Status
    <3> QED
      BY <1>1, <3>1 DEF OpOK, Calls
  <2> QED
    BY <1>1, <2>1, CoveredKept DEF Owes
<1>4. CASE EachDone(p)
  <2>1. op'[p].at = "lock"
    BY <1>1, <1>4, GoToAt DEF EachDone
  <2> QED
    BY <1>1, <2>1, CoveredKept DEF Owes
<1>5. CASE Purge(p)
  <2>1. ~Owes(p, s) /\ site' = site /\ acct' = acct
    BY <1>5 DEF Purge, Owes
  <2>2. \A q \in Procs \ {p} : op'[q] = op[q]
    BY <1>5 DEF Purge, OpOK
  <2> QED
    BY <1>1, <2>1, <2>2, CoveredStay
<1>6. CASE DeleteAccount(p)
  <2>1. CASE acct = "none"
    <3>1. ~Owes(p, s) /\ site' = site /\ acct' = acct /\ End(p)
      BY <1>6, <2>1 DEF DeleteAccount, Owes
    <3> QED
      BY <1>1, <3>1, EndAt, CoveredStay
  <2>2. CASE acct # "none"
    <3>1. op' = [Orphaned(Sites) EXCEPT ![p].at = "lock"]
      BY <1>6, <2>2 DEF DeleteAccount
    <3>2. op'[p].at = "lock"
      BY <1>1, <3>1, OrphanedAt
    <3> QED
      BY <1>1, <3>2, CoveredKept DEF Owes
  <2> QED
    BY <2>1, <2>2
<1> QED
  BY <1>2, <1>3, <1>4, <1>5, <1>6

LEMMA CoverLoop ==
  ASSUME TypeInv, Tick \/ Scan \/ Fix \/ Scanned, faults' = 0, faults \in Nat,
         NEW s \in Sites, Covered(s)
  PROVE  Covered(s)'
<1> OpOK /\ StateOK
  BY TypeParts
<1> Worker \in Procs
  BY DEF Procs
<1> ~Fault
  BY DEF Fault
<1>1. /\ sync' = sync /\ edge' = edge /\ acct' = acct
      /\ \A q \in Procs \ {Worker} : op'[q] = op[q]
  BY DEF Tick, Scan, Fix, Scanned, End, GoTo, OpOK
<1>2. CASE Tick
  <2>1. ~Owes(Worker, s) /\ site' = site
    BY <1>2 DEF Tick, Owes, Idle
  <2> QED
    BY <1>1, <2>1, CoveredStay
<1>3. CASE Scan
  <2>1. op[Worker] \in Calls /\ op[Worker].at = "scan" /\ site' = site
    BY <1>3, BusyCall DEF Scan
  <2>2. PICK r \in op[Worker].left :
          \/ op' = [op EXCEPT ![Worker].at = "fix", ![Worker].on = r,
                              ![Worker].to = WantFor(ctr[r].state, view[r])]
          \/ op' = [op EXCEPT ![Worker].left = @ \ {r}]
    BY <1>3 DEF Scan
  <2>3. CASE op' = [op EXCEPT ![Worker].left = @ \ {r}]
    <3>1. op'[Worker].at = "scan" /\ op'[Worker].to = op[Worker].to
      BY <2>1, <2>3 DEF OpOK, Calls
    <3> QED
      BY <1>1, <2>1, <3>1, CoveredStay DEF Owes
  <2>4. CASE op' = [op EXCEPT ![Worker].at = "fix", ![Worker].on = r,
                              ![Worker].to = WantFor(ctr[r].state, view[r])]
    <3>1. op'[Worker].at = "fix"
      BY <2>1, <2>4 DEF OpOK, Calls
    <3> QED
      BY <1>1, <3>1, CoveredKept DEF Owes
  <2> QED
    BY <2>2, <2>3, <2>4
<1>4. CASE Fix
  <2>1. op[Worker] \in Calls /\ op[Worker].to \in Status
    BY <1>4, BusyCall DEF Fix, OpOK, SoundCall
  <2>2. op'[Worker].at = "scan" /\ op'[Worker].to = op[Worker].to
    BY <1>4, <2>1 DEF Fix, OpOK, Calls
  <2>3. Owes(Worker, s)'
    BY <2>1, <2>2 DEF Owes, Status
  <2> QED
    BY <1>1, <2>3, CoveredKept
<1>5. CASE Scanned
  <2>1. site' = site
    BY <1>5 DEF Scanned
  <2>2. CASE op[Worker].to = "none"
    <3>1. ~Owes(Worker, s)
      BY <1>5, <2>2 DEF Scanned, Owes
    <3> QED
      BY <1>1, <2>1, <3>1, CoveredStay
  <2>3. CASE op[Worker].to # "none"
    <3>1. op'[Worker].at = "lock"
      BY <1>5, <2>3, GoToAt DEF Scanned
    <3> QED
      BY <1>1, <3>1, CoveredKept DEF Owes
  <2> QED
    BY <2>2, <2>3
<1> QED
  BY <1>2, <1>3, <1>4, <1>5

\* The table read under the mutex is what the rows say.
LEMMA CoverLock ==
  ASSUME TypeInv, NEW p \in Procs, Lock(p), NEW s \in Sites
  PROVE  Covered(s)'
<1>1. sync'.by = p /\ sync'.table[s] = RouteOf(s) /\ p # Nobody
  BY ProcsAssumption DEF Lock
<1>2. RouteOf(s)' = RouteOf(s)
  BY DEF Lock, RouteOf
<1> QED
  BY <1>1, <1>2 DEF Covered, Served

\* A load makes the route live that was to be.
LEMMA CoverPublish ==
  ASSUME TypeInv, MutexInv, NEW p \in Procs, Publish(p), faults' = 0, faults \in Nat,
         NEW s \in Sites, Covered(s)
  PROVE  Covered(s)'
<1> OpOK /\ StateOK
  BY TypeParts
<1>1. edge' = sync.table /\ site' = site /\ acct' = acct
  BY DEF Publish, Fault
<1>2. sync.by = p /\ sync'.by = Nobody /\ p # Nobody
  BY ProcsAssumption DEF Publish, MutexInv, StateOK, EdgeOK
<1>3. Served(s)' = Served(s) /\ RouteOf(s)' = RouteOf(s)
  BY <1>1, <1>2 DEF Served, RouteOf
<1>4. ASSUME NEW q \in Procs, Owes(q, s)
      PROVE  Owes(q, s)'
  <2>1. q # p
    BY <1>4 DEF Publish, Owes
  <2>2. op'[q] = op[q]
    BY <2>1, EndAt DEF Publish
  <2> QED
    BY <1>1, <1>4, <2>2 DEF Owes, HasRow, Rows
<1> QED
  BY <1>1, <1>3, <1>4 DEF Covered

\* A step either works or counts as a fault.
LEMMA StepWorks ==
  ASSUME Next
  PROVE  faults' = faults \/ Fault
<1>1. ASSUME NEW p \in Handlers, Call(p) \/ ContextDone(p)
      PROVE  faults' = faults \/ Fault
  BY <1>1 DEF Call, CallSite, CallDomain, CallStatus, CallTerminate, Called, ContextDone
<1>2. ASSUME NEW p \in Handlers, Work(p)
      PROVE  faults' = faults \/ Fault
  <2>1. CASE \/ Insert(p) \/ Prepare(p) \/ Replace(p) \/ Create(p) \/ BootCtr(p)
             \/ Health(p) \/ Record(p) \/ Failed(p)
    BY <2>1 DEF Insert, Prepare, Replace, Create, BootCtr, Health, Record, Failed, Works
  <2>2. CASE \/ Start(p) \/ Stop(p) \/ RecordStarted(p) \/ RecordStopped(p)
             \/ RecordRestarted(p) \/ Mark(p) \/ Remove(p) \/ DeleteRow(p)
    BY <2>2 DEF Start, Stop, RecordStarted, RecordStopped, RecordRestarted, Mark, Remove,
                DeleteRow, Works
  <2>3. CASE \/ List(p) \/ Each(p) \/ EachRow(p) \/ EachDone(p) \/ Purge(p)
             \/ DeleteAccount(p)
    BY <2>3 DEF List, Each, EachRow, EachDone, Purge, DeleteAccount, Works
  <2>4. CASE Publish(p)
    BY <2>4 DEF Publish, Works
  <2> QED
    BY <1>2, <2>1, <2>2, <2>3, <2>4 DEF Work
<1>3. ASSUME NEW p \in Procs, Lock(p)
      PROVE  faults' = faults \/ Fault
  BY <1>3 DEF Lock
<1>4. CASE Reconcile
  BY <1>4 DEF Reconcile, Tick, Scan, Fix, Scanned, Publish, Works
<1>5. ASSUME NEW s \in Sites, CtrDies(s) \/ CtrRecovers(s)
      PROVE  faults' = faults \/ Fault
  BY <1>5 DEF CtrDies, CtrRecovers
<1>6. CASE Crash
  BY <1>6 DEF Crash
<1> QED
  BY <1>1, <1>2, <1>3, <1>4, <1>5, <1>6 DEF Next

LEMMA CoverNext ==
  ASSUME TypeInv, MutexInv, CoverInv, Next
  PROVE  CoverInv'
<1> SUFFICES ASSUME faults' = 0, "restart" \notin Kinds, NEW s \in Sites
             PROVE  Covered(s)'
  BY DEF CoverInv
<1>1. StateOK /\ RestOK'
  BY TypeParts, TypePartsNext, TypeNext DEF StateOK
<1>2. faults \in Nat
  BY <1>1, BoundsAssumption DEF StateOK, RestOK
<1>3. ~Fault
  BY <1>2 DEF Fault
<1>4. faults = 0
  BY <1>3, StepWorks
<1>5. Covered(s)
  BY <1>4 DEF CoverInv
<1>6. ASSUME NEW p \in Handlers, WorkApart(p)
      PROVE  Covered(s)'
  BY <1>2, <1>5, <1>6, CoverCreate, CoverSite, CoverAccount DEF WorkApart, Work
<1>7. ASSUME NEW p \in Procs, Apart(p)
      PROVE  Covered(s)'
  BY <1>2, <1>5, <1>6, <1>7, CoverCall, CoverLoop DEF Apart
<1>8. ASSUME NEW p \in Procs, Lock(p) \/ Publish(p)
      PROVE  Covered(s)'
  BY <1>2, <1>5, <1>8, CoverLock, CoverPublish
<1>9. ASSUME NEW r \in Sites, CtrRecovers(r)
      PROVE  Covered(s)'
  BY <1>5, <1>9 DEF CtrRecovers, Covered, Served, RouteOf, Owes, HasRow, Rows
<1> QED
  BY <1>3, <1>7, <1>8, <1>9, StepCases DEF ContextDone, CtrDies, Crash

LEMMA Invariance == Spec => []IInv
<1>1. Init => IInv
  BY TypeInit, ProcsAssumption, IdleSound
     DEF Init, IInv, TypeInv, MutexInv, SuspendInv, CoverInv, Covered, Served, RouteOf, NoRow
<1>2. IInv /\ [Next]_vars => IInv'
  <2> SUFFICES ASSUME IInv, [Next]_vars PROVE IInv'
    OBVIOUS
  <2> TypeInv /\ MutexInv /\ SuspendInv /\ CoverInv
    BY DEF IInv, TypeInv
  <2>1. TypeInv'
    BY TypeNext
  <2>2. CASE Next
    BY <2>1, <2>2, MutexNext, SuspendNext, CoverNext DEF IInv, TypeInv
  <2>3. CASE UNCHANGED vars
    BY <2>1, <2>3
       DEF vars, IInv, TypeInv, MutexInv, SuspendInv, Unrouted, CoverInv, Covered, Served,
           RouteOf, Owes, HasRow, Rows
  <2> QED
    BY <2>2, <2>3
<1> QED
  BY <1>1, <1>2, PTL DEF Spec

\* When nothing is under way and nothing has failed, the edge does for every
\* site that is not in error what its row says, wherever RestartSite, which
\* does not publish, is not used.
THEOREM QuietEdge == Spec => []QuietEdgeMatches
<1>1. IInv => QuietEdgeMatches
  <2> SUFFICES ASSUME IInv, Quiet, faults = 0, "restart" \notin Kinds,
                      NEW s \in Sites, site[s].status # "error"
               PROVE  edge[s] = RouteOf(s)
    BY DEF QuietEdgeMatches
  <2>1. TypeInv /\ MutexInv /\ Covered(s)
    BY DEF IInv, TypeInv, CoverInv
  <2>2. \A p \in Procs : ~Owes(p, s) /\ op[p].at # "load"
    BY DEF Quiet, Idle, Owes
  <2>3. sync.by = Nobody
    BY <2>1, <2>2, TypeParts DEF MutexInv, StateOK, EdgeOK
  <2> QED
    BY <2>1, <2>2, <2>3 DEF Covered, Served
<1> QED
  BY <1>1, Invariance, PTL
=============================================================================
