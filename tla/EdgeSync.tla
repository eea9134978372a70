------------------------------ MODULE EdgeSync ------------------------------
(***************************************************************************)
(* Publication of the routing table: Service.SyncCaddy, the operations     *)
(* that commit a change and then call it, the panel's boot and crash, the  *)
(* `gocpd synccaddy` command, and the admin API of the edge proxy.         *)
(*                                                                         *)
(* The content of the routing table is abstracted to its version: `db`     *)
(* grows by one with every committed change that affects routing, and a    *)
(* configuration is the version of the table it was built from.            *)
(***************************************************************************)
EXTENDS Naturals, Sequences

CONSTANTS
  Callers,          \* panel goroutines that change sites and call SyncCaddy
  Boot,             \* the panel's main goroutine, which publishes at start-up
  Cli,              \* `gocpd synccaddy` processes, beside the panel
  NoOne,            \* neither a process nor a waiting client
  MaxWrites,        \* bound on the number of routing tables
  MaxInFlight,      \* bound on the configurations on their way to the edge
  MaxCrashes,       \* bound on the panel's crashes
  MaxEdgeRestarts   \* bound on the edge proxy's restarts

Panel == Callers \cup {Boot}
Procs == Panel \cup Cli

ASSUME ProcsAssumption ==
  /\ Boot \notin Callers
  /\ Cli \cap Panel = {}
  /\ NoOne \notin Procs

ASSUME BoundsAssumption ==
  /\ MaxWrites \in Nat \ {0}
  /\ MaxInFlight \in Nat /\ MaxCrashes \in Nat /\ MaxEdgeRestarts \in Nat

VARIABLES
  phase,         \* of the panel's process: "down", "booting", "serving"
  db,            \* version of the routing table in PostgreSQL
  edge,          \* version the edge serves, 0 for its bootstrap Caddyfile
  caddyMu,       \* holder of the panel's Service.caddyMu, or NoOne
  pc,            \* where each process is
  floor,         \* version that must be live once its call has succeeded
  snap,          \* version RoutingTable returned to it
  inbox,         \* POST /load requests the edge has not yet worked off
  crashes,       \* crashes of the panel so far
  edgeRestarts   \* restarts of the edge so far

vars == <<phase, db, edge, caddyMu, pc, floor, snap, inbox, crashes, edgeRestarts>>
counters == <<crashes, edgeRestarts>>

\* A process not inside SyncCaddy, by how its last operation ended:
\*   "idle"      none since its process started
\*   "ok"        SyncCaddy returned nil
\*   "error"     SyncCaddy returned an error
\*   "unsynced"  it changed the table and did not call SyncCaddy
Resting  == {"idle", "ok", "error", "unsynced"}
Critical == {"read", "load", "wait", "applied", "rejected"}

\* Besides the types: caddyMu is only ever held by somebody inside SyncCaddy
\* (its unlock is deferred), and a process that is gone waits for nothing.
TypeOK ==
  /\ phase \in {"down", "booting", "serving"}
  /\ db \in 1 .. MaxWrites
  /\ edge \in 0 .. MaxWrites
  /\ caddyMu \in Panel \cup {NoOne}
  /\ pc \in [Procs -> Resting \cup {"lock"} \cup Critical]
  /\ floor \in [Procs -> 0 .. MaxWrites]
  /\ snap \in [Procs -> 0 .. MaxWrites]
  /\ inbox \in Seq([by : Procs \cup {NoOne}, ver : 0 .. MaxWrites])
  /\ crashes \in 0 .. MaxCrashes
  /\ edgeRestarts \in 0 .. MaxEdgeRestarts
  /\ caddyMu # NoOne => phase # "down" /\ pc[caddyMu] \in Critical
  /\ phase = "down" => \A p \in Panel : pc[p] # "lock"

Init ==
  /\ phase = "down"
  /\ db = 1
  /\ edge = 0
  /\ caddyMu = NoOne
  /\ pc = [p \in Procs |-> "idle"]
  /\ floor = [p \in Procs |-> 0]
  /\ snap = [p \in Procs |-> 0]
  /\ inbox = <<>>
  /\ crashes = 0
  /\ edgeRestarts = 0

-----------------------------------------------------------------------------
(* Entering and leaving SyncCaddy.                                         *)

\* A load nobody waits for any more stays on its way to the edge.
Disown(Q) ==
  [i \in DOMAIN inbox |->
     IF inbox[i].by \in Q THEN [inbox[i] EXCEPT !.by = NoOne] ELSE inbox[i]]

\* Mutant: an error path returns without the unlock.
Mutant_LeaveKeepingMutex(p, outcome) ==
  /\ pc' = [pc EXCEPT ![p] = outcome]
  /\ caddyMu' = IF outcome = "error" THEN caddyMu
                ELSE IF caddyMu = p THEN NoOne ELSE caddyMu
  /\ phase' = IF p = Boot THEN "serving" ELSE phase

\* Mutant: the panel exits when its first publication fails.
Mutant_LeaveBootOnError(p, outcome) ==
  /\ pc' = [pc EXCEPT ![p] = outcome]
  /\ caddyMu' = IF caddyMu = p THEN NoOne ELSE caddyMu
  /\ phase' = IF p # Boot THEN phase ELSE IF outcome = "ok" THEN "serving" ELSE "down"

\* SyncCaddy returns: the deferred unlock runs on every path.  After its own
\* call, successful or not, the main goroutine starts the worker and the
\* HTTP server.
Leave(p, outcome) ==
  /\ pc' = [pc EXCEPT ![p] = outcome]
  /\ caddyMu' = IF caddyMu = p THEN NoOne ELSE caddyMu
  /\ phase' = IF p = Boot THEN "serving" ELSE phase

\* The HTTP server and the worker loops run once the boot call has returned.
MayStart(p) == p \in Callers /\ phase = "serving" /\ pc[p] \in Resting

\* StopSite, StartSite, DeleteSite, AddDomain, SuspendAccount, a reconcile
\* pass that corrected a row...: the last write commits, SyncCaddy is called.
Write(p) ==
  /\ MayStart(p) /\ db < MaxWrites
  /\ db' = db + 1
  /\ floor' = [floor EXCEPT ![p] = db']
  /\ pc' = [pc EXCEPT ![p] = "lock"]
  /\ UNCHANGED <<phase, edge, caddyMu, snap, inbox, counters>>

\* RestartSite, and the error paths of StartSite and RedeploySite: the
\* status of the site changes and the operation returns without publishing.
WriteUnsynced(p) ==
  /\ MayStart(p) /\ db < MaxWrites
  /\ db' = db + 1
  /\ floor' = [floor EXCEPT ![p] = db']
  /\ pc' = [pc EXCEPT ![p] = "unsynced"]
  /\ UNCHANGED <<phase, edge, caddyMu, snap, inbox, counters>>

\* SyncCaddy with nothing written before: POST /system/caddy/sync, and the
\* `gocpd synccaddy` command, which runs whatever the panel is doing.
Call(p) ==
  /\ MayStart(p) \/ (p \in Cli /\ pc[p] \in Resting)
  /\ floor' = [floor EXCEPT ![p] = db]
  /\ pc' = [pc EXCEPT ![p] = "lock"]
  /\ UNCHANGED <<phase, db, edge, caddyMu, snap, inbox, counters>>

\* The panel's process starts and publishes before it serves.
BootStart ==
  /\ phase = "down"
  /\ phase' = "booting"
  /\ floor' = [floor EXCEPT ![Boot] = db]
  /\ pc' = [pc EXCEPT ![Boot] = "lock"]
  /\ UNCHANGED <<db, edge, caddyMu, snap, inbox, counters>>

-----------------------------------------------------------------------------
(* SyncCaddy.                                                              *)

\* Mutant: SyncCaddy without the mutex.
Mutant_LockIgnored(p) ==
  /\ pc[p] = "lock"
  /\ caddyMu' = IF p \in Cli THEN caddyMu ELSE p
  /\ pc' = [pc EXCEPT ![p] = "read"]
  /\ UNCHANGED <<phase, db, edge, floor, snap, inbox, counters>>

\* caddyMu is a field of one process's Service: the command has its own,
\* which nobody else ever holds.
Lock(p) ==
  /\ pc[p] = "lock"
  /\ IF p \in Cli THEN caddyMu' = caddyMu
     ELSE caddyMu = NoOne /\ caddyMu' = p
  /\ pc' = [pc EXCEPT ![p] = "read"]
  /\ UNCHANGED <<phase, db, edge, floor, snap, inbox, counters>>

\* Mutant: the table is read before the mutex is taken.
Mutant_ReadBeforeLock(p) ==
  /\ pc[p] = "read"
  /\ snap' = [snap EXCEPT ![p] = floor[p]]
  /\ pc' = [pc EXCEPT ![p] = "load"]
  /\ UNCHANGED <<phase, db, edge, caddyMu, floor, inbox, counters>>

\* RoutingTable, one query: the version committed at this instant.
Read(p) ==
  /\ pc[p] = "read"
  /\ snap' = [snap EXCEPT ![p] = db]
  /\ pc' = [pc EXCEPT ![p] = "load"]
  /\ UNCHANGED <<phase, db, edge, caddyMu, floor, inbox, counters>>

\* A query fails, Build fails, or no connection to the edge: nothing is sent.
Fail(p) ==
  /\ pc[p] \in {"read", "load"}
  /\ Leave(p, "error")
  /\ UNCHANGED <<db, edge, floor, snap, inbox, counters>>

\* Client.Load: POST /load with the complete configuration.
Send(p) ==
  /\ pc[p] = "load" /\ Len(inbox) < MaxInFlight
  /\ inbox' = Append(inbox, [by |-> p, ver |-> snap[p]])
  /\ pc' = [pc EXCEPT ![p] = "wait"]
  /\ UNCHANGED <<phase, db, edge, caddyMu, floor, snap, counters>>

\* The HTTP client's 20 s are over or the caller's context is done, whatever
\* became of the request.
GiveUp(p) ==
  /\ pc[p] \in {"wait", "applied", "rejected"}
  /\ inbox' = Disown({p})
  /\ Leave(p, "error")
  /\ UNCHANGED <<db, edge, floor, snap, counters>>

\* Mutant: a status of 400 or more is taken for success.
Mutant_ReturnNil(p) ==
  /\ pc[p] \in {"applied", "rejected"}
  /\ Leave(p, "ok")
  /\ UNCHANGED <<db, edge, floor, snap, inbox, counters>>

\* The answer arrives: nil for 2xx, an error for a status of 400 or more.
Return(p) ==
  /\ \/ pc[p] = "applied" /\ Leave(p, "ok")
     \/ pc[p] = "rejected" /\ Leave(p, "error")
  /\ UNCHANGED <<db, edge, floor, snap, inbox, counters>>

-----------------------------------------------------------------------------
(* The edge proxy and the failures.                                        *)

\* The answer to a load reaches the process that waits for it.
Answered(load, answer) ==
  IF load.by = NoOne THEN pc ELSE [pc EXCEPT ![load.by] = answer]

\* The admin API works loads off one at a time, in the order it got them.
EdgeApplies ==
  /\ inbox # <<>>
  /\ edge' = Head(inbox).ver
  /\ inbox' = Tail(inbox)
  /\ pc' = Answered(Head(inbox), "applied")
  /\ UNCHANGED <<phase, db, caddyMu, floor, snap, counters>>

\* The edge refuses a configuration; for a load nobody waits for, this also
\* stands for a request lost on the way.
EdgeRejects ==
  /\ inbox # <<>>
  /\ inbox' = Tail(inbox)
  /\ pc' = Answered(Head(inbox), "rejected")
  /\ UNCHANGED <<phase, db, edge, caddyMu, floor, snap, counters>>

\* Caddy restarts from its Caddyfile; requests in flight get no answer.
EdgeRestart ==
  /\ edgeRestarts < MaxEdgeRestarts
  /\ edgeRestarts' = edgeRestarts + 1
  /\ edge' = 0
  /\ inbox' = <<>>
  /\ UNCHANGED <<phase, db, caddyMu, pc, floor, snap, crashes>>

\* The panel's process dies: its goroutines and its mutex are gone, what it
\* had committed or sent is not.
PanelCrash ==
  /\ phase # "down" /\ crashes < MaxCrashes
  /\ crashes' = crashes + 1
  /\ phase' = "down"
  /\ caddyMu' = NoOne
  /\ pc' = [p \in Procs |-> IF p \in Panel THEN "idle" ELSE pc[p]]
  /\ floor' = [p \in Procs |-> IF p \in Panel THEN 0 ELSE floor[p]]
  /\ inbox' = Disown(Panel)
  /\ UNCHANGED <<db, edge, snap, edgeRestarts>>

Start(p) == Write(p) \/ WriteUnsynced(p) \/ Call(p)
Step(p)  == Read(p) \/ Fail(p) \/ Send(p) \/ GiveUp(p) \/ Return(p)

Next ==
  \/ \E p \in Procs : Start(p) \/ Lock(p) \/ Step(p)
  \/ BootStart \/ EdgeApplies \/ EdgeRejects \/ EdgeRestart \/ PanelCrash

(***************************************************************************)
(* Fairness.  A goroutine that can run does; a waiter on a sync.Mutex is   *)
(* not passed over for ever (its starvation mode), hence SF; every wait on *)
(* the edge ends by the client's timeout; Docker restarts the panel        *)
(* ("unless-stopped").  Nobody has to start an operation, and nothing      *)
(* obliges the edge to answer.                                             *)
(***************************************************************************)
Fairness ==
  /\ \A p \in Procs : WF_vars(Step(p)) /\ SF_vars(Lock(p))
  /\ WF_vars(BootStart)

Spec == Init /\ [][Next]_vars
FairSpec == Spec /\ Fairness

-----------------------------------------------------------------------------
(* Properties.                                                             *)

\* A call that returned nil has its change live: the edge serves a table at
\* least as recent as the one the caller committed, unless the edge itself
\* restarted and serves no table at all.
ReadYourWrites ==
  \A p \in Procs :
    pc[p] = "ok" => edge >= floor[p] \/ (edge = 0 /\ edgeRestarts > 0)

\* When no operation is under way and the last one of each goroutine since
\* the boot succeeded, nothing committed is unpublished, whatever loads were
\* lost, refused, abandoned or cut off by a crash before.
QuietMeansPublished ==
  (phase = "serving" /\ \A p \in Panel : pc[p] \in {"idle", "ok"})
    => edge = db \/ (edge = 0 /\ edgeRestarts > 0)

\* The edge never goes back to an older table and never serves one that was
\* not committed: publication implements the abstract publisher.
Publisher == INSTANCE EdgePublisher WITH db <- db, edge <- edge
RefinesPublisher == Publisher!Spec

\* A call to SyncCaddy always ends, whatever fails: caddyMu is never lost.
EverySyncEnds == \A p \in Procs : pc[p] = "lock" ~> pc[p] \in Resting

\* After a crash the panel serves again, even if the edge is unreachable.
PanelComesBack == phase = "down" ~> phase = "serving"

(* The inductive invariant behind the first three properties, for a panel  *)
(* without a `gocpd synccaddy` beside it.                                  *)

Unanswered(p) == pc[p] \in {"load", "wait", "applied", "rejected"}

\* The mutex is held by exactly the goroutine inside SyncCaddy.
MutexInv == \A p \in Panel : caddyMu = p <=> pc[p] \in Critical

\* Nothing refers to a table that was not committed.
VersionInv ==
  /\ edge <= db
  /\ \A p \in Procs : floor[p] <= db /\ snap[p] <= db
  /\ \A i \in 1 .. Len(inbox) : inbox[i].ver <= db

\* Loads are on their way in the order of the tables they carry, all newer
\* than what the edge serves, and only the last one is waited for.
InboxInv ==
  /\ \A i \in 1 .. Len(inbox) : edge <= inbox[i].ver
  /\ \A i, j \in 1 .. Len(inbox) : i <= j => inbox[i].ver <= inbox[j].ver
  /\ \A i \in 1 .. Len(inbox) : inbox[i].by # NoOne =>
       /\ i = Len(inbox)
       /\ pc[inbox[i].by] = "wait"
       /\ inbox[i].ver = snap[inbox[i].by]

\* The table a goroutine read is newer than everything sent before.
SnapInv ==
  \A p \in Panel : Unanswered(p) =>
    /\ floor[p] <= snap[p]
    /\ edge <= snap[p]
    /\ \A i \in 1 .. Len(inbox) : inbox[i].ver <= snap[p]

\* While the answer to a load travels back, no other load overtakes it.
AnswerInv ==
  \A p \in Panel : pc[p] = "applied" =>
    /\ inbox = <<>>
    /\ edge = snap[p] \/ (edge = 0 /\ edgeRestarts > 0)

\* What is still on its way is newer than what has been acknowledged: the
\* first load after a restart of the edge cannot bring an older table back.
AckInv ==
  \A p \in Panel : pc[p] = "ok" =>
    /\ \A i \in 1 .. Len(inbox) : floor[p] <= inbox[i].ver
    /\ \A q \in Panel : Unanswered(q) => floor[p] <= snap[q]

\* Some operation since the last boot answers for the newest table.
CoverInv ==
  \/ phase = "down"
  \/ \E p \in Panel : floor[p] = db /\ pc[p] # "idle"

DownInv == phase = "down" => \A p \in Panel : pc[p] = "idle"

\* All of it: a step of the panel, of the edge, or a crash preserves it.
IInv ==
  /\ TypeOK /\ MutexInv /\ VersionInv /\ InboxInv /\ SnapInv /\ AnswerInv
  /\ AckInv /\ CoverInv /\ DownInv /\ ReadYourWrites

=============================================================================
