--------------------------- MODULE SiteLifecycle ---------------------------
(***************************************************************************)
(* The life of the sites of one hosting account: the operations of         *)
(* provision.Service, each a request goroutine that writes PostgreSQL,     *)
(* calls Docker and publishes to the edge in separate steps, interleaved   *)
(* with each other, with the reconcile loop and with failures.             *)
(*                                                                         *)
(* A site has its name, its container and at most one domain.  A load of   *)
(* the edge is one step here; EdgeSync takes it apart.                     *)
(***************************************************************************)
EXTENDS Naturals, FiniteSets

CONSTANTS
  Sites,       \* the sites' names
  Handlers,    \* goroutines that run the operations of the panel
  Worker,      \* the goroutine of the reconcile loop, and of the boot
  Nobody,
  Kinds,       \* operations that are called
  MaxOps,      \* bound on the operations called
  MaxFaults    \* bound on failed calls, lost contexts, crashes of anything

Procs == Handlers \cup {Worker}
Acked == "acked"   \* what ack says of a change that is through

SiteKinds == {"create", "start", "stop", "restart", "redeploy", "delete"}
DomainKinds == {"adddomain", "removedomain"}
AccountKinds == {"suspend", "unsuspend", "terminate"}

ASSUME ProcsAssumption ==
  Worker \notin Handlers /\ Nobody \notin Procs /\ Acked \notin Procs \cup {Nobody}
ASSUME SitesAssumption == Nobody \notin Sites
ASSUME KindsAssumption == Kinds \subseteq SiteKinds \cup DomainKinds \cup AccountKinds
ASSUME BoundsAssumption == MaxOps \in Nat /\ MaxFaults \in Nat

VARIABLES
  acct,    \* status of the account's row, "none" once it is deleted
  site,    \* the rows: status, whether upstream_host is set, whether it has a domain
  ctr,     \* the containers in Docker: state and who created each
  edge,    \* what the edge does with the site's domain
  sync,    \* holder of caddyMu and the routing table it has read
  op,      \* what each goroutine is doing
  view,    \* the statuses the reconcile loop listed
  ack,     \* who made the last change to the account, or that it returned nil
  ops,     \* operations called so far
  faults   \* faults so far

vars == <<acct, site, ctr, edge, sync, op, view, ack, ops, faults>>

Status == {"provisioning", "running", "stopped", "error", "deleting"}
CtrState == {"missing", "created", "running", "restarting", "exited"}
Route == {"none", "offline", "proxy"}
At == {"insert", "prepare", "replace", "create", "boot", "health", "record", "failed",
       "start", "started", "stop", "stopped", "restart", "restarted",
       "mark", "remove", "deleterow", "list", "each", "eachrow", "purge",
       "lock", "load", "scan", "fix"}

NoRow == [status |-> "none", up |-> FALSE, dom |-> FALSE]
NoCtr == [state |-> "missing", by |-> Nobody]
Idle == [kind |-> "none", at |-> "idle", on |-> Nobody, left |-> {}, gone |-> {},
         to |-> "none"]

\* One type invariant: rows, containers, routes and goroutines.
TypeOK ==
  /\ acct \in {"active", "suspended", "none"}
  /\ site \in [Sites -> [status : Status, up : BOOLEAN, dom : BOOLEAN] \cup {NoRow}]
  /\ ctr \in [Sites -> [state : CtrState \ {"missing"}, by : Handlers] \cup {NoCtr}]
  /\ edge \in [Sites -> Route]
  /\ sync \in [by : Procs \cup {Nobody}, table : [Sites -> Route]]
  /\ op \in [Procs -> [kind : Kinds \cup {"reconcile", "boot"}, at : At,
                       on : Sites \cup {Nobody}, left : SUBSET Sites, gone : SUBSET Sites,
                       to : Status \cup {"none"}] \cup {Idle}]
  /\ view \in [Sites -> Status \cup {"none"}]
  /\ ack \in Procs \cup {Nobody, Acked}
  /\ ops \in 0 .. MaxOps /\ faults \in 0 .. MaxFaults

Init ==
  /\ acct = "active"
  /\ site = [s \in Sites |-> NoRow]
  /\ ctr = [s \in Sites |-> NoCtr]
  /\ edge = [s \in Sites |-> "none"]
  /\ sync = [by |-> Nobody, table |-> [s \in Sites |-> "none"]]
  /\ op = [p \in Procs |-> Idle]
  /\ view = [s \in Sites |-> "none"]
  /\ ack = Nobody
  /\ ops = 0 /\ faults = 0

-----------------------------------------------------------------------------
(* Rows, containers, faults.                                               *)

Rows == {s \in Sites : site[s].status # "none"}
Exists(s) == ctr[s].state # "missing"

\* The row that p read, by its identifier, is still there.  A row inserted
\* under the same name after that one was deleted is another row.
HasRow(p, s) == s \in Rows \ op[p].gone

\* UpdateSiteStatus: an unconditional UPDATE of the row, if it is there.
SetStatus(p, s, status) ==
  site' = IF HasRow(p, s) THEN [site EXCEPT ![s].status = status] ELSE site

SetCtr(s, state) == ctr' = [ctr EXCEPT ![s].state = state]

Works == faults' = faults
Fault == faults < MaxFaults /\ faults' = faults + 1

GoTo(p, at) == op' = [op EXCEPT ![p].at = at]
End(p) == op' = [op EXCEPT ![p] = Idle]

\* An update that finds no row is an error, and the operation returns it.
GoToIfRow(p, at) == IF HasRow(p, op[p].on) THEN GoTo(p, at) ELSE End(p)

\* Mutant: the query does not look at the account's status.
Mutant_RouteOf(s) ==
  IF ~site[s].dom \/ site[s].status \notin {"running", "stopped"} THEN "none"
  ELSE IF site[s].status = "running" /\ site[s].up THEN "proxy" ELSE "offline"

\* The row RoutingTable and SyncCaddy make of a site: only domains of sites
\* of active accounts, running or stopped; a page with 503 unless the site
\* runs and has an upstream.
RouteOf(s) ==
  IF acct # "active" \/ ~site[s].dom \/ site[s].status \notin {"running", "stopped"}
  THEN "none"
  ELSE IF site[s].status = "running" /\ site[s].up THEN "proxy" ELSE "offline"

-----------------------------------------------------------------------------
(* An operation is called: it reads the rows it needs, and those on the    *)
(* account write its status at once.                                       *)

First(kind) ==
  CASE kind = "create" -> "insert" [] kind = "redeploy" -> "replace"
    [] kind = "delete" -> "mark" [] kind = "terminate" -> "purge"
    [] kind \in {"suspend", "unsuspend"} -> "list"
    [] kind \in DomainKinds -> "lock"
    [] kind \in {"start", "stop", "restart"} -> kind

Called(p, kind, s, left) ==
  /\ op[p] = Idle /\ ops < MaxOps /\ ops' = ops + 1
  /\ op' = [op EXCEPT ![p] = [kind |-> kind, at |-> First(kind), on |-> s,
                              left |-> left, gone |-> {}, to |-> "none"]]
  /\ UNCHANGED <<ctr, edge, sync, view, faults>>

\* p's earlier operation on the account ended without returning nil.
Forgotten(p) == IF ack = p THEN Nobody ELSE ack

\* GetAccount for a new site, GetSite for the others; the account's status
\* is not looked at.
CallSite(p, kind, s) ==
  /\ IF kind = "create" THEN acct # "none" ELSE s \in Rows
  /\ Called(p, kind, s, {})
  /\ ack' = Forgotten(p) /\ UNCHANGED <<acct, site>>

\* AddDomain and RemoveDomain begin with the INSERT, which fails if there is
\* no site or the domain is there, and the DELETE, which fails if it is not.
CallDomain(p, kind, s) ==
  /\ s \in Rows /\ site[s].dom = (kind = "removedomain")
  /\ site' = [site EXCEPT ![s].dom = (kind = "adddomain")]
  /\ Called(p, kind, s, {})
  /\ ack' = Forgotten(p) /\ acct' = acct

\* SuspendAccount and UnsuspendAccount begin with UpdateAccountStatus.
CallStatus(p, kind) ==
  /\ acct # "none"
  /\ acct' = IF kind = "suspend" THEN "suspended" ELSE "active"
  /\ ack' = p /\ site' = site
  /\ Called(p, kind, Nobody, {})

\* TerminateAccount begins with GetAccount and ListSites.
CallTerminate(p) ==
  /\ acct # "none"
  /\ Called(p, "terminate", Nobody, Rows)
  /\ ack' = Forgotten(p) /\ UNCHANGED <<acct, site>>

Call(p) ==
  \/ \E kind \in Kinds \cap SiteKinds, s \in Sites : CallSite(p, kind, s)
  \/ \E kind \in Kinds \cap DomainKinds, s \in Sites : CallDomain(p, kind, s)
  \/ \E kind \in Kinds \cap {"suspend", "unsuspend"} : CallStatus(p, kind)
  \/ "terminate" \in Kinds /\ CallTerminate(p)

-----------------------------------------------------------------------------
(* CreateSite and deploySite.                                              *)

\* INSERT of the row: the account must still be there and the name be free.
Insert(p) ==
  /\ op[p].at = "insert"
  /\ IF acct # "none" /\ op[p].on \notin Rows
     THEN /\ site' = [site EXCEPT ![op[p].on] = [NoRow EXCEPT !.status = "provisioning"]]
          /\ op' = [op EXCEPT ![p].at = "prepare", ![p].gone = {}]
     ELSE End(p) /\ site' = site
  /\ UNCHANGED <<acct, ctr, edge, sync, view, ack, ops, faults>>

\* The directories, then the domain's row, if a domain is asked for.  When
\* the domain is invalid or taken CreateSite returns at once.
Prepare(p) ==
  /\ op[p].at = "prepare"
  /\ \/ /\ Works /\ GoTo(p, "replace")
        /\ site' \in {site} \cup IF HasRow(p, op[p].on)
                                THEN {[site EXCEPT ![op[p].on].dom = TRUE]} ELSE {}
     \/ Fault /\ GoTo(p, "failed") /\ site' = site
     \/ Works /\ End(p) /\ site' = site
  /\ UNCHANGED <<acct, ctr, edge, sync, view, ack, ops>>

\* CreateOrReplace: whatever container has the name is removed by force...
Replace(p) ==
  /\ op[p].at = "replace"
  /\ \/ Works /\ ctr' = [ctr EXCEPT ![op[p].on] = NoCtr] /\ GoTo(p, "create")
     \/ Fault /\ ctr' = ctr /\ GoTo(p, "failed")
  /\ UNCHANGED <<acct, site, edge, sync, view, ack, ops>>

\* ... and created again, unless the name is taken meanwhile.
Create(p) ==
  /\ op[p].at = "create"
  /\ \/ /\ Works /\ ~Exists(op[p].on)
        /\ ctr' = [ctr EXCEPT ![op[p].on] = [state |-> "created", by |-> p]]
        /\ GoTo(p, "boot")
     \/ /\ (Works /\ Exists(op[p].on)) \/ Fault
        /\ ctr' = ctr /\ GoTo(p, "failed")
  /\ UNCHANGED <<acct, site, edge, sync, view, ack, ops>>

\* Start by the identifier of the container just created.
BootCtr(p) ==
  LET mine == ctr[op[p].on].by = p
  IN  /\ op[p].at = "boot"
      /\ \/ Works /\ mine /\ SetCtr(op[p].on, "running") /\ GoTo(p, "health")
         \/ ((Works /\ ~mine) \/ Fault) /\ ctr' = ctr /\ GoTo(p, "failed")
      /\ UNCHANGED <<acct, site, edge, sync, view, ack, ops>>

\* WaitHealthy, by name: it ends when the container of that name runs, when
\* it has exited, or after 30 s in any other state.
Health(p) ==
  /\ op[p].at = "health"
  /\ IF ctr[op[p].on].state = "running" THEN GoTo(p, "record") ELSE GoTo(p, "failed")
  /\ UNCHANGED <<acct, site, ctr, edge, sync, view, ack, ops, faults>>

\* UpdateSiteRuntime: the only write of upstream_host.
Record(p) ==
  /\ op[p].at = "record"
  /\ IF HasRow(p, op[p].on)
     THEN /\ site' = [site EXCEPT ![op[p].on].status = "running", ![op[p].on].up = TRUE]
          /\ GoTo(p, "lock")
     ELSE site' = site /\ GoTo(p, "failed")
  /\ UNCHANGED <<acct, ctr, edge, sync, view, ack, ops, faults>>

\* The error path of CreateSite, RedeploySite, StartSite and RestartSite:
\* the row says "error" and nothing is published.
Failed(p) ==
  /\ op[p].at = "failed"
  /\ SetStatus(p, op[p].on, "error")
  /\ End(p)
  /\ UNCHANGED <<acct, ctr, edge, sync, view, ack, ops, faults>>

-----------------------------------------------------------------------------
(* StartSite, StopSite, RestartSite, DeleteSite.                           *)

\* ContainerStart and ContainerRestart leave the container running; there
\* must be one.
Start(p) ==
  /\ op[p].at \in {"start", "restart"}
  /\ \/ /\ Works /\ Exists(op[p].on)
        /\ SetCtr(op[p].on, "running")
        /\ GoTo(p, IF op[p].at = "start" THEN "started" ELSE "restarted")
     \/ /\ (Works /\ ~Exists(op[p].on)) \/ Fault
        /\ ctr' = ctr /\ GoTo(p, "failed")
  /\ UNCHANGED <<acct, site, edge, sync, view, ack, ops>>

\* ContainerStop; a container that never ran is left alone.
Stopped(s) ==
  IF ctr[s].state \in {"running", "restarting"} THEN SetCtr(s, "exited") ELSE ctr' = ctr

Stop(p) ==
  /\ op[p].at = "stop"
  /\ \/ Works /\ Exists(op[p].on) /\ Stopped(op[p].on) /\ GoTo(p, "stopped")
     \/ ((Works /\ ~Exists(op[p].on)) \/ Fault) /\ ctr' = ctr /\ End(p)
  /\ UNCHANGED <<acct, site, edge, sync, view, ack, ops>>

\* StartSite records the outcome and goes on to publish it.
RecordStarted(p) ==
  /\ op[p].at = "started"
  /\ SetStatus(p, op[p].on, "running") /\ GoToIfRow(p, "lock")
  /\ UNCHANGED <<acct, ctr, edge, sync, view, ack, ops, faults>>

\* Mutant: StopSite forgets to publish.
Mutant_RecordStopped(p) ==
  /\ op[p].at = "stopped"
  /\ SetStatus(p, op[p].on, "stopped") /\ End(p)
  /\ UNCHANGED <<acct, ctr, edge, sync, view, ack, ops, faults>>

\* So does StopSite.
RecordStopped(p) ==
  /\ op[p].at = "stopped"
  /\ SetStatus(p, op[p].on, "stopped") /\ GoToIfRow(p, "lock")
  /\ UNCHANGED <<acct, ctr, edge, sync, view, ack, ops, faults>>

\* RestartSite ends with its write.
RecordRestarted(p) ==
  /\ op[p].at = "restarted"
  /\ SetStatus(p, op[p].on, "running") /\ End(p)
  /\ UNCHANGED <<acct, ctr, edge, sync, view, ack, ops, faults>>

\* DeleteSite: the mark, the container, the row.
Mark(p) ==
  /\ op[p].at = "mark"
  /\ SetStatus(p, op[p].on, "deleting") /\ GoTo(p, "remove")
  /\ UNCHANGED <<acct, ctr, edge, sync, view, ack, ops, faults>>

Remove(p) ==
  /\ op[p].at = "remove"
  /\ \/ Works /\ ctr' = [ctr EXCEPT ![op[p].on] = NoCtr] /\ GoTo(p, "deleterow")
     \/ Fault /\ ctr' = ctr /\ End(p)
  /\ UNCHANGED <<acct, site, edge, sync, view, ack, ops>>

\* Every operation under way that knew the rows of S now has identifiers
\* of nothing.
Orphaned(S) ==
  [q \in Procs |-> IF op[q] = Idle THEN Idle ELSE [op[q] EXCEPT !.gone = @ \cup S]]

DeleteRow(p) ==
  /\ op[p].at = "deleterow"
  /\ IF HasRow(p, op[p].on)
     THEN /\ site' = [site EXCEPT ![op[p].on] = NoRow]
          /\ op' = [Orphaned({op[p].on}) EXCEPT ![p].at = "lock"]
     ELSE End(p) /\ site' = site
  /\ UNCHANGED <<acct, ctr, edge, sync, view, ack, ops, faults>>

-----------------------------------------------------------------------------
(* SuspendAccount, UnsuspendAccount, TerminateAccount.                     *)

\* ListSites, whatever the status of each.
List(p) ==
  /\ op[p].at = "list"
  /\ op' = [op EXCEPT ![p].at = "each", ![p].left = Rows, ![p].gone = {}]
  /\ UNCHANGED <<acct, site, ctr, edge, sync, view, ack, ops, faults>>

\* One container is stopped, or started.  A failure to stop is only logged;
\* a failure to start makes the site's status "error".
Each(p) ==
  /\ op[p].at = "each"
  /\ \E s \in op[p].left, ok \in BOOLEAN :
       /\ IF ok THEN Works /\ Exists(s) ELSE (Works /\ ~Exists(s)) \/ Fault
       /\ IF ~ok THEN ctr' = ctr
          ELSE IF op[p].kind = "suspend" THEN Stopped(s) ELSE SetCtr(s, "running")
       /\ op' = [op EXCEPT ![p].at = "eachrow", ![p].on = s,
                   ![p].to = IF op[p].kind = "suspend" THEN "stopped"
                             ELSE IF ok THEN "running" ELSE "error"]
  /\ UNCHANGED <<acct, site, edge, sync, view, ack, ops>>

EachRow(p) ==
  /\ op[p].at = "eachrow"
  /\ SetStatus(p, op[p].on, op[p].to)
  /\ op' = [op EXCEPT ![p].at = "each", ![p].left = @ \ {op[p].on}]
  /\ UNCHANGED <<acct, ctr, edge, sync, view, ack, ops, faults>>

EachDone(p) ==
  /\ op[p].at = "each" /\ op[p].left = {}
  /\ GoTo(p, "lock")
  /\ UNCHANGED <<acct, site, ctr, edge, sync, view, ack, ops, faults>>

\* The containers of the sites listed are removed, failures only logged.
Purge(p) ==
  /\ op[p].at = "purge"
  /\ \E s \in op[p].left :
       /\ (Works /\ ctr' = [ctr EXCEPT ![s] = NoCtr]) \/ (Fault /\ ctr' = ctr)
       /\ op' = [op EXCEPT ![p].left = @ \ {s}]
  /\ UNCHANGED <<acct, site, edge, sync, view, ack, ops>>

\* DELETE of the account's row takes the rows of its sites with it.
DeleteAccount(p) ==
  /\ op[p].at = "purge" /\ op[p].left = {}
  /\ IF acct = "none" THEN End(p) /\ UNCHANGED <<acct, site, ack>>
     ELSE /\ acct' = "none" /\ ack' = p
          /\ site' = [s \in Sites |-> NoRow]
          /\ op' = [Orphaned(Sites) EXCEPT ![p].at = "lock"]
  /\ UNCHANGED <<ctr, edge, sync, view, ops, faults>>

-----------------------------------------------------------------------------
(* SyncCaddy.                                                              *)

\* The mutex is taken and the routing table read.
Lock(p) ==
  /\ op[p].at = "lock" /\ sync.by = Nobody
  /\ sync' = [by |-> p, table |-> [s \in Sites |-> RouteOf(s)]]
  /\ GoTo(p, "load")
  /\ UNCHANGED <<acct, site, ctr, edge, view, ack, ops, faults>>

\* The table becomes the edge's configuration, or the operation returns the
\* error; either way the mutex is free again.
Publish(p) ==
  /\ op[p].at = "load"
  /\ \/ /\ Works /\ edge' = sync.table
        /\ ack' = IF ack = p THEN Acked ELSE ack
     \/ Fault /\ UNCHANGED <<edge, ack>>
  /\ sync' = [sync EXCEPT !.by = Nobody]
  /\ End(p)
  /\ UNCHANGED <<acct, site, ctr, view, ops>>

-----------------------------------------------------------------------------
(* The reconcile loop.                                                     *)

\* Mutant: a container that was created and never started is forgotten.
Mutant_WantFor(state, status) ==
  CASE state = "running" -> "running"
    [] state = "exited" -> "stopped"
    [] state = "missing" -> "error"
    [] state \in {"created", "restarting"} -> status

\* Mutant: the state is stored as it comes.
Mutant_WantState(state, status) == IF state = "missing" THEN "error" ELSE state

\* The status a container's state calls for; some states call for none.  "paused",
\* the same to the loop as "exited", and "dead", which it passes over as it does
\* "restarting", are left out: no operation of the panel leads there.
WantFor(state, status) ==
  CASE state = "running" -> "running"
    [] state \in {"exited", "created"} -> "stopped"
    [] state = "missing" -> "error"
    [] state = "restarting" -> status

\* Every two minutes: ListSites, leaving out what is being made or deleted.
\* `to` is "none" until a status has been corrected.
Tick ==
  /\ op[Worker] = Idle
  /\ view' = [s \in Sites |-> site[s].status]
  /\ op' = [op EXCEPT ![Worker] =
              [kind |-> "reconcile", at |-> "scan", on |-> Nobody, gone |-> {}, to |-> "none",
               left |-> {s \in Rows : site[s].status \notin {"provisioning", "deleting"}}]]
  /\ UNCHANGED <<acct, site, ctr, edge, sync, ack, ops, faults>>

\* The state of one container, against the status that was listed.
Scan ==
  /\ op[Worker].at = "scan"
  /\ \E s \in op[Worker].left :
       LET want == WantFor(ctr[s].state, view[s])
       IN  \/ /\ Works /\ want # view[s]
              /\ op' = [op EXCEPT ![Worker].at = "fix", ![Worker].on = s, ![Worker].to = want]
           \/ /\ (Works /\ want = view[s]) \/ Fault
              /\ op' = [op EXCEPT ![Worker].left = @ \ {s}]
  /\ UNCHANGED <<acct, site, ctr, edge, sync, view, ack, ops>>

Fix ==
  /\ op[Worker].at = "fix"
  /\ SetStatus(Worker, op[Worker].on, op[Worker].to)
  /\ op' = [op EXCEPT ![Worker].at = "scan", ![Worker].left = @ \ {op[Worker].on}]
  /\ UNCHANGED <<acct, ctr, edge, sync, view, ack, ops, faults>>

\* The pass ends: it publishes if it corrected anything.
Scanned ==
  /\ op[Worker].at = "scan" /\ op[Worker].left = {}
  /\ IF op[Worker].to = "none" THEN End(Worker) ELSE GoTo(Worker, "lock")
  /\ UNCHANGED <<acct, site, ctr, edge, sync, view, ack, ops, faults>>

-----------------------------------------------------------------------------
(* What happens to the processes.                                          *)

\* A container's process dies; Docker brings it back ("unless-stopped").
CtrDies(s) ==
  /\ Fault /\ ctr[s].state = "running" /\ SetCtr(s, "restarting")
  /\ UNCHANGED <<acct, site, edge, sync, op, view, ack, ops>>

CtrRecovers(s) ==
  /\ ctr[s].state = "restarting" /\ SetCtr(s, "running")
  /\ UNCHANGED <<acct, site, edge, sync, op, view, ack, ops, faults>>

\* The client is gone or the request's 120 s are over: every later call of
\* the operation fails, the writes of its error path included.
ContextDone(p) ==
  /\ Fault /\ op[p] # Idle
  /\ End(p)
  /\ sync' = IF sync.by = p THEN [sync EXCEPT !.by = Nobody] ELSE sync
  /\ UNCHANGED <<acct, site, ctr, edge, view, ack, ops>>

\* The panel dies and starts again: its first act is to publish.
Crash ==
  /\ Fault
  /\ op' = [[p \in Procs |-> Idle] EXCEPT ![Worker] =
              [Idle EXCEPT !.kind = "boot", !.at = "lock"]]
  /\ sync' = [sync EXCEPT !.by = Nobody]
  /\ UNCHANGED <<acct, site, ctr, edge, view, ack, ops>>

Work(p) ==
  \/ Insert(p) \/ Prepare(p) \/ Replace(p) \/ Create(p) \/ BootCtr(p) \/ Health(p)
  \/ Record(p) \/ Failed(p)
  \/ Start(p) \/ Stop(p) \/ RecordStarted(p) \/ RecordStopped(p) \/ RecordRestarted(p)
  \/ Mark(p) \/ Remove(p) \/ DeleteRow(p)
  \/ List(p) \/ Each(p) \/ EachRow(p) \/ EachDone(p) \/ Purge(p) \/ DeleteAccount(p)
  \/ Publish(p)

Reconcile == Tick \/ Scan \/ Fix \/ Scanned \/ Publish(Worker)

Next ==
  \/ \E p \in Handlers : Call(p) \/ Work(p) \/ ContextDone(p)
  \/ \E p \in Procs : Lock(p)
  \/ Reconcile
  \/ \E s \in Sites : CtrDies(s) \/ CtrRecovers(s)
  \/ Crash

(***************************************************************************)
(* Fairness: a goroutine that can run does, a waiter on caddyMu gets it,   *)
(* the ticker ticks, Docker restarts what died.  No operation has to be    *)
(* called and no fault has to happen.                                      *)
(***************************************************************************)
Fairness ==
  /\ \A p \in Handlers : WF_vars(Work(p))
  /\ \A p \in Procs : SF_vars(Lock(p))
  /\ WF_vars(Reconcile)
  /\ \A s \in Sites : WF_vars(CtrRecovers(s))

Spec == Init /\ [][Next]_vars
FairSpec == Spec /\ Fairness

-----------------------------------------------------------------------------
(* Properties.                                                             *)

Quiet == \A p \in Procs : op[p] = Idle

\* Once a suspension or a termination has returned nil, none of the account's
\* domains is served, whatever site operations run meanwhile or come later,
\* until somebody reactivates it.
SuspensionUnroutes ==
  acct # "active" /\ ack = Acked => \A s \in Sites : edge[s] = "none"

\* When nothing is under way and nothing has failed, what the edge does is
\* what the rows say, except for a site in error, whose last route stays, and
\* where RestartSite is used.
QuietEdgeMatches ==
  Quiet /\ faults = 0 /\ "restart" \notin Kinds =>
    \A s \in Sites : site[s].status # "error" => edge[s] = RouteOf(s)

\* The status of a site keeps returning to what its container does, after
\* every race and every fault, for the sites the loop does not skip.
ReconcileHeals ==
  []<>(\A s \in Sites :
         \/ site[s].status \in {"none", "provisioning", "deleting"}
         \/ site[s].status = "running" /\ ctr[s].state = "running"
         \/ site[s].status = "stopped" /\ ctr[s].state \in {"exited", "created"}
         \/ site[s].status = "error" /\ ctr[s].state = "missing")

-----------------------------------------------------------------------------
(* What makes the safety properties inductive.                             *)

SitePoints == At \ {"purge", "list", "each", "lock", "load", "scan"}

\* What an operation is about at each of its points, and that the loop only
\* scans sites it has listed.
Sound ==
  /\ \A p \in Procs :
       /\ op[p].at \in SitePoints => op[p].on \in Sites
       /\ op[p].at \in {"eachrow", "fix"} => op[p].to \in Status
       /\ op[p].at \in {"restart", "restarted"} => "restart" \in Kinds
  /\ op[Worker].at \in {"scan", "fix"} => \A s \in op[Worker].left : view[s] \in Status

MutexInv == \A p \in Procs : op[p].at = "load" <=> sync.by = p

\* The operation that suspends or terminates reads its routing table after
\* its change; what is read after it, by whomever, has no route either.
Unrouted(routes) == \A s \in Sites : routes[s] = "none"
SuspendInv ==
  acct # "active" =>
    /\ \A p \in Procs : ack = p /\ sync.by = p => Unrouted(sync.table)
    /\ ack = Acked => Unrouted(edge) /\ (sync.by # Nobody => Unrouted(sync.table))

\* p will publish, or mark the site "error", before it ends.
Owes(p, s) ==
  \/ op[p].at \in {"lock", "list", "each", "eachrow", "fix"}
  \/ op[p].at = "scan" /\ op[p].to # "none"
  \/ /\ op[p].at \in {"remove", "deleterow", "replace", "create", "boot", "health",
                      "record", "failed"}
     /\ op[p].on = s /\ HasRow(p, s)

\* The route that is live once the load under way is through.
Served(s) == IF sync.by = Nobody THEN edge[s] ELSE sync.table[s]
Covered(s) ==
  site[s].status = "error" \/ (\E p \in Procs : Owes(p, s)) \/ Served(s) = RouteOf(s)
CoverInv == faults = 0 /\ "restart" \notin Kinds => \A s \in Sites : Covered(s)

IInv == TypeOK /\ Sound /\ MutexInv /\ SuspendInv /\ CoverInv

=============================================================================
