--------------------------- MODULE BandwidthQuota ---------------------------
(***************************************************************************)
(* The monthly transfer quota of one account: the pass of the worker's     *)
(* quotaLoop (enforceQuotas), step by step, against administrators who     *)
(* suspend and reactivate the account, containers that restart, the turn   *)
(* of the month, failed calls and crashes of the panel.                    *)
(*                                                                         *)
(* Traffic is counted in units of a fraction of a megabyte: the counters   *)
(* of Docker and the baselines are floats, the account's usage an int64.   *)
(* What suspension does to containers and the edge is SiteLifecycle's      *)
(* matter: here a stopped container only loses its counter.                *)
(***************************************************************************)
EXTENDS Integers, FiniteSets

CONSTANTS
  Sites,          \* the account's sites
  Quota,          \* BandwidthQuotaMB of the plan, 0 for none
  UnitsPerMB,     \* resolution of Docker's counters
  MaxTraffic,     \* bound on the units the sites transfer
  MaxMonths,      \* bound on the months
  MaxAdminOps,    \* bound on what administrators do to the account
  MaxRestarts,    \* bound on the times a container loses its counter
  MaxFaults,      \* bound on the calls that fail
  MaxCrashes      \* bound on the panel's crashes

ASSUME SitesAssumption == IsFiniteSet(Sites)
ASSUME QuotaAssumption == Quota \in Nat /\ UnitsPerMB \in Nat \ {0}
ASSUME BoundsAssumption ==
  /\ MaxTraffic \in Nat /\ MaxMonths \in Nat \ {0} /\ MaxAdminOps \in Nat
  /\ MaxRestarts \in Nat /\ MaxFaults \in Nat /\ MaxCrashes \in Nat

VARIABLES
  account,     \* the row: status, suspend_reason, bandwidth_used_mb, reset month
  base,        \* last_net_*_mb of each site's row
  count,       \* Docker's cumulative counter of each container
  up,          \* the sites whose row and container say running
  month,       \* what time.Now() and now() say
  pass,        \* the worker's local variables, and where it is
  sent,        \* units the sites have transferred
  charged,     \* megabytes ever added to the account's usage
  used         \* how much of each bound has been used

vars == <<account, base, count, up, month, pass, sent, charged, used>>

\* Why the account is suspended: "auto" is AutoSuspendBandwidthReason,
\* "manual" any other reason, "" goes with status "active".
Suspended == {"auto", "manual"}
Reasons == Suspended \cup {""}
Counted == [adminOps : 0 .. MaxAdminOps, restarts : 0 .. MaxRestarts,
            faults : 0 .. MaxFaults, crashes : 0 .. MaxCrashes]
\* A baseline that is not stored lets a unit be measured once more.
MaxCharged == MaxTraffic * (MaxFaults + 1)
Account == [reason : Reasons, usedMB : 0 .. MaxCharged, resetAt : 1 .. MaxMonths]

TypeOK ==
  /\ account \in Account
  /\ base \in [Sites -> 0 .. MaxTraffic]
  /\ count \in [Sites -> 0 .. MaxTraffic]
  /\ up \subseteq Sites
  /\ month \in 1 .. MaxMonths
  /\ pass \in [at : {"idle", "sites", "sample", "month", "lift", "add", "enforce"},
               acct : Account, left : SUBSET Sites, delta : 0 .. MaxCharged]
  /\ sent \in 0 .. MaxTraffic
  /\ charged \in 0 .. MaxCharged
  /\ used \in Counted

NewAccount == [reason |-> "", usedMB |-> 0, resetAt |-> 1]
NoPass == [at |-> "idle", acct |-> NewAccount, left |-> {}, delta |-> 0]

Init ==
  /\ account = NewAccount
  /\ base = [s \in Sites |-> 0]
  /\ count = [s \in Sites |-> 0]
  /\ up = Sites
  /\ month = 1
  /\ pass = NoPass
  /\ sent = 0 /\ charged = 0
  /\ used = [adminOps |-> 0, restarts |-> 0, faults |-> 0, crashes |-> 0]

Bounded(what, max) == used[what] < max /\ used' = [used EXCEPT ![what] = @ + 1]
Works == used' = used
Fault == Bounded("faults", MaxFaults)

-----------------------------------------------------------------------------
(* The world around the worker.                                            *)

Traffic(s) ==
  /\ s \in up /\ sent < MaxTraffic
  /\ count' = [count EXCEPT ![s] = @ + 1]
  /\ sent' = sent + 1
  /\ UNCHANGED <<account, base, up, month, pass, charged, used>>

\* A container restarts: its counter is back at 0.
Restart(s) ==
  /\ s \in up /\ Bounded("restarts", MaxRestarts)
  /\ count' = [count EXCEPT ![s] = 0]
  /\ UNCHANGED <<account, base, up, month, pass, sent, charged>>

NewMonth ==
  /\ month < MaxMonths /\ month' = month + 1
  /\ UNCHANGED <<account, base, count, up, pass, sent, charged, used>>

\* SuspendAccount: the row, then the containers; those that cannot be stopped
\* go on.
SuspendAccount(reason) ==
  /\ account' = [account EXCEPT !.reason = reason]
  /\ up' \in SUBSET up
  /\ count' = [s \in Sites |-> IF s \in up' THEN count[s] ELSE 0]

\* UnsuspendAccount: the row, then the containers; some may not start.
UnsuspendAccount ==
  /\ account' = [account EXCEPT !.reason = ""]
  /\ up' \in {S \in SUBSET Sites : up \subseteq S}
  /\ count' = count

\* The handlers of the administrators; neither looks at the present status.
AdminSuspends ==
  /\ Bounded("adminOps", MaxAdminOps)
  /\ SuspendAccount("manual")
  /\ UNCHANGED <<base, month, pass, sent, charged>>

AdminReactivates ==
  /\ Bounded("adminOps", MaxAdminOps)
  /\ UnsuspendAccount
  /\ UNCHANGED <<base, month, pass, sent, charged>>

-----------------------------------------------------------------------------
(* enforceQuotas.                                                          *)

\* ListAccounts: the pass works on this copy of the row to its end.
ListAccounts ==
  /\ pass.at = "idle"
  /\ pass' = [NoPass EXCEPT !.at = "sites", !.acct = account]
  /\ UNCHANGED <<account, base, count, up, month, sent, charged, used>>

\* GetPlan and ListSites: the running sites will be sampled.  If one of the
\* queries fails, the account is left for the next pass.
ListSites ==
  /\ pass.at = "sites"
  /\ \/ Works /\ pass' = [pass EXCEPT !.at = "sample", !.left = up]
     \/ Fault /\ pass' = NoPass
  /\ UNCHANGED <<account, base, count, up, month, sent, charged>>

\* Mutant: no container ever restarts.
Mutant_Grown(s) == count[s] - base[s]

\* What a site has transferred since its baseline; a counter below it has
\* been restarted.
Grown(s) == IF count[s] >= base[s] THEN count[s] - base[s] ELSE count[s]

\* One site: Stats and the baseline are read, the delta counted, the new
\* baseline stored.  A failure to read skips the site, a failure to store is
\* only logged.
Sample ==
  /\ pass.at = "sample"
  /\ \E s \in pass.left :
       \/ /\ Works
          /\ base' = [base EXCEPT ![s] = count[s]]
          /\ pass' = [pass EXCEPT !.left = @ \ {s}, !.delta = @ + Grown(s)]
       \/ /\ Fault /\ base' = base
          /\ pass' = [pass EXCEPT !.left = @ \ {s}]
       \/ /\ Fault /\ base' = base
          /\ pass' = [pass EXCEPT !.left = @ \ {s}, !.delta = @ + Grown(s)]
  /\ UNCHANGED <<account, count, up, month, sent, charged>>

Sampled ==
  /\ pass.at = "sample" /\ pass.left = {}
  /\ pass' = [pass EXCEPT !.at = "month"]
  /\ UNCHANGED <<account, base, count, up, month, sent, charged, used>>

\* Mutant: the copy of the row keeps last month's usage.
Mutant_NewCycle ==
  /\ pass.at = "month" /\ pass.acct.resetAt # month
  /\ Works
  /\ account' = [account EXCEPT !.usedMB = 0, !.resetAt = month]
  /\ pass' = [pass EXCEPT !.at = IF pass.acct.reason = "auto" THEN "lift" ELSE "add"]
  /\ UNCHANGED <<base, count, up, month, sent, charged>>

\* Mutant: any suspension is lifted with the new cycle.
Mutant_NewCycleLiftsAll ==
  /\ pass.at = "month" /\ pass.acct.resetAt # month
  /\ Works
  /\ account' = [account EXCEPT !.usedMB = 0, !.resetAt = month]
  /\ pass' = [pass EXCEPT !.at = IF pass.acct.reason \in Suspended THEN "lift" ELSE "add",
                          !.acct.usedMB = 0]
  /\ UNCHANGED <<base, count, up, month, sent, charged>>

\* The first pass of a month resets the usage, and goes on to lift the
\* suspension if the copy of the row says it was automatic.
NewCycle ==
  /\ pass.at = "month" /\ pass.acct.resetAt # month
  /\ \/ /\ Works
        /\ account' = [account EXCEPT !.usedMB = 0, !.resetAt = month]
        /\ pass' = [pass EXCEPT !.at = IF pass.acct.reason = "auto" THEN "lift" ELSE "add",
                                !.acct.usedMB = 0]
     \/ Fault /\ account' = account /\ pass' = [pass EXCEPT !.at = "add"]
  /\ UNCHANGED <<base, count, up, month, sent, charged>>

SameCycle ==
  /\ pass.at = "month" /\ pass.acct.resetAt = month
  /\ pass' = [pass EXCEPT !.at = "add"]
  /\ UNCHANGED <<account, base, count, up, month, sent, charged, used>>

\* UnsuspendAccount; if it fails the copy of the row stays suspended, however
\* far the call came.
Lift ==
  /\ pass.at = "lift"
  /\ \/ /\ Works /\ UnsuspendAccount
        /\ pass' = [pass EXCEPT !.at = "add", !.acct.reason = ""]
     \/ /\ Fault
        /\ UnsuspendAccount \/ UNCHANGED <<account, up, count>>
        /\ pass' = [pass EXCEPT !.at = "add"]
  /\ UNCHANGED <<base, month, sent, charged>>

\* Mutant: the usage is rounded up.
Mutant_WholeMB == -((-pass.delta) \div UnitsPerMB)

\* int64(deltaMB): what is left over is in no counter any more.
WholeMB == pass.delta \div UnitsPerMB

\* The delta is added to the row, and to the copy unless that failed.
AddUsage ==
  /\ pass.at = "add"
  /\ \/ /\ Works
        /\ account' = [account EXCEPT !.usedMB = @ + WholeMB]
        /\ charged' = charged + WholeMB
        /\ pass' = [pass EXCEPT !.at = "enforce", !.acct.usedMB = @ + WholeMB]
     \/ /\ Fault /\ pass.delta > 0
        /\ UNCHANGED <<account, charged>>
        /\ pass' = [pass EXCEPT !.at = "enforce"]
  /\ UNCHANGED <<base, count, up, month, sent>>

\* Mutant: the quota itself still passes.
Mutant_OverQuota(acct) == Quota > 0 /\ acct.usedMB > Quota

OverQuota(acct) == Quota > 0 /\ acct.usedMB >= Quota

\* The decision is made on the copy of the row.
Enforce ==
  /\ pass.at = "enforce"
  /\ pass' = NoPass
  /\ IF pass.acct.reason = "" /\ OverQuota(pass.acct)
     THEN \/ Works /\ SuspendAccount("auto")
          \/ Fault /\ UNCHANGED <<account, up, count>>
     ELSE Works /\ UNCHANGED <<account, up, count>>
  /\ UNCHANGED <<base, month, sent, charged>>

\* The panel dies: the pass and what it had measured are gone.
Crash ==
  /\ pass.at # "idle" /\ Bounded("crashes", MaxCrashes)
  /\ pass' = NoPass
  /\ UNCHANGED <<account, base, count, up, month, sent, charged>>

Pass ==
  \/ ListAccounts \/ ListSites \/ Sample \/ Sampled
  \/ NewCycle \/ SameCycle \/ Lift \/ AddUsage \/ Enforce

Next ==
  \/ Pass \/ Crash \/ NewMonth \/ AdminSuspends \/ AdminReactivates
  \/ \E s \in Sites : Traffic(s) \/ Restart(s)

\* The ticker ticks and the worker runs; nothing else has to happen.
Spec == Init /\ [][Next]_vars
FairSpec == Spec /\ WF_vars(Pass)

-----------------------------------------------------------------------------
(* Properties.                                                             *)

\* No unit is charged twice, across restarts of containers, turns of the
\* month and crashes of the panel between any two steps of a pass, as long as
\* the baselines can be stored.
NeverOvercharged == used.faults = 0 => charged * UnitsPerMB <= sent

\* The worker lifts or relabels a manual suspension only when it was made
\* behind the back of the pass, after the accounts were listed.
LiftsOnlyItsOwn ==
  [][account.reason = "manual" /\ pass # pass' =>
       account'.reason = "manual" \/ pass.acct.reason # "manual"]_vars

\* An automatic suspension is made only of an account whose row has reached
\* the quota in its present cycle: the copy of the row never lets the usage
\* of an earlier month count.
SuspendsOnlyOverQuota ==
  [][account'.reason = "auto" /\ account.reason # "auto" => OverQuota(account)]_vars

\* An active account that has reached its quota does not stay active: it is
\* suspended, or a new month begins, whatever fails in between.
QuotaEnforced ==
  account.reason = "" /\ Quota > 0 /\ account.usedMB >= Quota ~>
    account.reason # "" \/ account.usedMB < Quota

-----------------------------------------------------------------------------
(* What makes the properties inductive.                                    *)

\* The pass and the row agree on the usage, and only an account that was
\* listed as suspended automatically gets to be lifted.
CopyInv ==
  /\ pass.at = "sites" => pass.delta = 0
  /\ pass.at # "idle" => pass.acct.usedMB = account.usedMB
  /\ pass.at = "lift" => pass.acct.reason = "auto"

\* What has been measured and not been charged yet.
Uncharged == IF pass.at \in {"sample", "month", "lift", "add"} THEN pass.delta ELSE 0

\* What has been transferred and not been measured: one element for each
\* unit by which a site has grown.
Unmeasured == {x \in Sites \X (0 .. MaxTraffic) : x[2] < Grown(x[1])}

\* Every unit is in one of the three places at most; a fault can put what has
\* been measured back among what has not.
Ledger ==
  /\ charged * UnitsPerMB + Uncharged + Cardinality(Unmeasured)
       <= sent + MaxTraffic * used.faults
  /\ \A s \in Sites : count[s] <= sent
  /\ account.usedMB <= charged

IInv == TypeOK /\ CopyInv /\ Ledger

=============================================================================
