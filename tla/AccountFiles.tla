---------------------------- MODULE AccountFiles ----------------------------
(***************************************************************************)
(* The files of an account with one site: deployments write them inside    *)
(* the site's container, backups read them from the host, and neither      *)
(* knows of the other.  The tree is what they share.                       *)
(***************************************************************************)
EXTENDS Naturals

CONSTANTS
  Deployers, Runners, NoOne,
  MaxFaults,
  Retention, MaxClock, MaxErrors,
  MaxStarts,   \* bound on deployments, backups, disconnections and deletions
  MaxFailures  \* bound on the failures of both

ASSUME GoroutinesAssumption == NoOne \notin Deployers \cup Runners
ASSUME BoundsAssumption ==
  /\ Retention \in Nat \ {0}
  /\ {MaxFaults, MaxClock, MaxErrors, MaxStarts, MaxFailures} \subseteq Nat

VARIABLES
  tree, still,                             \* both
  status, key, dep, faults,                \* GitDeploy
  clock, files, dumps, tmp, job, errors,   \* AccountBackup
  starts

deployVars == <<status, key, dep, faults>>
backupVars == <<clock, files, dumps, tmp, job, errors>>
vars == <<tree, still, deployVars, backupVars, starts>>

Deploy == INSTANCE GitDeploy
Backup == INSTANCE AccountBackup WITH Nobody <- NoOne

Init == Deploy!Init /\ Backup!Init /\ starts = 0

Begun ==
  \/ \E d \in Deployers : dep[d].at = "idle" /\ dep'[d].at # "idle"
  \/ \E b \in Runners : job[b].at = "idle" /\ job'[b].at # "idle"
  \/ Deploy!Disconnect
  \/ \E s \in 0 .. MaxClock : Backup!Delete(s)

Bounds ==
  /\ starts' = IF Begun THEN starts + 1 ELSE starts
  /\ starts' <= MaxStarts /\ faults' + errors' <= MaxFailures

Next ==
  \/ Deploy!Next /\ UNCHANGED backupVars /\ Bounds
  \/ Backup!Next /\ UNCHANGED deployVars /\ Bounds

Spec == Init /\ [][Next]_vars

\* Both components are what they say.
TypeOK == Deploy!TypeOK /\ Backup!TypeOK

\* Each component's promises, with the other at work.
DeploymentsSettle == Deploy!Settles
SuccessIsWhole == Deploy!SuccessIsWhole
NoLeftovers == Backup!NoLeftovers
KeepsABackup == Backup!KeepsABackup
PurgesOnlyAfterSuccess == Backup!PurgesOnlyAfterSuccess

-----------------------------------------------------------------------------
(* What makes the properties inductive.                                    *)

Jobs == [at : {"idle", "walk", "dump", "dumping", "orphan", "read", "prune"},
         stamp : 0 .. MaxClock, dumpStamp : 0 .. MaxClock, clean : BOOLEAN]

IInv == job \in [Runners -> Jobs] /\ Deploy!IInv /\ Backup!IInv

=============================================================================
