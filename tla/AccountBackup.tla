---------------------------- MODULE AccountBackup ----------------------------
(***************************************************************************)
(* The backups of one account (backup.go): an archive of its sites' files, *)
(* a dump of its database made inside MariaDB's container and fetched from *)
(* there, and retention, run by the daily loop and by requests at once.    *)
(* A dump begun goes on in there when the backup it was for is over.       *)
(*                                                                         *)
(* Files are named after the second they were begun in, so that two begun  *)
(* in the same second are one file.  The clock stands for both the stamps  *)
(* and the age of files; a run is over (it has at most half an hour, then  *)
(* its context is done) before what it wrote is as old as the retention,   *)
(* which is counted in days.                                               *)
(***************************************************************************)
EXTENDS Naturals

CONSTANTS
  Runners,     \* goroutines that may run RunAccountBackup
  Nobody,      \* none of them
  Retention,   \* BackupRetentionDays, in ticks of the clock: at least 1
  MaxClock,    \* bound on the clock
  MaxErrors    \* bound on failures

VARIABLES
  tree,      \* the account's files, whose content is not this module's
  still,     \* runners whose walk has seen no write to them so far
  clock,
  files,     \* archives in backups/, by stamp
  dumps,     \* dumps in backups/, by stamp
  tmp,       \* the dump in the /tmp of MariaDB's container
  job,       \* what each runner is doing
  errors

vars == <<tree, still, clock, files, dumps, tmp, job, errors>>

Stamps == 0 .. MaxClock
Resting == [at |-> "idle", stamp |-> 0, dumpStamp |-> 0, clean |-> TRUE]
None == [state |-> "none", by |-> Nobody]
Open(b) == [state |-> "open", by |-> b]

\* "torn": complete as far as anybody was told, and of no use.
States == {"none", "open", "whole", "torn"}

TypeOK ==
  /\ clock \in Stamps /\ errors \in 0 .. MaxErrors
  /\ files \in [Stamps -> [state : States, by : Runners \cup {Nobody}]]
  /\ dumps \in [Stamps -> States]
  /\ tmp \in [state : States, by : Runners \cup {Nobody}]
  /\ still \subseteq {b \in Runners : job[b].at = "walk"}
  /\ \A b \in Runners :
       /\ job[b].at \in {"idle", "walk", "dump", "dumping", "orphan", "read", "prune"}
       /\ job[b].stamp \in 0 .. clock /\ job[b].dumpStamp \in 0 .. clock
       /\ job[b].clean \in BOOLEAN
  /\ \A s \in Stamps : s > clock => files[s] = None /\ dumps[s] = "none"

Init ==
  /\ clock = 0
  /\ files = [s \in Stamps |-> None] /\ dumps = [s \in Stamps |-> "none"]
  /\ tmp = None /\ still = {}
  /\ job = [b \in Runners |-> Resting]
  /\ errors = 0

Good == errors' = errors
Error == errors < MaxErrors /\ errors' = errors + 1

Doing(b, at) == job[b].at = at
Then(b, at) == job' = [job EXCEPT ![b].at = at]
Over(b) == job' = [job EXCEPT ![b] = Resting]

Tick ==
  /\ clock < MaxClock
  /\ \A b \in Runners : job[b].at \in {"idle", "orphan"} \/ clock < job[b].stamp + Retention
  /\ clock' = clock + 1
  /\ UNCHANGED <<tree, still, files, dumps, tmp, job, errors>>

\* BackupAccountFiles: the file is created, or emptied, and the walk begins.
Start(b) ==
  /\ Doing(b, "idle")
  /\ files' = [files EXCEPT ![clock] = Open(b)]
  /\ job' = [q \in Runners |->
       IF q = b THEN [at |-> "walk", stamp |-> clock, dumpStamp |-> 0,
                      clean |-> \A p \in Runners \ {b} : Doing(p, "idle")]
       ELSE IF Doing(q, "idle") THEN job[q]
       ELSE [job[q] EXCEPT !.clean = FALSE]]
  /\ still' = still \cup {b}
  /\ UNCHANGED <<tree, clock, dumps, tmp, errors>>

\* What b has archived is the tree, if nobody wrote to it meanwhile and it was
\* whole, packages included, and if nobody else wrote to the file.
Still(b) == b \in still /\ tree.whole /\ tree.deps

Kept(b) ==
  LET mine == /\ files[job[b].stamp] = Open(b)
              /\ \A q \in Runners \ {b} : ~(Doing(q, "walk") /\ job[q].stamp = job[b].stamp)
  IN  /\ files' = [files EXCEPT ![job[b].stamp].state =
                     IF @ = "none" THEN "none" ELSE IF mine /\ Still(b) THEN "whole" ELSE "torn"]
      /\ job' = [job EXCEPT ![b].at = "dump", ![b].clean = @ /\ Still(b)]

\* A walk that fails removes its file.
Removed(b) == files' = [files EXCEPT ![job[b].stamp] = None] /\ Over(b)

\* Mutant: a walk that fails leaves what it has written.
Mutant_Walk(b) ==
  /\ Doing(b, "walk")
  /\ \/ Good /\ Kept(b)
     \/ (IF Still(b) THEN Error ELSE Good) /\ Over(b) /\ files' = files
  /\ still' = still \ {b}
  /\ UNCHANGED <<tree, clock, dumps, tmp>>

\* The walk ends.  When the tree was written to meanwhile it may have missed
\* a file it was about to read, and fails, or have seen some of both.  The
\* closing writes are deferred calls, whose errors nobody sees.
Walk(b) ==
  /\ Doing(b, "walk")
  /\ \/ Good /\ Kept(b)
     \/ /\ Error
        /\ files' = [files EXCEPT ![job[b].stamp].state = IF @ = "none" THEN @ ELSE "torn"]
        /\ Then(b, "dump")
     \/ (IF Still(b) THEN Error ELSE Good) /\ Removed(b)
  /\ still' = still \ {b}
  /\ UNCHANGED <<tree, clock, dumps, tmp>>

\* BackupAccountDatabases: mysqldump | gzip > tmp, begun ...
Dump(b) ==
  /\ Doing(b, "dump")
  /\ tmp' = Open(b)
  /\ job' = [job EXCEPT ![b].at = "dumping", ![b].dumpStamp = clock]
  /\ UNCHANGED <<tree, still, clock, files, dumps, errors>>

Spoilt == IF tmp = None THEN None ELSE [tmp EXCEPT !.state = "torn"]

\* ... and ended, with or without its backup.  The exit code is gzip's: when
\* mysqldump fails nobody knows.
Dumped(b) ==
  LET mine == /\ tmp = Open(b)
              /\ \A q \in Runners \ {b} : job[q].at \notin {"dumping", "orphan"}
  IN  /\ job[b].at \in {"dumping", "orphan"}
      /\ \/ /\ Good /\ tmp' = IF mine THEN [tmp EXCEPT !.state = "whole"] ELSE Spoilt
            /\ IF Doing(b, "dumping") THEN Then(b, "read") ELSE Over(b)
         \/ /\ Error /\ tmp' = Spoilt
            /\ Over(b) \/ (Doing(b, "dumping") /\ Then(b, "read"))
      /\ UNCHANGED <<tree, still, clock, files, dumps>>

Fetched(b, state) == dumps' = [dumps EXCEPT ![job[b].dumpStamp] = state]

\* ReadFile, rm -f, WriteFile.  A file that is not there ends the backup, a
\* WriteFile that fails may leave some of it, and of an rm that fails nobody
\* hears.
Fetch(b) ==
  LET read == IF tmp.state = "whole" THEN "whole" ELSE "torn"
  IN  /\ Doing(b, "read")
      /\ \/ /\ Good /\ tmp' = None
            /\ IF tmp = None THEN dumps' = dumps /\ Over(b)
               ELSE Fetched(b, read) /\ Then(b, "prune")
         \/ /\ Error /\ tmp' \in {tmp, None}
            /\ \/ tmp # None /\ Fetched(b, read) /\ Then(b, "prune")
               \/ tmp # None /\ Fetched(b, "torn") /\ Over(b)
               \/ dumps' = dumps /\ Over(b)
      /\ UNCHANGED <<tree, still, clock, files>>

\* Mutant: the retention is not taken from the present.
Mutant_Old(s) == s <= clock

Old(s) == s + Retention < clock

\* PruneOldBackups, whose errors change nothing here.
Prune(b) ==
  /\ Doing(b, "prune")
  /\ files' = [s \in Stamps |-> IF Old(s) THEN None ELSE files[s]]
  /\ dumps' = [s \in Stamps |-> IF Old(s) THEN "none" ELSE dumps[s]]
  /\ Over(b)
  /\ UNCHANGED <<tree, still, clock, tmp, errors>>

\* handleDeleteBackup removes a file of the list.
Delete(s) ==
  /\ files[s].state # "none" \/ dumps[s] # "none"
  /\ \/ files' = [files EXCEPT ![s] = None] /\ dumps' = dumps
     \/ dumps' = [dumps EXCEPT ![s] = "none"] /\ files' = files
  /\ job' = [b \in Runners |->
       IF s \notin {job[b].stamp, job[b].dumpStamp} THEN job[b]
       ELSE IF Doing(b, "idle") THEN job[b] ELSE [job[b] EXCEPT !.clean = FALSE]]
  /\ UNCHANGED <<tree, still, clock, tmp, errors>>

\* The context is done or the panel dies; a dump under way goes on.
Abandon(b) ==
  /\ job[b].at \notin {"idle", "orphan"} /\ Error
  /\ IF Doing(b, "dumping") THEN Then(b, "orphan") ELSE Over(b)
  /\ still' = still \ {b}
  /\ UNCHANGED <<tree, clock, files, dumps, tmp>>

Next ==
  \/ Tick
  \/ \E b \in Runners :
       \/ Start(b) \/ Walk(b) \/ Dump(b) \/ Dumped(b) \/ Fetch(b) \/ Prune(b) \/ Abandon(b)
  \/ \E s \in Stamps : Delete(s)

Spec == Init /\ [][Next]_vars

-----------------------------------------------------------------------------
(* Properties.                                                             *)

AllQuiet == \A b \in Runners : Doing(b, "idle")

\* Backups of the account that overlap, in the same second or over the same
\* dump, may spoil each other, but unless something fails no file is left
\* half written in the list of backups, and none in MariaDB's container.
NoLeftovers ==
  AllQuiet /\ errors = 0 => tmp = None /\ \A s \in Stamps : files[s].state # "open"

Complete(b) ==
  job[b].clean => files'[job[b].stamp].state = "whole" /\ dumps'[job[b].dumpStamp] = "whole"

\* "Un backup completo (archivos + bases de datos) ... y purga los backups
\* vencidos": what is old goes only once a new backup is complete, and the
\* new one stays.  It holds while nothing fails and nobody else is at the
\* account's files or backups.
KeepsABackup ==
  [][\A b \in Runners :
       Doing(b, "prune") /\ job'[b].at = "idle" /\ errors = 0 => Complete(b)]_vars

\* The same when calls or commands may fail, as "mysqldump de %s terminó con
\* código %d" has it: a backup whose dump failed must not purge the others.
PurgesOnlyAfterSuccess ==
  [][\A b \in Runners :
       Doing(b, "prune") /\ job'[b].at = "idle" /\ errors' = errors => Complete(b)]_vars

-----------------------------------------------------------------------------
(* What makes the properties inductive.                                    *)

\* As long as nothing failed, whoever opened a file or dumped into MariaDB's
\* container is still at it.
LeftInv ==
  errors = 0 =>
    /\ \A b \in Runners : ~Doing(b, "orphan")
    /\ \A s \in Stamps : files[s].state = "open" =>
         \E b \in Runners : Doing(b, "walk") /\ job[b].stamp = s
    /\ tmp # None => \E b \in Runners : job[b].at \in {"dumping", "read"}

\* No run outlives what it writes.
AgeInv ==
  \A b \in Runners : job[b].at \notin {"idle", "orphan"} =>
    /\ clock <= job[b].stamp + Retention
    /\ job[b].at \in {"dumping", "read", "prune"} => job[b].stamp <= job[b].dumpStamp

\* A run that nobody disturbs is the only one, and has what it has done so far.
Sofar(b) ==
  /\ job[b].at = "walk" => files[job[b].stamp] = Open(b)
  /\ job[b].at \in {"dump", "dumping", "read", "prune"} => files[job[b].stamp].state = "whole"
  /\ job[b].at = "dumping" => tmp = Open(b)
  /\ job[b].at = "read" => tmp.state = "whole"
  /\ job[b].at = "prune" => dumps[job[b].dumpStamp] = "whole"
CleanInv ==
  /\ \A b, c \in Runners : b # c /\ ~Doing(b, "idle") /\ ~Doing(c, "idle") => ~job[b].clean
  /\ errors = 0 => \A b \in Runners : job[b].clean => Sofar(b)

IInv == TypeOK /\ LeftInv /\ AgeInv /\ CleanInv

=============================================================================
