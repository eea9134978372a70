------------------------------ MODULE GitDeploy ------------------------------
(***************************************************************************)
(* Deployments of one site from its Git repository (git.go): the requests  *)
(* and webhook goroutines that run git and composer inside the site's      *)
(* container, the key they leave there for as long as they need it, the    *)
(* tree under /app, and the row that says how the last deployment went.    *)
(*                                                                         *)
(* A command goes on inside the container when the context of the call     *)
(* that started it is done, or the panel dies; a restart of the container  *)
(* kills it.                                                               *)
(***************************************************************************)
EXTENDS Naturals

CONSTANTS
  Deployers,   \* goroutines that may run GitDeploy
  NoOne,       \* none of them
  MaxFaults    \* bound on failed calls and commands and on lost contexts

VARIABLES
  status,   \* last_deploy_status; "none": no row
  tree,     \* what is under /app: a clone, the whole of a commit, with that
            \* commit's packages, and whose command wrote it last
  still,    \* readers of the files that have seen no write so far
  key,      \* is the deploy key in the container's /tmp?
  dep,      \* what each deployer is doing
  faults

site == <<tree, still>>
vars == <<status, site, key, dep, faults>>

\* apart: no other deployment's command has run beside its own, or since.
Idle == [at |-> "idle", ok |-> FALSE, dead |-> FALSE, apart |-> FALSE]
Mine == [git |-> FALSE, whole |-> TRUE, deps |-> TRUE, by |-> NoOne]
Bare(d) == [git |-> FALSE, whole |-> FALSE, deps |-> FALSE, by |-> d]
Torn(d) == [tree EXCEPT !.whole = FALSE, !.deps = FALSE, !.by = d]

\* Where a command that writes the tree may be running, and where it is.
MidWay == {"clone", "cloning", "reset", "resetting"}
Running == MidWay \cup {"clean", "fetch", "composer"}

TypeOK ==
  /\ status \in {"none", "never", "running", "failed", "success"}
  /\ tree \in [git : BOOLEAN, whole : BOOLEAN, deps : BOOLEAN, by : Deployers \cup {NoOne}]
  /\ key \in BOOLEAN
  /\ dep \in [Deployers ->
       [ok : BOOLEAN, dead : BOOLEAN, apart : BOOLEAN,
        at : {"idle", "mark", "key", "probe", "restart", "rmkey", "record"} \cup Running]]
  /\ faults \in 0 .. MaxFaults
  /\ \A d \in Deployers : dep[d].at = "idle" <=> dep[d] = Idle

Init ==
  /\ status = "none" /\ tree = Mine /\ still = {} /\ key = FALSE
  /\ dep = [d \in Deployers |-> Idle] /\ faults = 0

Works == faults' = faults
Fault == faults < MaxFaults /\ faults' = faults + 1

At(d, at) == dep[d].at = at
GoTo(d, at) == dep' = [dep EXCEPT ![d].at = at]
End(d) == dep' = [dep EXCEPT ![d] = Idle]
Others(d) == {q \in Deployers \ {d} : dep[q].at \in Running}
Writes(t) == tree' = t /\ still' = {}

\* A command is over, or has failed, which leads to the deferred rm and then
\* to the row, unless nobody waits for it any more.
Done(d, at) == IF dep[d].dead THEN End(d) ELSE GoTo(d, at)
Fails(d) == Done(d, "rmkey")

Begins(d) == At(d, "idle") /\ GoTo(d, "mark")

\* handleConnectSiteGit: the row if there is none (its key keeps a second
\* INSERT out), and a first deployment.
Connect(d) ==
  /\ Begins(d)
  /\ status' = IF status = "none" THEN "never" ELSE status
  /\ UNCHANGED <<site, key, faults>>

\* handleSiteGitDeploy, or a webhook's goroutine.
Deploy(d) ==
  /\ status # "none"
  /\ Begins(d)
  /\ UNCHANGED <<status, site, key, faults>>

Disconnect ==
  /\ status # "none"
  /\ status' = "none"
  /\ UNCHANGED <<site, key, dep, faults>>

\* RecordGitDeploy: an UPDATE, whose error is ignored.
Recorded(s) ==
  \/ Works /\ status' = IF status = "none" THEN "none" ELSE s
  \/ Fault /\ status' = status

Mark(d) ==
  /\ At(d, "mark") /\ Recorded("running") /\ GoTo(d, "key")
  /\ UNCHANGED <<site, key>>

PutKey(d) ==
  /\ At(d, "key")
  /\ \/ Works /\ key' = TRUE /\ GoTo(d, "probe")
     \/ Fault /\ key' \in {key, TRUE} /\ GoTo(d, "record")
  /\ UNCHANGED <<status, site>>

\* test -d /app/.git decides on the command, which from now on may be running.
Probe(d) ==
  /\ At(d, "probe")
  /\ \/ /\ Works
        /\ dep' = [q \in Deployers |->
             [dep[q] EXCEPT !.at = IF q # d THEN @ ELSE IF tree.git THEN "fetch" ELSE "clean",
                            !.apart = q = d /\ Others(d) = {}]]
     \/ Fault /\ Fails(d)
  /\ UNCHANGED <<status, site, key>>

-----------------------------------------------------------------------------
(* The commands.                                                           *)

\* find /app ... rm -rf, which takes away what it finds on its way.
Clean(d) ==
  /\ At(d, "clean")
  /\ \/ /\ Works /\ GoTo(d, "clone")
        /\ \E t \in {Bare(d)} \cup {Torn(d) : q \in Others(d)} : Writes(t)
     \/ Fault /\ Fails(d) /\ UNCHANGED site
  /\ UNCHANGED <<status, key>>

\* && git clone, which wants an empty directory and the key.
Clone(d) ==
  /\ At(d, "clone") /\ Works
  /\ IF key /\ ~tree.git
     THEN Writes([Bare(d) EXCEPT !.git = TRUE]) /\ GoTo(d, "cloning")
     ELSE UNCHANGED site /\ Fails(d)
  /\ UNCHANGED <<status, key>>

\* git fetch brings objects and leaves the files alone.  What a command that
\* was killed has left (half a clone, a lock) may be beyond repair, and one
\* fetch may be in another's way.
Fetch(d) ==
  /\ At(d, "fetch")
  /\ \/ Works /\ key /\ tree.git /\ GoTo(d, "reset")
     \/ /\ IF key /\ tree.git /\ tree.whole /\ Others(d) = {} THEN Fault ELSE Works
        /\ Fails(d)
  /\ Writes(tree)
  /\ UNCHANGED <<status, key>>

\* && git reset --hard, one at a time: there is one index.lock.
Reset(d) ==
  /\ At(d, "reset") /\ Works
  /\ \/ /\ tree.git /\ \A q \in Others(d) : ~At(q, "resetting")
        /\ Writes(Torn(d)) /\ GoTo(d, "resetting")
     \/ /\ ~(tree.git /\ tree.whole /\ Others(d) = {})
        /\ UNCHANGED site /\ Fails(d)
  /\ UNCHANGED <<status, key>>

Undisturbed(d) == tree.by = d /\ tree.git

\* What two commands that wrote the files at once may leave.
Mixed(d) ==
  {tree} \cup {[git |-> tree.git, whole |-> w, deps |-> FALSE, by |-> d] : w \in {FALSE, tree.git}}

\* Mutant: git's exit code is not looked at.
Mutant_CheckedOut(d) ==
  /\ dep[d].at \in {"cloning", "resetting"}
  /\ \/ /\ Undisturbed(d)
        /\ \/ Works /\ Writes([tree EXCEPT !.whole = TRUE])
           \/ Fault /\ Writes(IF At(d, "cloning") THEN Bare(d) ELSE tree)
     \/ ~Undisturbed(d) /\ Works /\ \E t \in Mixed(d) : Writes(t)
  /\ Done(d, "composer")
  /\ UNCHANGED <<status, key>>

\* The clone or the reset ends: the files are there.  A clone that ends badly
\* takes away what it finds in its directory.
CheckedOut(d) ==
  /\ dep[d].at \in {"cloning", "resetting"}
  /\ \/ /\ Undisturbed(d)
        /\ \/ Works /\ Writes([tree EXCEPT !.whole = TRUE]) /\ Done(d, "composer")
           \/ Fault /\ Writes(IF At(d, "cloning") THEN Bare(d) ELSE tree) /\ Fails(d)
     \/ /\ ~Undisturbed(d) /\ Works
        /\ \/ \E t \in Mixed(d) : Writes(t) /\ (Done(d, "composer") \/ Fails(d))
           \/ At(d, "cloning") /\ Writes(Bare(d)) /\ Fails(d)
  /\ UNCHANGED <<status, key>>

\* composer install || true: a composer that fails passes for one that went
\* well, and only a call that fails is noticed.
Composer(d) ==
  /\ At(d, "composer")
  /\ \E deps \in BOOLEAN :
       /\ Writes([tree EXCEPT !.deps = deps, !.by = d])
       /\ \/ /\ IF tree.by = d /\ Others(d) = {} /\ ~deps THEN Fault ELSE Works
             /\ Done(d, "restart")
          \/ Fault /\ ~deps /\ Fails(d)
  /\ UNCHANGED <<status, key>>

\* The container is restarted, and the commands of other deployments that run
\* in it are killed, leaving what they have written so far.
Restart(d) ==
  /\ At(d, "restart")
  /\ \E ok \in BOOLEAN, killed \in SUBSET Others(d) :
       /\ IF ok THEN Works ELSE Fault
       /\ ok => {q \in Others(d) : dep[q].at \in MidWay \/ dep[q].dead} \subseteq killed
       /\ dep' = [q \in Deployers |->
            IF q = d THEN [dep[d] EXCEPT !.at = "rmkey", !.ok = ok]
            ELSE IF q \notin killed THEN dep[q]
            ELSE IF dep[q].dead THEN Idle ELSE [dep[q] EXCEPT !.at = "rmkey"]]
       /\ \/ UNCHANGED site
          \/ \E q \in killed : Writes(Torn(q))
  /\ UNCHANGED <<status, key>>

-----------------------------------------------------------------------------
(* The end of a deployment.                                                *)

\* Mutant: only a deployment that failed cleans up.
Mutant_RemoveKey(d) ==
  /\ At(d, "rmkey") /\ Works
  /\ key' = (key /\ dep[d].ok)
  /\ GoTo(d, "record")
  /\ UNCHANGED <<status, site>>

\* The deferred rm; its error is ignored.
RemoveKey(d) ==
  /\ At(d, "rmkey")
  /\ \/ Works /\ key' = FALSE
     \/ Fault /\ key' = key
  /\ GoTo(d, "record")
  /\ UNCHANGED <<status, site>>

\* Mutant: a word the column's CHECK does not know.
Mutant_Record(d) ==
  /\ At(d, "record") /\ Recorded(IF dep[d].ok THEN "success" ELSE "error") /\ End(d)
  /\ UNCHANGED <<site, key>>

Record(d) ==
  /\ At(d, "record") /\ Recorded(IF dep[d].ok THEN "success" ELSE "failed") /\ End(d)
  /\ UNCHANGED <<site, key>>

\* The context is done (a client gone, 120 seconds, a webhook's 5 minutes) or
\* the panel dies: every call after that fails, the last one included, but a
\* command that has been started goes on.
ContextDone(d) ==
  /\ ~At(d, "idle") /\ ~dep[d].dead /\ Fault
  /\ \/ dep[d].at \in Running /\ dep' = [dep EXCEPT ![d].dead = TRUE]
     \/ dep[d].at \notin MidWay /\ End(d)
  /\ UNCHANGED <<status, site, key>>

Next ==
  \/ Disconnect
  \/ \E d \in Deployers :
       \/ Connect(d) \/ Deploy(d) \/ Mark(d) \/ PutKey(d) \/ Probe(d)
       \/ Clean(d) \/ Clone(d) \/ Fetch(d) \/ Reset(d) \/ CheckedOut(d) \/ Composer(d)
       \/ Restart(d) \/ RemoveKey(d) \/ Record(d) \/ ContextDone(d)

Spec == Init /\ [][Next]_vars

-----------------------------------------------------------------------------
(* Properties.                                                             *)

Quiet == \A d \in Deployers : At(d, "idle")

\* "Se sube justo antes del pull y se borra después": however deployments
\* overlap, and whether they go well or not, once they are over no key is
\* left in the container and no row says running, unless a call failed.
Settles == Quiet /\ faults = 0 => ~key /\ status # "running"

\* Success is said of a deployment whose commands had the tree for themselves
\* (commands that outlived their own deployment counted) only when the tree is
\* a whole commit, whatever was left by those before it, and, if nothing has
\* failed, has that commit's packages: a composer that fails is not noticed.
SuccessIsWhole ==
  [][\A d \in Deployers :
       At(d, "record") /\ dep'[d].at = "idle" /\ status' # status /\ status' = "success"
         /\ dep[d].apart =>
         tree.whole /\ tree.git /\ (faults = 0 => tree.deps)]_vars

-----------------------------------------------------------------------------
(* What makes the properties inductive.                                    *)

\* As long as no call failed, the key in the container is that of a
\* deployment that will remove it, and the row says running for one that
\* will write it again.
Holding == {"probe", "restart", "rmkey"} \cup Running
SettleInv ==
  faults = 0 =>
    /\ \A d \in Deployers : ~dep[d].dead
    /\ key => \E d \in Deployers : dep[d].at \in Holding
    /\ status = "running" => \E d \in Deployers : dep[d].at \notin {"idle", "mark"}

\* Whose commands had the tree for themselves finds it as it left it.
ApartInv ==
  /\ \A d \in Deployers : dep[d].apart => Others(d) = {}
  /\ \A d \in Deployers : dep[d].ok => dep[d].at \in {"rmkey", "record"}
  /\ \A d \in Deployers : dep[d].dead => dep[d].at \in Running
  /\ \A d \in Deployers : dep[d].apart =>
       /\ dep[d].at \in {"cloning", "resetting", "composer"} => Undisturbed(d)
       /\ dep[d].at \in {"composer", "restart"} \/ dep[d].ok => tree.whole /\ tree.git
       /\ (dep[d].at = "restart" \/ dep[d].ok) /\ faults = 0 => tree.deps

IInv == TypeOK /\ SettleInv /\ ApartInv

=============================================================================
