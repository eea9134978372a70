------------------------- MODULE AccountFiles_proofs -------------------------
(***************************************************************************)
(* Proofs about AccountFiles for any number of deployers and runners, any  *)
(* retention and any bounds: the types of both components, what their      *)
(* goroutines leave behind, and what success and a purge say of the files, *)
(* each with the other component at work on the same tree.                 *)
(***************************************************************************)
EXTENDS AccountFiles, TLAPS

LEMMA BoundsFacts ==
  /\ Retention \in Nat /\ Retention > 0
  /\ MaxFaults \in Nat /\ MaxClock \in Nat /\ MaxErrors \in Nat
BY BoundsAssumption

-----------------------------------------------------------------------------
(* Deployments: how an action changes what the deployers are doing.        *)

Ats == {"idle", "mark", "key", "probe", "clean", "clone", "cloning", "fetch",
        "reset", "resetting", "composer", "restart", "rmkey", "record"}
Reports == [ok : BOOLEAN, dead : BOOLEAN, apart : BOOLEAN, at : Ats]
Trees == [git : BOOLEAN, whole : BOOLEAN, deps : BOOLEAN, by : Deployers \cup {NoOne}]

DepOK ==
  /\ dep \in [Deployers -> Reports]
  /\ \A d \in Deployers : dep[d].at = "idle" <=> dep[d] = Deploy!Idle

\* Beside one that has the tree for itself no command of another runs.
OneApart ==
  \A d, e \in Deployers : d # e /\ dep[d].apart => dep[e].at \notin Deploy!Running

\* Success is known only at the end, and only commands outlive their context.
Late ==
  /\ \A d \in Deployers : dep[d].ok => dep[d].at \in {"rmkey", "record"}
  /\ \A d \in Deployers : dep[d].dead => dep[d].at \in Deploy!Running

\* What a deployer that has the tree for itself finds there.
Finds(d) ==
  dep[d].apart =>
    /\ dep[d].at \in {"cloning", "resetting", "composer"} => tree.by = d /\ tree.git
    /\ dep[d].at \in {"composer", "restart"} \/ dep[d].ok => tree.whole /\ tree.git
    /\ (dep[d].at = "restart" \/ dep[d].ok) /\ faults = 0 => tree.deps
ApartFinds == \A d \in Deployers : Finds(d)

RestOK ==
  /\ status \in {"none", "never", "running", "failed", "success"}
  /\ tree \in Trees
  /\ key \in BOOLEAN
  /\ faults \in 0 .. MaxFaults

LEMMA AtsFacts == /\ Ats = {"idle", "mark", "key", "probe", "restart", "rmkey", "record"}
                             \cup Deploy!Running
                  /\ Deploy!Running \subseteq Deploy!Holding
                  /\ {"probe", "restart", "rmkey"} \subseteq Deploy!Holding
  BY DEF Ats, Deploy!Running, Deploy!MidWay, Deploy!Holding

LEMMA DeployParts ==
  Deploy!IInv <=> DepOK /\ RestOK /\ Deploy!SettleInv /\ OneApart /\ Late /\ ApartFinds
<1>1. Deploy!TypeOK <=> DepOK /\ RestOK
  BY AtsFacts DEF Deploy!TypeOK, DepOK, RestOK, Reports, Trees
<1>2. OneApart <=> \A d \in Deployers : dep[d].apart => Deploy!Others(d) = {}
  BY DEF OneApart, Deploy!Others
<1>3. Deploy!ApartInv <=> OneApart /\ Late /\ ApartFinds
  BY <1>2 DEF Deploy!ApartInv, Deploy!Undisturbed, Late, ApartFinds, Finds
<1> QED
  BY <1>1, <1>3 DEF Deploy!IInv

LEMMA DeployPartsNext ==
  Deploy!IInv' <=>
    DepOK' /\ RestOK' /\ Deploy!SettleInv' /\ OneApart' /\ Late' /\ ApartFinds'
  BY DeployParts, PTL

LEMMA IdleFacts ==
  /\ Deploy!Idle \in Reports /\ Deploy!Idle.at = "idle"
  /\ ~Deploy!Idle.ok /\ ~Deploy!Idle.dead /\ ~Deploy!Idle.apart
  /\ "idle" \notin Deploy!Running
  BY DEF Deploy!Idle, Reports, Ats, Deploy!Running, Deploy!MidWay

\* A deployer at work goes on to its next command.
LEMMA GoesOn ==
  ASSUME DepOK, NEW d \in Deployers, NEW a \in Ats \ {"idle"},
         dep[d].at # "idle", Deploy!GoTo(d, a)
  PROVE  /\ DepOK'
         /\ \A e \in Deployers \ {d} : dep'[e] = dep[e]
         /\ dep'[d].at = a /\ dep'[d].ok = dep[d].ok
         /\ dep'[d].dead = dep[d].dead /\ dep'[d].apart = dep[d].apart
<1>1. /\ dep' \in [Deployers -> Reports]
      /\ \A e \in Deployers \ {d} : dep'[e] = dep[e]
      /\ dep'[d].at = a /\ dep'[d].ok = dep[d].ok
      /\ dep'[d].dead = dep[d].dead /\ dep'[d].apart = dep[d].apart
  BY DEF DepOK, Deploy!GoTo, Reports, Ats
<1>2. DepOK'
  BY <1>1, IdleFacts DEF DepOK
<1> QED
  BY <1>1, <1>2

\* A deployer is done.
LEMMA Ends ==
  ASSUME DepOK, NEW d \in Deployers, Deploy!End(d)
  PROVE  /\ DepOK'
         /\ \A e \in Deployers \ {d} : dep'[e] = dep[e]
         /\ dep'[d].at = "idle" /\ ~dep'[d].ok /\ ~dep'[d].dead /\ ~dep'[d].apart
<1>1. /\ dep' \in [Deployers -> Reports]
      /\ \A e \in Deployers \ {d} : dep'[e] = dep[e]
      /\ dep'[d] = Deploy!Idle
  BY IdleFacts DEF DepOK, Deploy!End
<1>2. DepOK'
  BY <1>1, IdleFacts DEF DepOK
<1> QED
  BY <1>1, <1>2, IdleFacts

-----------------------------------------------------------------------------
(* Each action of a deployment keeps the invariant.                        *)

LEMMA DeployInit == Deploy!Init => Deploy!IInv
<1> SUFFICES ASSUME Deploy!Init PROVE Deploy!IInv
  OBVIOUS
<1>1. dep = [d \in Deployers |-> Deploy!Idle] /\ status = "none" /\ key = FALSE /\ faults = 0
  BY DEF Deploy!Init
<1>2. dep \in [Deployers -> Reports] /\ \A d \in Deployers : dep[d] = Deploy!Idle
  BY <1>1, IdleFacts
<1>3. DepOK /\ OneApart /\ Late /\ ApartFinds
  BY <1>2, IdleFacts DEF DepOK, OneApart, Late, ApartFinds, Finds
<1>4. tree \in Trees
  BY DEF Deploy!Init, Deploy!Mine, Trees
<1>5. RestOK
  <2>1. faults \in 0 .. MaxFaults
    BY <1>1, BoundsFacts
  <2>2. key \in BOOLEAN
    BY <1>1
  <2> QED
    BY <1>1, <1>4, <2>1, <2>2 DEF RestOK
<1>6. Deploy!SettleInv
  BY <1>1, <1>2, IdleFacts DEF Deploy!SettleInv
<1> QED
  BY <1>3, <1>5, <1>6, DeployParts

LEMMA DeployStutters ==
  ASSUME Deploy!IInv, UNCHANGED <<tree, deployVars>> PROVE Deploy!IInv'
<1>1. DepOK /\ RestOK /\ Deploy!SettleInv /\ OneApart /\ Late /\ ApartFinds
  BY DeployParts
<1> QED
  BY <1>1, DeployPartsNext DEF deployVars, DepOK, RestOK, Deploy!SettleInv, OneApart, Late,
                               ApartFinds, Finds, Deploy!Idle

LEMMA DisconnectStep == ASSUME Deploy!IInv, Deploy!Disconnect PROVE Deploy!IInv'
<1>1. DepOK /\ RestOK /\ Deploy!SettleInv /\ OneApart /\ Late /\ ApartFinds
  BY DeployParts
<1>2. status' = "none" /\ UNCHANGED <<tree, key, dep, faults>>
  BY DEF Deploy!Disconnect, Deploy!site
<1> QED
  BY <1>1, <1>2, DeployPartsNext DEF DepOK, RestOK, Deploy!SettleInv, OneApart, Late,
                                     ApartFinds, Finds, Deploy!Idle

LEMMA BeginStep ==
  ASSUME Deploy!IInv, NEW d \in Deployers, Deploy!Connect(d) \/ Deploy!Deploy(d)
  PROVE  Deploy!IInv'
<1>1. DepOK /\ RestOK /\ Deploy!SettleInv /\ OneApart /\ Late /\ ApartFinds
  BY DeployParts
<1>2. /\ dep[d].at = "idle" /\ dep' = [dep EXCEPT ![d].at = "mark"]
      /\ UNCHANGED <<tree, key, faults>>
      /\ status' \in {status, "never"}
  BY DEF Deploy!Connect, Deploy!Deploy, Deploy!Begins, Deploy!At, Deploy!GoTo, Deploy!site
<1>3. dep[d] = Deploy!Idle
  BY <1>1, <1>2 DEF DepOK
<1>4. /\ dep' \in [Deployers -> Reports]
      /\ \A e \in Deployers \ {d} : dep'[e] = dep[e]
      /\ dep'[d].at = "mark" /\ ~dep'[d].ok /\ ~dep'[d].dead /\ ~dep'[d].apart
  BY <1>1, <1>2, <1>3, IdleFacts DEF DepOK, Reports, Ats
<1>5. "mark" \notin Deploy!Running /\ dep[d].at \notin Deploy!Holding
  BY <1>2 DEF Deploy!Running, Deploy!MidWay, Deploy!Holding
<1>6. DepOK'
  BY <1>1, <1>4, IdleFacts DEF DepOK
<1>7. RestOK'
  BY <1>1, <1>2 DEF RestOK
<1>8. OneApart' /\ Late'
  BY <1>1, <1>4, <1>5 DEF OneApart, Late
<1>9. ApartFinds'
  BY <1>1, <1>2, <1>4 DEF ApartFinds, Finds
<1>10. Deploy!SettleInv'
  BY <1>1, <1>2, <1>4, <1>5 DEF Deploy!SettleInv
<1> QED
  BY <1>6, <1>7, <1>8, <1>9, <1>10, DeployPartsNext

\* What becomes of the settled part when d goes on to a, or ends, and the
\* others stay.
LEMMA StillSettled ==
  ASSUME Deploy!SettleInv, faults' = 0 => faults = 0, NEW d \in Deployers, NEW a,
         dep'[d].at = a, faults = 0 => ~dep'[d].dead,
         \A e \in Deployers \ {d} : dep'[e] = dep[e],
         faults' = 0 /\ key' =>
           a \in Deploy!Holding \/ (key /\ dep[d].at \notin Deploy!Holding),
         faults' = 0 /\ status' = "running" =>
           \/ a \notin {"idle", "mark"}
           \/ status = "running" /\ dep[d].at \in {"idle", "mark"}
  PROVE  Deploy!SettleInv'
<1>1. SUFFICES ASSUME faults' = 0
               PROVE  /\ \A e \in Deployers : ~dep'[e].dead
                      /\ key' => \E e \in Deployers : dep'[e].at \in Deploy!Holding
                      /\ status' = "running" =>
                           \E e \in Deployers : dep'[e].at \notin {"idle", "mark"}
  BY DEF Deploy!SettleInv
<1>2. /\ faults = 0
      /\ \A e \in Deployers : ~dep[e].dead
      /\ key => \E e \in Deployers : dep[e].at \in Deploy!Holding
      /\ status = "running" => \E e \in Deployers : dep[e].at \notin {"idle", "mark"}
  BY <1>1 DEF Deploy!SettleInv
<1>3. \A e \in Deployers : ~dep'[e].dead
  BY <1>2
<1>4. key' => \E e \in Deployers : dep'[e].at \in Deploy!Holding
  BY <1>1, <1>2
<1>5. status' = "running" => \E e \in Deployers : dep'[e].at \notin {"idle", "mark"}
  BY <1>1, <1>2
<1> QED
  BY <1>3, <1>4, <1>5

\* A deployer at work goes on to a, or is done when that is "idle".  While its
\* command runs nobody else has the tree for itself, and when none does it
\* leaves the tree alone, so that what d does matters to d alone.
LEMMA OneGoes ==
  ASSUME Deploy!IInv, RestOK', faults <= faults',
         NEW d \in Deployers, dep[d].at # "idle", NEW a \in Ats,
         a # "idle" => Deploy!GoTo(d, a),
         a = "idle" => Deploy!End(d) /\ (faults' = 0 => dep[d].at = "record"),
         a \in Deploy!Running => dep[d].at \in Deploy!Running,
         dep[d].dead => a \in Deploy!Running \cup {"idle"},
         dep[d].at \notin Deploy!Running => tree' = tree,
         faults' = 0 /\ key' =>
           a \in Deploy!Holding \/ (key /\ dep[d].at \notin Deploy!Holding),
         faults' = 0 /\ status' = "running" => a \notin {"idle", "mark"},
         dep[d].ok => a \in {"rmkey", "record", "idle"},
         dep[d].apart =>
           /\ a \in {"cloning", "resetting", "composer"} => tree'.by = d /\ tree'.git
           /\ a \in {"composer", "restart"} => tree'.whole /\ tree'.git
           /\ a = "restart" /\ faults' = 0 => tree'.deps
  PROVE  Deploy!IInv'
<1>1. DepOK /\ RestOK /\ Deploy!SettleInv /\ OneApart /\ Late /\ ApartFinds
  BY DeployParts
<1>2. /\ DepOK' /\ dep'[d].at = a
      /\ \A e \in Deployers \ {d} : dep'[e] = dep[e]
      /\ a # "idle" => /\ dep'[d].ok = dep[d].ok /\ dep'[d].dead = dep[d].dead
                       /\ dep'[d].apart = dep[d].apart
      /\ a = "idle" => ~dep'[d].ok /\ ~dep'[d].dead /\ ~dep'[d].apart
  BY <1>1, GoesOn, Ends
<1>3. faults' = 0 => faults = 0
  BY <1>1 DEF RestOK
<1>4. OneApart'
  BY <1>1, <1>2 DEF OneApart
<1>5. Late'
  BY <1>1, <1>2 DEF Late
<1>6. ApartFinds'
  <2>1. ASSUME NEW e \in Deployers \ {d} PROVE Finds(e)'
    <3>1. SUFFICES ASSUME dep[e].apart PROVE Finds(e)'
      BY <1>2 DEF Finds
    <3>2. tree' = tree
      BY <1>1, <3>1 DEF OneApart
    <3> QED
      BY <1>1, <1>2, <1>3, <3>2 DEF ApartFinds, Finds
  <2>2. Finds(d)'
    <3>1. SUFFICES ASSUME dep'[d].apart PROVE Finds(d)'
      BY DEF Finds
    <3>2. a # "idle" /\ dep[d].apart /\ dep'[d].ok = dep[d].ok
      BY <1>2, <3>1
    <3>3. CASE dep[d].ok
      <4>1. dep[d].at \notin Deploy!Running
        BY <1>1, <3>3 DEF Late, Deploy!Running, Deploy!MidWay
      <4> QED
        BY <1>1, <1>2, <1>3, <3>2, <3>3, <4>1 DEF ApartFinds, Finds
    <3>4. CASE ~dep[d].ok
      BY <1>2, <3>2, <3>4 DEF Finds
    <3> QED
      BY <3>3, <3>4
  <2> QED
    BY <2>1, <2>2 DEF ApartFinds
<1>7. faults = 0 => ~dep'[d].dead
  BY <1>1, <1>2 DEF Deploy!SettleInv
<1>8. Deploy!SettleInv'
  BY <1>1, <1>2, <1>3, <1>7, StillSettled
<1> QED
  BY <1>2, <1>4, <1>5, <1>6, <1>8, DeployPartsNext

\* What the bounded failures leave in range.
LEMMA Faults ==
  ASSUME RestOK
  PROVE  /\ Deploy!Works => faults' = faults /\ faults' \in 0 .. MaxFaults /\ faults <= faults'
         /\ Deploy!Fault => /\ faults' \in 0 .. MaxFaults /\ faults <= faults'
                            /\ faults' # 0
BY BoundsFacts DEF RestOK, Deploy!Works, Deploy!Fault

LEMMA MarkStep ==
  ASSUME Deploy!IInv, NEW d \in Deployers, Deploy!Mark(d) PROVE Deploy!IInv'
<1>1. /\ RestOK /\ dep[d].at = "mark" /\ Deploy!GoTo(d, "key") /\ Late
      /\ UNCHANGED <<tree, key>>
      /\ status' \in {"none", "running", status}
      /\ Deploy!Works \/ Deploy!Fault
  BY DeployParts DEF Deploy!Mark, Deploy!At, Deploy!Recorded, Deploy!site
<1>2. RestOK' /\ faults <= faults'
  BY <1>1, Faults DEF RestOK
<1>3. ~dep[d].ok /\ ~dep[d].dead
  BY <1>1 DEF Late, Deploy!Running, Deploy!MidWay
<1>4. faults' = 0 /\ key' => key /\ dep[d].at \notin Deploy!Holding
  BY <1>1 DEF Deploy!Holding, Deploy!Running, Deploy!MidWay
<1>5. "key" \notin Deploy!Running /\ "key" \in Ats
  BY DEF Deploy!Running, Deploy!MidWay, Ats
<1> QED
  BY <1>1, <1>2, <1>3, <1>4, <1>5, OneGoes

LEMMA PutKeyStep ==
  ASSUME Deploy!IInv, NEW d \in Deployers, Deploy!PutKey(d) PROVE Deploy!IInv'
<1>1. RestOK /\ dep[d].at = "key" /\ Late /\ UNCHANGED <<status, tree>>
  BY DeployParts DEF Deploy!PutKey, Deploy!At, Deploy!site
<1>2. ~dep[d].ok /\ ~dep[d].dead
  BY <1>1 DEF Late, Deploy!Running, Deploy!MidWay
<1>3. PICK a \in {"probe", "record"} :
        /\ Deploy!GoTo(d, a) /\ key' \in BOOLEAN
        /\ (a = "probe" /\ Deploy!Works) \/ Deploy!Fault
  BY <1>1 DEF Deploy!PutKey, RestOK
<1>4. RestOK' /\ faults <= faults' /\ (a = "record" => faults' # 0)
  BY <1>1, <1>3, Faults DEF RestOK
<1>5. faults' = 0 /\ key' => a \in Deploy!Holding
  BY <1>3, <1>4 DEF Deploy!Holding
<1>6. a \notin Deploy!Running /\ a \in Ats \ {"idle", "mark", "restart"}
  BY DEF Deploy!Running, Deploy!MidWay, Ats
<1> QED
  BY <1>1, <1>2, <1>3, <1>4, <1>5, <1>6, OneGoes

\* d goes on to a, and nobody but d has the tree for itself.
Taken(d, a) ==
  /\ dep' \in [Deployers -> Reports]
  /\ dep'[d].at = a /\ dep'[d].ok = dep[d].ok /\ dep'[d].dead = dep[d].dead
  /\ dep'[d].apart => \A e \in Deployers \ {d} : dep[e].at \notin Deploy!Running
  /\ \A e \in Deployers \ {d} :
       /\ dep'[e].at = dep[e].at /\ dep'[e].ok = dep[e].ok /\ dep'[e].dead = dep[e].dead
       /\ ~dep'[e].apart
       /\ dep[e] = Deploy!Idle => dep'[e] = Deploy!Idle

\* The first command: from now on others do not have the tree for themselves.
LEMMA ProbeTakes ==
  ASSUME Deploy!IInv, NEW d \in Deployers, NEW a \in {"fetch", "clean"},
         dep' = [q \in Deployers |->
           [dep[q] EXCEPT !.at = IF q # d THEN @ ELSE a,
                          !.apart = q = d /\ Deploy!Others(d) = {}]]
  PROVE  Taken(d, a)
<1>1. DepOK
  BY DeployParts
<1>2. a \in Ats
  BY DEF Ats
<1> DEFINE mine == Deploy!Others(d) = {}
<1>3. /\ dep' \in [Deployers -> Reports]
      /\ dep'[d].at = a /\ dep'[d].ok = dep[d].ok /\ dep'[d].dead = dep[d].dead
      /\ dep'[d].apart => mine
      /\ \A e \in Deployers \ {d} :
           /\ dep'[e].at = dep[e].at /\ dep'[e].ok = dep[e].ok /\ dep'[e].dead = dep[e].dead
           /\ ~dep'[e].apart
           /\ dep[e] = Deploy!Idle => dep'[e] = Deploy!Idle
  <2>1. mine \in BOOLEAN /\ \A e \in Deployers : dep[e] \in Reports
    BY <1>1 DEF DepOK
  <2>2. dep'[d] = [dep[d] EXCEPT !.at = a, !.apart = mine]
    BY <2>1
  <2>3. \A e \in Deployers \ {d} : dep'[e] = [dep[e] EXCEPT !.apart = FALSE]
    <3>1. \A e \in Deployers \ {d} : dep'[e] = [dep[e] EXCEPT !.at = @, !.apart = FALSE]
      <4>1. \A e \in Deployers \ {d} : (e = d /\ mine) = FALSE
        OBVIOUS
      <4> QED
        BY <4>1
    <3> QED
      BY <2>1, <3>1 DEF Reports
  <2>4. dep' = [e \in Deployers |-> dep'[e]]
    OBVIOUS
  <2> HIDE DEF mine
  <2>5. /\ dep'[d] \in Reports
        /\ dep'[d].at = a /\ dep'[d].ok = dep[d].ok /\ dep'[d].dead = dep[d].dead
        /\ dep'[d].apart => mine
    BY <1>2, <2>1, <2>2 DEF Reports
  <2>6. ASSUME NEW e \in Deployers \ {d}
        PROVE  /\ dep'[e] \in Reports
               /\ dep'[e].at = dep[e].at /\ dep'[e].ok = dep[e].ok
               /\ dep'[e].dead = dep[e].dead /\ ~dep'[e].apart
               /\ dep[e] = Deploy!Idle => dep'[e] = Deploy!Idle
    <3>1. dep[e] \in Reports /\ dep'[e] = [dep[e] EXCEPT !.apart = FALSE]
      BY <2>1, <2>3
    <3>2. [Deploy!Idle EXCEPT !.apart = FALSE] = Deploy!Idle
      BY IdleFacts DEF Reports
    <3>3. dep[e] = Deploy!Idle => dep'[e] = Deploy!Idle
      BY <3>1, <3>2
    <3> QED
      BY <3>1, <3>3 DEF Reports
  <2> QED
    BY <2>4, <2>5, <2>6
<1>4. dep'[d].apart => \A e \in Deployers \ {d} : dep[e].at \notin Deploy!Running
  <2>1. dep'[d].apart => mine
    BY <1>3, Zenon
  <2>2. mine => \A e \in Deployers \ {d} : dep[e].at \notin Deploy!Running
    BY Zenon DEF Deploy!Others
  <2> QED
    BY <2>1, <2>2, Zenon
<1> HIDE DEF mine
<1> QED
  BY <1>3, <1>4 DEF Taken

\* Whoever takes the tree so keeps the invariant.
LEMMA TakenKeeps ==
  ASSUME Deploy!IInv, NEW d \in Deployers, dep[d].at = "probe", Deploy!Works,
         NEW a \in {"fetch", "clean"}, UNCHANGED <<status, tree, key>>, Taken(d, a)
  PROVE  Deploy!IInv'
<1>1. DepOK /\ RestOK /\ Deploy!SettleInv /\ OneApart /\ Late /\ ApartFinds
  BY DeployParts
<1>2. a \in Deploy!Running /\ a \in Ats /\ "probe" \notin Deploy!Running
  BY DEF Deploy!Running, Deploy!MidWay, Ats
<1>3. /\ dep' \in [Deployers -> Reports]
      /\ dep'[d].at = a /\ dep'[d].ok = dep[d].ok /\ dep'[d].dead = dep[d].dead
      /\ \A e \in Deployers \ {d} :
           /\ dep'[e].at = dep[e].at /\ dep'[e].ok = dep[e].ok /\ dep'[e].dead = dep[e].dead
           /\ ~dep'[e].apart
           /\ dep[e] = Deploy!Idle => dep'[e] = Deploy!Idle
  BY Zenon DEF Taken
<1>4. dep'[d].apart => \A e \in Deployers \ {d} : dep[e].at \notin Deploy!Running
  BY Zenon DEF Taken
<1>5. DepOK'
  <2>1. dep'[d].at # "idle" /\ dep'[d] # Deploy!Idle
    BY <1>2, <1>3, IdleFacts
  <2>2. ASSUME NEW e \in Deployers \ {d}, dep'[e].at = "idle" PROVE dep'[e] = Deploy!Idle
    BY <1>1, <1>3, <2>2 DEF DepOK
  <2>3. ASSUME NEW e \in Deployers \ {d}, dep'[e] = Deploy!Idle PROVE dep'[e].at = "idle"
    BY <2>3, IdleFacts
  <2>4. \A e \in Deployers : dep'[e].at = "idle" <=> dep'[e] = Deploy!Idle
    BY <2>1, <2>2, <2>3
  <2> QED
    BY <1>3, <2>4 DEF DepOK
<1>6. OneApart'
  <2>1. SUFFICES ASSUME NEW e \in Deployers, NEW f \in Deployers, e # f, dep'[e].apart
                 PROVE  dep'[f].at \notin Deploy!Running
    BY DEF OneApart
  <2>2. e = d
    BY <1>3, <2>1
  <2> QED
    BY <1>3, <1>4, <2>1, <2>2
<1>7. ~dep[d].ok /\ ~dep[d].dead
  BY <1>1, <1>2 DEF Late
<1>8. Late'
  BY <1>1, <1>2, <1>3, <1>7 DEF Late
<1>9. ApartFinds'
  BY <1>3, <1>7 DEF ApartFinds, Finds
<1>10. RestOK' /\ faults' = faults
  BY <1>1, Faults DEF RestOK
<1>11. Deploy!SettleInv'
  <2>1. dep'[d].at \in Deploy!Holding /\ dep'[d].at \notin {"idle", "mark"}
    BY <1>2, <1>3, AtsFacts
  <2>2. faults = 0 => \A e \in Deployers : ~dep'[e].dead
    BY <1>1, <1>3 DEF Deploy!SettleInv
  <2> QED
    BY <1>10, <2>1, <2>2 DEF Deploy!SettleInv
<1> QED
  BY <1>5, <1>6, <1>8, <1>9, <1>10, <1>11, DeployPartsNext

LEMMA ProbeStep ==
  ASSUME Deploy!IInv, NEW d \in Deployers, Deploy!Probe(d) PROVE Deploy!IInv'
<1>1. RestOK /\ dep[d].at = "probe" /\ Late /\ UNCHANGED <<status, tree, key>>
  BY DeployParts DEF Deploy!Probe, Deploy!At, Deploy!site
<1>2. ~dep[d].ok /\ ~dep[d].dead
  BY <1>1 DEF Late, Deploy!Running, Deploy!MidWay
<1>3. CASE Deploy!Fault /\ Deploy!Fails(d)
  <2>1. Deploy!GoTo(d, "rmkey")
    BY <1>2, <1>3 DEF Deploy!Fails, Deploy!Done
  <2>2. RestOK' /\ faults <= faults'
    BY <1>1, <1>3, Faults DEF RestOK
  <2>3. "rmkey" \in Deploy!Holding /\ "rmkey" \notin Deploy!Running /\ "rmkey" \in Ats
    BY DEF Deploy!Holding, Deploy!Running, Deploy!MidWay, Ats
  <2>4. faults' # 0 /\ "probe" \notin Deploy!Running
    BY <1>1, <1>3, Faults DEF RestOK, Deploy!Running, Deploy!MidWay
  <2> QED
    BY <1>1, <1>2, <2>1, <2>2, <2>3, <2>4, OneGoes
<1>4. CASE ~(Deploy!Fault /\ Deploy!Fails(d))
  <2> DEFINE a == IF tree.git THEN "fetch" ELSE "clean"
  <2>1. /\ Deploy!Works
        /\ dep' = [q \in Deployers |->
             [dep[q] EXCEPT !.at = IF q # d THEN @ ELSE a,
                            !.apart = q = d /\ Deploy!Others(d) = {}]]
    BY <1>4 DEF Deploy!Probe
  <2>2. a \in {"fetch", "clean"}
    BY Zenon
  <2> HIDE DEF a
  <2>3. Taken(d, a)
    BY <2>1, <2>2, ProbeTakes, Zenon
  <2> QED
    BY <1>1, <2>1, <2>2, <2>3, TakenKeeps
<1> QED
  BY <1>3, <1>4

\* While its command runs a deployer goes on to a, or, when nobody waits for
\* it any more, is done.
LEMMA CommandGoes ==
  ASSUME Deploy!IInv, NEW d \in Deployers, dep[d].at \in Deploy!Running,
         UNCHANGED <<status, key>>, tree' \in Trees, Deploy!Works \/ Deploy!Fault,
         NEW a \in Deploy!Running \cup {"restart", "rmkey", "idle"},
         a # "idle" => Deploy!GoTo(d, a),
         a = "idle" => Deploy!End(d) /\ dep[d].dead,
         dep[d].dead => a \in Deploy!Running \cup {"idle"},
         dep[d].apart =>
           /\ a \in {"cloning", "resetting", "composer"} => tree'.by = d /\ tree'.git
           /\ a \in {"composer", "restart"} => tree'.whole /\ tree'.git
           /\ a = "restart" /\ faults' = 0 => tree'.deps
  PROVE  Deploy!IInv'
<1>1. RestOK /\ Late /\ Deploy!SettleInv
  BY DeployParts
<1>2. RestOK' /\ faults <= faults' /\ (faults' = 0 => faults = 0)
  BY <1>1, Faults DEF RestOK
<1>3. a \in Ats /\ dep[d].at # "idle" /\ ~dep[d].ok
  BY <1>1, IdleFacts DEF Late, Ats, Deploy!Running, Deploy!MidWay
<1>4. a = "idle" => faults' # 0
  BY <1>1, <1>2 DEF Deploy!SettleInv
<1>5. a # "idle" => a \in Deploy!Holding /\ a # "mark"
  BY DEF Deploy!Holding, Deploy!Running, Deploy!MidWay
<1> QED
  BY <1>2, <1>3, <1>4, <1>5, OneGoes

LEMMA DoneFacts ==
  ASSUME NEW d \in Deployers, NEW x \in {"composer", "restart", "rmkey"}, Deploy!Done(d, x)
  PROVE  \E a \in {x, "idle"} :
           /\ a # "idle" => Deploy!GoTo(d, a) /\ ~dep[d].dead
           /\ a = "idle" => Deploy!End(d) /\ dep[d].dead
<1>1. CASE dep[d].dead
  BY <1>1 DEF Deploy!Done
<1>2. CASE ~dep[d].dead
  BY <1>2 DEF Deploy!Done
<1> QED
  BY <1>1, <1>2

\* A command that fails, whatever it leaves.
LEMMA CommandFails ==
  ASSUME Deploy!IInv, NEW d \in Deployers, dep[d].at \in Deploy!Running,
         UNCHANGED <<status, key>>, tree' \in Trees, Deploy!Works \/ Deploy!Fault,
         Deploy!Fails(d)
  PROVE  Deploy!IInv'
<1>1. PICK a \in {"rmkey", "idle"} :
        /\ a # "idle" => Deploy!GoTo(d, a) /\ ~dep[d].dead
        /\ a = "idle" => Deploy!End(d) /\ dep[d].dead
  BY DoneFacts DEF Deploy!Fails
<1> QED
  BY <1>1, CommandGoes

\* A command that goes on to the next one of the same shell.
LEMMA CommandWorks ==
  ASSUME Deploy!IInv, NEW d \in Deployers, dep[d].at \in Deploy!Running,
         UNCHANGED <<status, key>>, tree' \in Trees, Deploy!Works,
         NEW a \in {"clone", "cloning", "reset", "resetting"}, Deploy!GoTo(d, a),
         a \in {"cloning", "resetting"} => tree'.by = d /\ tree'.git
  PROVE  Deploy!IInv'
<1>1. a \in Deploy!Running /\ a \notin {"composer", "restart", "idle"}
  BY DEF Deploy!Running, Deploy!MidWay
<1> QED
  BY <1>1, CommandGoes

LEMMA TreesFacts ==
  ASSUME RestOK, NEW d \in Deployers
  PROVE  /\ tree \in Trees /\ Deploy!Bare(d) \in Trees /\ Deploy!Torn(d) \in Trees
         /\ Deploy!Torn(d).git = tree.git /\ Deploy!Torn(d).by = d
BY DEF RestOK, Trees, Deploy!Bare, Deploy!Torn

LEMMA CleanStep ==
  ASSUME Deploy!IInv, NEW d \in Deployers, Deploy!Clean(d) PROVE Deploy!IInv'
<1>1. RestOK /\ dep[d].at \in Deploy!Running /\ UNCHANGED <<status, key>>
  BY DeployParts DEF Deploy!Clean, Deploy!At, Deploy!Running, Deploy!MidWay
<1>2. CASE /\ Deploy!Works /\ Deploy!GoTo(d, "clone")
           /\ \E t \in {Deploy!Bare(d)} \cup {Deploy!Torn(d) : q \in Deploy!Others(d)} :
                Deploy!Writes(t)
  <2>1. tree' \in Trees
    BY <1>1, <1>2, TreesFacts DEF Deploy!Writes
  <2> QED
    BY <1>1, <1>2, <2>1, CommandWorks
<1>3. CASE Deploy!Fault /\ Deploy!Fails(d) /\ UNCHANGED Deploy!site
  <2>1. tree' \in Trees
    BY <1>1, <1>3 DEF RestOK, Deploy!site
  <2> QED
    BY <1>1, <1>3, <2>1, CommandFails
<1> QED
  BY <1>2, <1>3 DEF Deploy!Clean

LEMMA CloneStep ==
  ASSUME Deploy!IInv, NEW d \in Deployers, Deploy!Clone(d) PROVE Deploy!IInv'
<1>1. RestOK /\ dep[d].at \in Deploy!Running /\ UNCHANGED <<status, key>> /\ Deploy!Works
  BY DeployParts DEF Deploy!Clone, Deploy!At, Deploy!Running, Deploy!MidWay
<1>2. CASE key /\ ~tree.git
  <2>1. /\ tree' = [Deploy!Bare(d) EXCEPT !.git = TRUE]
        /\ Deploy!GoTo(d, "cloning")
    BY <1>2 DEF Deploy!Clone, Deploy!Writes
  <2>2. tree' \in Trees /\ tree'.by = d /\ tree'.git
    BY <2>1 DEF Trees, Deploy!Bare
  <2> QED
    BY <1>1, <2>1, <2>2, CommandWorks
<1>3. CASE ~(key /\ ~tree.git)
  <2>1. tree' = tree /\ Deploy!Fails(d)
    BY <1>3 DEF Deploy!Clone, Deploy!site
  <2>2. tree' \in Trees
    BY <1>1, <2>1 DEF RestOK
  <2> QED
    BY <1>1, <2>1, <2>2, CommandFails
<1> QED
  BY <1>2, <1>3

LEMMA FetchTreeStep ==
  ASSUME Deploy!IInv, NEW d \in Deployers, Deploy!Fetch(d) PROVE Deploy!IInv'
<1>1. /\ RestOK /\ dep[d].at \in Deploy!Running /\ UNCHANGED <<status, key>>
      /\ tree' = tree
  BY DeployParts DEF Deploy!Fetch, Deploy!At, Deploy!Running, Deploy!MidWay, Deploy!Writes
<1>2. tree' \in Trees
  BY <1>1 DEF RestOK
<1>3. CASE Deploy!Works /\ Deploy!GoTo(d, "reset")
  BY <1>1, <1>2, <1>3, CommandWorks
<1>4. CASE (Deploy!Works \/ Deploy!Fault) /\ Deploy!Fails(d)
  BY <1>1, <1>2, <1>4, CommandFails
<1> QED
  BY <1>3, <1>4 DEF Deploy!Fetch

LEMMA ResetStep ==
  ASSUME Deploy!IInv, NEW d \in Deployers, Deploy!Reset(d) PROVE Deploy!IInv'
<1>1. RestOK /\ dep[d].at \in Deploy!Running /\ UNCHANGED <<status, key>> /\ Deploy!Works
  BY DeployParts DEF Deploy!Reset, Deploy!At, Deploy!Running, Deploy!MidWay
<1>2. CASE tree.git /\ Deploy!Writes(Deploy!Torn(d)) /\ Deploy!GoTo(d, "resetting")
  <2>1. tree' \in Trees /\ tree'.by = d /\ tree'.git
    BY <1>1, <1>2, TreesFacts DEF Deploy!Writes
  <2> QED
    BY <1>1, <1>2, <2>1, CommandWorks
<1>3. CASE UNCHANGED Deploy!site /\ Deploy!Fails(d)
  <2>1. tree' \in Trees
    BY <1>1, <1>3 DEF RestOK, Deploy!site
  <2> QED
    BY <1>1, <1>3, <2>1, CommandFails
<1> QED
  BY <1>2, <1>3 DEF Deploy!Reset

\* What a checkout may leave, by one that had the tree for itself or not.
LEMMA CheckedOutStep ==
  ASSUME Deploy!IInv, NEW d \in Deployers, Deploy!CheckedOut(d) PROVE Deploy!IInv'
<1>1. /\ RestOK /\ dep[d].at \in Deploy!Running /\ UNCHANGED <<status, key>> /\ ApartFinds
      /\ dep[d].at \in {"cloning", "resetting"}
  BY DeployParts DEF Deploy!CheckedOut, Deploy!Running, Deploy!MidWay
<1>2. /\ tree \in Trees /\ Deploy!Bare(d) \in Trees
      /\ dep[d].apart => Deploy!Undisturbed(d)
  BY <1>1, TreesFacts DEF ApartFinds, Finds, Deploy!Undisturbed
<1>3. ASSUME tree' \in Trees, Deploy!Works, Deploy!Done(d, "composer"),
             dep[d].apart => tree'.by = d /\ tree'.git /\ tree'.whole
      PROVE  Deploy!IInv'
  <2>1. PICK a \in {"composer", "idle"} :
          /\ a # "idle" => Deploy!GoTo(d, a) /\ ~dep[d].dead
          /\ a = "idle" => Deploy!End(d) /\ dep[d].dead
    BY <1>3, DoneFacts
  <2>2. "composer" \in Deploy!Running
    BY DEF Deploy!Running
  <2> QED
    BY <1>1, <1>3, <2>1, <2>2, CommandGoes
<1>4. CASE Deploy!Undisturbed(d)
  <2>1. CASE /\ Deploy!Works /\ Deploy!Writes([tree EXCEPT !.whole = TRUE])
             /\ Deploy!Done(d, "composer")
    <3>1. tree' \in Trees /\ tree'.by = d /\ tree'.git /\ tree'.whole
      BY <1>2, <1>4, <2>1 DEF Trees, Deploy!Undisturbed, Deploy!Writes
    <3> QED
      BY <1>3, <2>1, <3>1
  <2>2. CASE /\ Deploy!Fault /\ Deploy!Fails(d)
             /\ Deploy!Writes(IF Deploy!At(d, "cloning") THEN Deploy!Bare(d) ELSE tree)
    <3>1. tree' \in Trees
      BY <1>2, <2>2 DEF Deploy!Writes
    <3> QED
      BY <1>1, <2>2, <3>1, CommandFails
  <2> QED
    BY <1>4, <2>1, <2>2 DEF Deploy!CheckedOut
<1>5. CASE ~Deploy!Undisturbed(d)
  <2>1. \A t \in Deploy!Mixed(d) : t \in Trees
    <3>1. /\ tree \in Trees /\ tree.git \in BOOLEAN
          /\ \A w \in BOOLEAN :
               [git |-> tree.git, whole |-> w, deps |-> FALSE, by |-> d] \in Trees
      BY <1>2 DEF Trees
    <3>2. {FALSE, tree.git} \subseteq BOOLEAN
      BY <3>1
    <3> QED
      BY <3>1, <3>2 DEF Deploy!Mixed
  <2>2. Deploy!Works /\ tree' \in Trees /\ (Deploy!Done(d, "composer") \/ Deploy!Fails(d))
    BY <1>2, <1>5, <2>1 DEF Deploy!CheckedOut, Deploy!Writes
  <2> QED
    BY <1>1, <1>2, <1>3, <1>5, <2>2, CommandFails
<1> QED
  BY <1>4, <1>5

\* Composer leaves the commit whole, and whether it leaves its packages is
\* known only of one that had the tree for itself while nothing failed.
LEMMA ComposerStep ==
  ASSUME Deploy!IInv, NEW d \in Deployers, Deploy!Composer(d) PROVE Deploy!IInv'
<1>1. /\ RestOK /\ dep[d].at \in Deploy!Running /\ dep[d].at = "composer"
      /\ UNCHANGED <<status, key>> /\ ApartFinds /\ OneApart
  BY DeployParts DEF Deploy!Composer, Deploy!At, Deploy!Running, Deploy!MidWay
<1>2. dep[d].apart => /\ tree.by = d /\ tree.git /\ tree.whole
                      /\ Deploy!Others(d) = {}
  BY <1>1 DEF ApartFinds, Finds, OneApart, Deploy!Others
<1>3. PICK deps \in BOOLEAN :
        /\ Deploy!Writes([tree EXCEPT !.deps = deps, !.by = d])
        /\ \/ /\ IF tree.by = d /\ Deploy!Others(d) = {} /\ ~deps THEN Deploy!Fault
                 ELSE Deploy!Works
              /\ Deploy!Done(d, "restart")
           \/ Deploy!Fault /\ ~deps /\ Deploy!Fails(d)
  BY DEF Deploy!Composer
<1>4. /\ tree' \in Trees /\ tree'.deps = deps
      /\ tree'.whole = tree.whole /\ tree'.git = tree.git
  BY <1>1, <1>3 DEF RestOK, Trees, Deploy!Writes
<1>5. CASE /\ IF tree.by = d /\ Deploy!Others(d) = {} /\ ~deps THEN Deploy!Fault
              ELSE Deploy!Works
           /\ Deploy!Done(d, "restart")
  <2>1. PICK a \in {"restart", "idle"} :
          /\ a # "idle" => Deploy!GoTo(d, a) /\ ~dep[d].dead
          /\ a = "idle" => Deploy!End(d) /\ dep[d].dead
    BY <1>5, DoneFacts
  <2>2. dep[d].apart /\ faults' = 0 => tree'.deps
    <3>1. SUFFICES ASSUME dep[d].apart, ~deps PROVE faults' # 0
      BY <1>4
    <3>2. Deploy!Fault
      BY <1>2, <1>5, <3>1
    <3> QED
      BY <1>1, <3>2, Faults
  <2> QED
    BY <1>1, <1>2, <1>4, <1>5, <2>1, <2>2, CommandGoes
<1>6. CASE Deploy!Fault /\ Deploy!Fails(d)
  BY <1>1, <1>4, <1>6, CommandFails
<1> QED
  BY <1>3, <1>5, <1>6

LEMMA RemoveKeyStep ==
  ASSUME Deploy!IInv, NEW d \in Deployers, Deploy!RemoveKey(d) PROVE Deploy!IInv'
<1>1. /\ RestOK /\ dep[d].at = "rmkey" /\ Late /\ UNCHANGED <<status, tree>>
      /\ Deploy!GoTo(d, "record")
  BY DeployParts DEF Deploy!RemoveKey, Deploy!At, Deploy!site
<1>2. ~dep[d].dead
  BY <1>1 DEF Late, Deploy!Running, Deploy!MidWay
<1>3. RestOK' /\ faults <= faults' /\ (faults' = 0 => ~key')
  <2>1. CASE Deploy!Works /\ key' = FALSE
    <3>1. key' \in BOOLEAN /\ ~key'
      BY <2>1
    <3> QED
      BY <1>1, <2>1, <3>1, Faults DEF RestOK
  <2>2. CASE Deploy!Fault /\ key' = key
    BY <1>1, <2>2, Faults DEF RestOK
  <2> QED
    BY <2>1, <2>2 DEF Deploy!RemoveKey
<1>4. "record" \notin Deploy!Running /\ "record" \in Ats
  BY DEF Deploy!Running, Deploy!MidWay, Ats
<1> QED
  BY <1>1, <1>2, <1>3, <1>4, OneGoes

LEMMA RecordStep ==
  ASSUME Deploy!IInv, NEW d \in Deployers, Deploy!Record(d) PROVE Deploy!IInv'
<1>1. /\ RestOK /\ dep[d].at = "record" /\ UNCHANGED <<tree, key>> /\ Deploy!End(d)
      /\ \/ Deploy!Works /\ status' \in {"none", "success", "failed"}
         \/ Deploy!Fault /\ status' = status
  BY DeployParts DEF Deploy!Record, Deploy!At, Deploy!Recorded, Deploy!site
<1>2. RestOK' /\ faults <= faults' /\ (faults' = 0 => status' # "running")
  BY <1>1, Faults DEF RestOK
<1>3. dep[d].at \notin Deploy!Holding /\ "idle" \notin Deploy!Running /\ "idle" \in Ats
  BY <1>1 DEF Deploy!Holding, Deploy!Running, Deploy!MidWay, Ats
<1> QED
  BY <1>1, <1>2, <1>3, OneGoes

\* The context of a command is done, and the command goes on.
LEMMA Dies ==
  ASSUME Deploy!IInv, NEW d \in Deployers, dep[d].at \in Deploy!Running, Deploy!Fault,
         dep' = [dep EXCEPT ![d].dead = TRUE], UNCHANGED <<status, tree, key>>
  PROVE  Deploy!IInv'
<1>1. DepOK /\ RestOK /\ OneApart /\ Late /\ ApartFinds
  BY DeployParts
<1>2. /\ dep' \in [Deployers -> Reports]
      /\ \A e \in Deployers : /\ dep'[e].at = dep[e].at /\ dep'[e].ok = dep[e].ok
                              /\ dep'[e].apart = dep[e].apart
      /\ \A e \in Deployers \ {d} : dep'[e] = dep[e]
  BY <1>1 DEF DepOK, Reports
<1>3. RestOK' /\ faults' # 0
  BY <1>1, Faults DEF RestOK
<1>4. DepOK' /\ OneApart'
  BY <1>1, <1>2, IdleFacts DEF DepOK, OneApart
<1>5. Late'
  BY <1>1, <1>2 DEF Late
<1>6. ApartFinds'
  BY <1>1, <1>2, <1>3 DEF ApartFinds, Finds
<1>7. Deploy!SettleInv'
  BY <1>3 DEF Deploy!SettleInv
<1> QED
  BY <1>3, <1>4, <1>5, <1>6, <1>7, DeployPartsNext

LEMMA ContextDoneStep ==
  ASSUME Deploy!IInv, NEW d \in Deployers, Deploy!ContextDone(d) PROVE Deploy!IInv'
<1>1. /\ RestOK /\ dep[d].at # "idle" /\ UNCHANGED <<status, tree, key>> /\ Deploy!Fault
      /\ ~dep[d].dead
  BY DeployParts DEF Deploy!ContextDone, Deploy!At, Deploy!site
<1>2. RestOK' /\ faults <= faults' /\ faults' # 0
  BY <1>1, Faults DEF RestOK
<1>3. CASE dep[d].at \in Deploy!Running /\ dep' = [dep EXCEPT ![d].dead = TRUE]
  BY <1>1, <1>3, Dies
<1>4. CASE Deploy!End(d)
  <2>1. "idle" \in Ats /\ "idle" \notin Deploy!Running
    BY IdleFacts DEF Ats
  <2> QED
    BY <1>1, <1>2, <1>4, <2>1, OneGoes
<1> QED
  BY <1>3, <1>4 DEF Deploy!ContextDone

\* A restart, done or not, may kill commands of others, and then nobody but
\* they had the tree for themselves.
LEMMA Restarts ==
  ASSUME Deploy!IInv, NEW d \in Deployers, dep[d].at = "restart",
         NEW ok \in BOOLEAN, NEW killed \in SUBSET Deploy!Others(d),
         RestOK', faults <= faults', UNCHANGED <<status, key>>,
         tree' # tree => killed # {},
         dep' = [q \in Deployers |->
           IF q = d THEN [dep[d] EXCEPT !.at = "rmkey", !.ok = ok]
           ELSE IF q \notin killed THEN dep[q]
           ELSE IF dep[q].dead THEN Deploy!Idle ELSE [dep[q] EXCEPT !.at = "rmkey"]]
  PROVE  Deploy!IInv'
<1>1. DepOK /\ RestOK /\ Deploy!SettleInv /\ OneApart /\ Late /\ ApartFinds
  BY DeployParts
<1>2. /\ dep'[d] = [dep[d] EXCEPT !.at = "rmkey", !.ok = ok]
      /\ dep[d] \in Reports
  BY <1>1 DEF DepOK
<1>3. /\ dep'[d] \in Reports
      /\ dep'[d].at = "rmkey" /\ dep'[d].dead = dep[d].dead /\ dep'[d].apart = dep[d].apart
  BY <1>2 DEF Reports, Ats
<1>4. /\ "rmkey" \notin Deploy!Running /\ "restart" \notin Deploy!Running
      /\ \A q \in killed : q \in Deployers \ {d} /\ dep[q].at \in Deploy!Running
  BY DEF Deploy!Others, Deploy!Running, Deploy!MidWay
<1>5. ASSUME NEW e \in Deployers \ {d}
      PROVE  /\ dep'[e] \in Reports
             /\ \/ dep'[e] = dep[e] /\ e \notin killed
                \/ dep'[e] = Deploy!Idle /\ dep[e].dead
                \/ /\ dep'[e].at = "rmkey" /\ ~dep'[e].ok /\ ~dep'[e].dead
                   /\ dep'[e].apart = dep[e].apart
  <2>1. dep[e] \in Reports /\ dep'[e] =
          IF e \notin killed THEN dep[e]
          ELSE IF dep[e].dead THEN Deploy!Idle ELSE [dep[e] EXCEPT !.at = "rmkey"]
    BY <1>1 DEF DepOK
  <2>2. e \in killed => ~dep[e].ok
    BY <1>1, <1>4 DEF Late, Deploy!Running, Deploy!MidWay
  <2> QED
    BY <2>1, <2>2, IdleFacts DEF Reports, Ats
<1>6. DepOK'
  <2>1. \A e \in Deployers : dep'[e] \in Reports
    BY <1>3, <1>5
  <2>2. dep' = [e \in Deployers |-> dep'[e]]
    OBVIOUS
  <2>3. dep' \in [Deployers -> Reports]
    BY <2>1, <2>2
  <2>4. \A e \in Deployers : dep'[e].at = "idle" <=> dep'[e] = Deploy!Idle
    BY <1>1, <1>3, <1>5, IdleFacts DEF DepOK
  <2> QED
    BY <2>3, <2>4 DEF DepOK
<1>7. OneApart'
  <2>1. \A e \in Deployers : dep'[e].at \in Deploy!Running => dep[e].at \in Deploy!Running
    BY <1>3, <1>4, <1>5, IdleFacts
  <2>2. \A e \in Deployers : dep'[e].apart => dep[e].apart
    BY <1>3, <1>5, IdleFacts
  <2> QED
    BY <1>1, <2>1, <2>2 DEF OneApart
<1>8. Late'
  <2>1. ~dep[d].dead
    BY <1>1, <1>4 DEF Late
  <2> QED
    BY <1>1, <1>3, <1>5, <2>1, IdleFacts DEF Late
<1>9. faults' = 0 => faults = 0
  BY <1>1 DEF RestOK
<1>10. ApartFinds'
  <2>1. ASSUME NEW e \in Deployers, e \notin killed, dep[e].apart PROVE tree' = tree
    BY <1>1, <1>4, <2>1 DEF OneApart
  <2>2. Finds(d)'
    <3>1. d \notin killed
      BY <1>4
    <3> QED
      BY <1>1, <1>3, <1>9, <2>1, <3>1 DEF ApartFinds, Finds
  <2>3. ASSUME NEW e \in Deployers \ {d} PROVE Finds(e)'
    BY <1>1, <1>5, <1>9, <2>1, IdleFacts DEF ApartFinds, Finds
  <2> QED
    BY <2>2, <2>3 DEF ApartFinds
<1>11. Deploy!SettleInv'
  <2>1. faults = 0 => \A e \in Deployers : ~dep'[e].dead
    BY <1>1, <1>3, <1>5 DEF Deploy!SettleInv
  <2>2. dep'[d].at \in Deploy!Holding /\ dep'[d].at \notin {"idle", "mark"}
    BY <1>3 DEF Deploy!Holding
  <2> QED
    BY <1>9, <2>1, <2>2 DEF Deploy!SettleInv
<1> QED
  BY <1>6, <1>7, <1>8, <1>10, <1>11, DeployPartsNext

LEMMA RestartStep ==
  ASSUME Deploy!IInv, NEW d \in Deployers, Deploy!Restart(d) PROVE Deploy!IInv'
<1>1. RestOK /\ dep[d].at = "restart" /\ UNCHANGED <<status, key>>
  BY DeployParts DEF Deploy!Restart, Deploy!At
<1>2. PICK ok \in BOOLEAN, killed \in SUBSET Deploy!Others(d) :
        /\ Deploy!Works \/ Deploy!Fault
        /\ dep' = [q \in Deployers |->
             IF q = d THEN [dep[d] EXCEPT !.at = "rmkey", !.ok = ok]
             ELSE IF q \notin killed THEN dep[q]
             ELSE IF dep[q].dead THEN Deploy!Idle ELSE [dep[q] EXCEPT !.at = "rmkey"]]
        /\ \/ UNCHANGED Deploy!site
           \/ \E q \in killed : Deploy!Writes(Deploy!Torn(q))
  BY DEF Deploy!Restart
<1>3. tree' \in Trees /\ (tree' # tree => killed # {})
  <2>1. \A q \in killed : q \in Deployers
    BY DEF Deploy!Others
  <2> QED
    BY <1>1, <1>2, <2>1, TreesFacts DEF Deploy!Writes, Deploy!site
<1>4. RestOK' /\ faults <= faults'
  BY <1>1, <1>2, <1>3, Faults DEF RestOK
<1> QED
  BY <1>1, <1>2, <1>3, <1>4, Restarts

LEMMA DeployStep == ASSUME Deploy!IInv, Deploy!Next PROVE Deploy!IInv'
BY DisconnectStep, BeginStep, MarkStep, PutKeyStep, ProbeStep, CleanStep, CloneStep,
   FetchTreeStep, ResetStep, CheckedOutStep, ComposerStep, RestartStep, RemoveKeyStep,
   RecordStep, ContextDoneStep
   DEF Deploy!Next

-----------------------------------------------------------------------------
(* Backups: the files, and how an action changes what the runners do.      *)

FileRow == [state : Backup!States, by : Runners \cup {NoOne}]
FilesOK ==
  /\ clock \in 0 .. MaxClock /\ errors \in 0 .. MaxErrors
  /\ files \in [0 .. MaxClock -> FileRow]
  /\ dumps \in [0 .. MaxClock -> Backup!States]
  /\ tmp \in FileRow
  /\ \A s \in 0 .. MaxClock : s > clock => files[s] = Backup!None /\ dumps[s] = "none"

JobOK ==
  /\ job \in [Runners -> Jobs]
  /\ \A b \in Runners : job[b].stamp <= clock /\ job[b].dumpStamp <= clock

\* Two runs at once know that they are not undisturbed.
OneClean ==
  \A b, c \in Runners :
    b # c /\ job[b].at # "idle" /\ job[c].at # "idle" => ~job[b].clean

CleanSofar == errors = 0 => \A b \in Runners : job[b].clean => Backup!Sofar(b)

\* Who sees no write is walking.
StillOK == still \subseteq {b \in Runners : job[b].at = "walk"}

BackupIInv == job \in [Runners -> Jobs] /\ Backup!IInv

LEMMA BackupParts ==
  BackupIInv <=>
    /\ FilesOK /\ JobOK /\ StillOK
    /\ Backup!LeftInv /\ Backup!AgeInv /\ OneClean /\ CleanSofar
<1>1. ASSUME job \in [Runners -> Jobs]
      PROVE  Backup!TypeOK <=> FilesOK /\ JobOK /\ StillOK
  <2>1. \A b \in Runners :
          /\ job[b].at \in {"idle", "walk", "dump", "dumping", "orphan", "read", "prune"}
          /\ job[b].clean \in BOOLEAN
          /\ job[b].stamp \in 0 .. MaxClock /\ job[b].dumpStamp \in 0 .. MaxClock
    BY <1>1 DEF Jobs
  <2>2. clock \in 0 .. MaxClock =>
          \A b \in Runners : /\ job[b].stamp \in 0 .. clock <=> job[b].stamp <= clock
                             /\ job[b].dumpStamp \in 0 .. clock <=> job[b].dumpStamp <= clock
    BY <2>1, BoundsFacts
  <2> QED
    BY <1>1, <2>1, <2>2 DEF Backup!TypeOK, Backup!Stamps, FilesOK, JobOK, FileRow,
                               StillOK
<1>2. Backup!CleanInv <=> OneClean /\ CleanSofar
  BY DEF Backup!CleanInv, Backup!Doing, OneClean, CleanSofar
<1> QED
  BY <1>1, <1>2 DEF BackupIInv, Backup!IInv, JobOK

LEMMA BackupPartsNext ==
  BackupIInv' <=>
    /\ FilesOK' /\ JobOK' /\ StillOK'
    /\ Backup!LeftInv' /\ Backup!AgeInv' /\ OneClean' /\ CleanSofar'
  BY BackupParts, PTL

\* What the bounded errors leave in range.
LEMMA Errors ==
  ASSUME FilesOK
  PROVE  /\ Backup!Good => errors' \in 0 .. MaxErrors /\ errors' = errors
         /\ Backup!Error => /\ errors' \in 0 .. MaxErrors /\ errors <= errors'
                            /\ errors' # 0
BY BoundsFacts DEF FilesOK, Backup!Good, Backup!Error

LEMMA RestingFacts ==
  Backup!Resting \in Jobs /\ Backup!Resting.at = "idle"
  /\ Backup!Resting.stamp = 0 /\ Backup!Resting.dumpStamp = 0
  BY BoundsFacts DEF Backup!Resting, Jobs

\* A runner at work goes on, or is over: its row becomes r.  Nobody else who
\* is at work is undisturbed, so that what is kept of a backup matters to b
\* alone.
LEMMA OneRuns ==
  ASSUME BackupIInv, FilesOK', errors <= errors', clock' = clock,
         NEW b \in Runners, job[b].at # "idle",
         NEW r \in Jobs, job' = [job EXCEPT ![b] = r],
         still' = still \ {b} \/ (still' = still /\ job[b].at # "walk"),
         r.stamp <= clock, r.dumpStamp <= clock,
         job[b].at = "orphan" => r.at = "idle", errors' = 0 => r.at # "orphan",
         r.at # "idle" => r.stamp = job[b].stamp /\ (r.clean => job[b].clean),
         r.at \in {"dumping", "read", "prune"} => r.stamp <= r.dumpStamp,
         r.at # "walk",
         errors' = 0 => \A s \in 0 .. MaxClock : files'[s].state = "open" =>
           files[s].state = "open" /\ ~(job[b].at = "walk" /\ job[b].stamp = s),
         errors' = 0 /\ tmp' # Backup!None =>
           \/ r.at \in {"dumping", "read"}
           \/ tmp # Backup!None /\ job[b].at \notin {"dumping", "read"},
         errors' = 0 /\ r.clean =>
           /\ r.at \in {"dump", "dumping", "read", "prune"} => files'[r.stamp].state = "whole"
           /\ r.at = "dumping" => tmp' = Backup!Open(b)
           /\ r.at = "read" => tmp'.state = "whole"
           /\ r.at = "prune" => dumps'[r.dumpStamp] = "whole"
  PROVE  BackupIInv'
<1>1. /\ FilesOK /\ JobOK /\ StillOK
      /\ Backup!LeftInv /\ Backup!AgeInv /\ OneClean /\ CleanSofar
  BY BackupParts
<1>2. /\ job' \in [Runners -> Jobs] /\ job'[b] = r
      /\ \A c \in Runners \ {b} : job'[c] = job[c]
  BY <1>1 DEF JobOK
<1>3. JobOK' /\ StillOK'
  BY <1>1, <1>2 DEF JobOK, StillOK
<1>4. OneClean'
  BY <1>1, <1>2 DEF OneClean
<1>5. Backup!AgeInv'
  <2>1. ASSUME NEW c \in Runners, job'[c].at \notin {"idle", "orphan"}
        PROVE  /\ clock' <= job'[c].stamp + Retention
               /\ job'[c].at \in {"dumping", "read", "prune"} =>
                    job'[c].stamp <= job'[c].dumpStamp
    <3>1. CASE c = b
      BY <1>1, <1>2, <2>1, <3>1 DEF Backup!AgeInv, Backup!Doing
    <3>2. CASE c # b
      BY <1>1, <1>2, <2>1, <3>2 DEF Backup!AgeInv, Backup!Doing
    <3> QED
      BY <3>1, <3>2
  <2> QED
    BY <2>1 DEF Backup!AgeInv, Backup!Doing
<1>6. errors' = 0 => errors = 0
  BY <1>1 DEF FilesOK
<1>7. Backup!LeftInv'
  <2>1. SUFFICES ASSUME errors' = 0
                 PROVE  /\ \A c \in Runners : job'[c].at # "orphan"
                        /\ \A s \in 0 .. MaxClock : files'[s].state = "open" =>
                             \E c \in Runners : job'[c].at = "walk" /\ job'[c].stamp = s
                        /\ tmp' # Backup!None =>
                             \E c \in Runners : job'[c].at \in {"dumping", "read"}
    BY DEF Backup!LeftInv, Backup!Stamps, Backup!Doing, Backup!None
  <2>2. /\ \A c \in Runners : job[c].at # "orphan"
        /\ \A s \in 0 .. MaxClock : files[s].state = "open" =>
             \E c \in Runners : job[c].at = "walk" /\ job[c].stamp = s
        /\ tmp # Backup!None => \E c \in Runners : job[c].at \in {"dumping", "read"}
    BY <1>1, <1>6, <2>1 DEF Backup!LeftInv, Backup!Stamps, Backup!Doing
  <2> QED
    BY <1>2, <2>1, <2>2
<1>8. CleanSofar'
  <2>1. SUFFICES ASSUME errors' = 0, NEW c \in Runners, job'[c].clean
                 PROVE  Backup!Sofar(c)'
    BY DEF CleanSofar
  <2>2. CASE c = b
    BY <1>2, <2>1, <2>2 DEF Backup!Sofar, Backup!Open
  <2>3. CASE c # b
    <3>1. job'[c].at = "idle"
      BY <1>1, <1>2, <2>1, <2>3 DEF OneClean
    <3> QED
      BY <3>1 DEF Backup!Sofar
  <2> QED
    BY <2>2, <2>3
<1> QED
  BY <1>3, <1>4, <1>5, <1>7, <1>8, BackupPartsNext

-----------------------------------------------------------------------------
(* Each action of a backup keeps the invariant.                            *)

LEMMA BackupInit == Backup!Init => BackupIInv
<1> SUFFICES ASSUME Backup!Init PROVE BackupIInv
  OBVIOUS
<1>1. /\ clock = 0 /\ errors = 0 /\ tmp = Backup!None
      /\ files = [s \in 0 .. MaxClock |-> Backup!None]
      /\ dumps = [s \in 0 .. MaxClock |-> "none"]
      /\ job = [b \in Runners |-> Backup!Resting]
  BY DEF Backup!Init, Backup!Stamps
<1>2. Backup!None \in FileRow /\ Backup!None.state = "none" /\ "none" \in Backup!States
  BY DEF Backup!None, FileRow, Backup!States
<1>3. FilesOK
  <2>1. clock \in 0 .. MaxClock /\ errors \in 0 .. MaxErrors
    BY <1>1, BoundsFacts
  <2> QED
    BY <1>1, <1>2, <2>1 DEF FilesOK
<1>4. job \in [Runners -> Jobs] /\ \A b \in Runners : job[b] = Backup!Resting
  BY <1>1, RestingFacts
<1>5. JobOK
  BY <1>1, <1>4, RestingFacts DEF JobOK
<1>6. StillOK
  BY DEF Backup!Init, StillOK
<1>7. OneClean /\ CleanSofar /\ Backup!AgeInv
  BY <1>4, RestingFacts DEF OneClean, CleanSofar, Backup!Sofar, Backup!AgeInv, Backup!Doing
<1>8. Backup!LeftInv
  BY <1>1, <1>2, <1>4, RestingFacts DEF Backup!LeftInv, Backup!Stamps, Backup!Doing
<1> QED
  BY <1>3, <1>5, <1>6, <1>7, <1>8, BackupParts

\* A deployment's writes are seen by every walk, and change nothing else here.
LEMMA BackupStutters ==
  ASSUME BackupIInv, UNCHANGED backupVars, still' \in {still, {}} PROVE BackupIInv'
<1>1. /\ FilesOK /\ JobOK /\ StillOK
      /\ Backup!LeftInv /\ Backup!AgeInv /\ OneClean /\ CleanSofar
  BY BackupParts
<1>2. UNCHANGED <<clock, files, dumps, tmp, job, errors>>
  BY DEF backupVars
<1>3. FilesOK' /\ JobOK' /\ StillOK'
  BY <1>1, <1>2 DEF FilesOK, JobOK, StillOK, Backup!None
<1>4. Backup!LeftInv' /\ Backup!AgeInv' /\ OneClean' /\ CleanSofar'
  BY <1>1, <1>2 DEF Backup!LeftInv, Backup!Stamps, Backup!Doing, Backup!None, Backup!AgeInv,
                    OneClean, CleanSofar, Backup!Sofar, Backup!Open
<1> QED
  BY <1>3, <1>4, BackupPartsNext

LEMMA TickStep == ASSUME BackupIInv, Backup!Tick PROVE BackupIInv'
<1>1. /\ FilesOK /\ JobOK /\ StillOK
      /\ Backup!LeftInv /\ Backup!AgeInv /\ OneClean /\ CleanSofar
  BY BackupParts
<1>2. /\ clock < MaxClock /\ clock' = clock + 1
      /\ \A b \in Runners : job[b].at \in {"idle", "orphan"} \/ clock < job[b].stamp + Retention
      /\ UNCHANGED <<still, files, dumps, tmp, job, errors>>
  BY DEF Backup!Tick, Backup!Doing
<1>3. FilesOK'
  BY <1>1, <1>2, BoundsFacts DEF FilesOK, Backup!None
<1>4. JobOK' /\ StillOK'
  BY <1>1, <1>2, BoundsFacts DEF JobOK, FilesOK, Jobs, StillOK
<1>5. Backup!AgeInv'
  <2>1. \A b \in Runners : job[b].stamp \in Nat
    BY <1>1 DEF JobOK, Jobs
  <2>2. \A b \in Runners : job[b].at \notin {"idle", "orphan"} => clock' <= job[b].stamp + Retention
    BY <1>1, <1>2, <2>1, BoundsFacts DEF FilesOK
  <2> QED
    BY <1>1, <1>2, <2>2 DEF Backup!AgeInv, Backup!Doing
<1>6. Backup!LeftInv' /\ OneClean' /\ CleanSofar'
  BY <1>1, <1>2 DEF Backup!LeftInv, Backup!Stamps, Backup!Doing, Backup!None, OneClean,
                    CleanSofar, Backup!Sofar, Backup!Open
<1> QED
  BY <1>3, <1>4, <1>5, <1>6, BackupPartsNext

\* A run begins with a file that is open for it, and disturbs the others.
LEMMA StartStep ==
  ASSUME BackupIInv, NEW b \in Runners, Backup!Start(b) PROVE BackupIInv'
<1>1. /\ FilesOK /\ JobOK /\ StillOK
      /\ Backup!LeftInv /\ Backup!AgeInv /\ OneClean /\ CleanSofar
  BY BackupParts
<1> DEFINE Now == [at |-> "walk", stamp |-> clock, dumpStamp |-> 0,
                   clean |-> \A p \in Runners \ {b} : job[p].at = "idle"]
<1>2. /\ Now \in Jobs /\ Now.at = "walk" /\ Now.stamp = clock /\ Now.dumpStamp = 0
      /\ Now.clean => \A p \in Runners \ {b} : job[p].at = "idle"
  BY <1>1, BoundsFacts DEF FilesOK, Jobs
<1>3. /\ job[b].at = "idle"
      /\ files' = [files EXCEPT ![clock] = Backup!Open(b)]
      /\ job' = [q \in Runners |->
           IF q = b THEN Now
           ELSE IF job[q].at = "idle" THEN job[q] ELSE [job[q] EXCEPT !.clean = FALSE]]
      /\ still' = still \cup {b} /\ UNCHANGED <<clock, dumps, tmp, errors>>
  BY DEF Backup!Start, Backup!Doing
<1> HIDE DEF Now
<1>4. /\ job' \in [Runners -> Jobs] /\ job'[b] = Now
      /\ \A c \in Runners \ {b} :
           /\ job'[c].at = job[c].at /\ job'[c].stamp = job[c].stamp
           /\ job'[c].dumpStamp = job[c].dumpStamp
           /\ job[c].at # "idle" => ~job'[c].clean
  BY <1>1, <1>2, <1>3 DEF JobOK, Jobs
<1>5. JobOK' /\ StillOK'
  BY <1>1, <1>2, <1>3, <1>4, BoundsFacts DEF JobOK, FilesOK, StillOK
<1>6. OneClean'
  BY <1>2, <1>4 DEF OneClean
<1>7. Backup!Open(b) \in FileRow
  BY DEF Backup!Open, FileRow, Backup!States
<1>8. /\ files' \in [0 .. MaxClock -> FileRow] /\ files'[clock] = Backup!Open(b)
      /\ \A s \in 0 .. MaxClock : s # clock => files'[s] = files[s]
  BY <1>1, <1>3, <1>7 DEF FilesOK
<1>9. FilesOK'
  BY <1>1, <1>3, <1>8 DEF FilesOK, Backup!None
<1>10. Backup!AgeInv'
  <2>1. clock <= clock + Retention /\ Now.at \notin {"dumping", "read", "prune"}
    BY <1>1, <1>2, BoundsFacts DEF FilesOK
  <2> QED
    BY <1>1, <1>2, <1>3, <1>4, <2>1 DEF Backup!AgeInv, Backup!Doing
<1>11. Backup!LeftInv'
  BY <1>1, <1>2, <1>3, <1>4, <1>8
     DEF Backup!LeftInv, Backup!Stamps, Backup!Doing, Backup!None
<1>12. CleanSofar'
  <2>1. Backup!Sofar(b)'
    BY <1>2, <1>4, <1>8 DEF Backup!Sofar, Backup!Open
  <2>2. ASSUME NEW c \in Runners \ {b}, job'[c].clean PROVE Backup!Sofar(c)'
    BY <1>4, <2>2 DEF Backup!Sofar
  <2> QED
    BY <2>1, <2>2 DEF CleanSofar
<1> QED
  BY <1>5, <1>6, <1>9, <1>10, <1>11, <1>12, BackupPartsNext

\* What happens to the files of one stamp that is not in the future.
LEMMA FileChanges ==
  ASSUME FilesOK, NEW s \in 0 .. MaxClock, s <= clock, NEW f \in FileRow,
         files' = [files EXCEPT ![s] = f], UNCHANGED <<clock, dumps, tmp>>,
         errors' \in 0 .. MaxErrors
  PROVE  /\ FilesOK' /\ files'[s] = f
         /\ \A t \in 0 .. MaxClock : t # s => files'[t] = files[t]
<1>1. /\ files' \in [0 .. MaxClock -> FileRow] /\ files'[s] = f
      /\ \A t \in 0 .. MaxClock : t # s => files'[t] = files[t]
  BY DEF FilesOK
<1>2. FilesOK'
  BY <1>1 DEF FilesOK, Backup!None
<1> QED
  BY <1>1, <1>2

\* A walk by a runner that nobody disturbed, over a tree that stood still and
\* was whole, leaves a whole archive.
LEMMA WalkKeeps ==
  ASSUME BackupIInv, NEW b \in Runners, job[b].at = "walk", Backup!Good, Backup!Kept(b),
         UNCHANGED <<clock, dumps, tmp>>, still' = still \ {b}
  PROVE  BackupIInv'
<1>1. FilesOK /\ JobOK /\ OneClean /\ CleanSofar
  BY BackupParts
<1> DEFINE s == job[b].stamp
           mine == /\ files[s] = Backup!Open(b)
                   /\ \A q \in Runners \ {b} : ~(job[q].at = "walk" /\ job[q].stamp = s)
           f == [files[s] EXCEPT !.state = IF @ = "none" THEN "none"
                                   ELSE IF mine /\ Backup!Still(b) THEN "whole" ELSE "torn"]
           r == [job[b] EXCEPT !.at = "dump", !.clean = @ /\ Backup!Still(b)]
<1>2. /\ s \in 0 .. MaxClock /\ s <= clock /\ files[s] \in FileRow
      /\ job[b] \in Jobs /\ job[b].dumpStamp <= clock
  BY <1>1 DEF FilesOK, JobOK, Jobs
<1>3. f \in FileRow /\ f.state # "open" /\ (mine /\ Backup!Still(b) => f.state = "whole")
  <2>1. f \in FileRow
    BY <1>2 DEF FileRow, Backup!States
  <2>2. f.state = IF files[s].state = "none" THEN "none"
                  ELSE IF mine /\ Backup!Still(b) THEN "whole" ELSE "torn"
    BY <1>2 DEF FileRow
  <2>3. files[s] = Backup!Open(b) => files[s].state # "none"
    BY DEF Backup!Open
  <2> QED
    BY <2>1, <2>2, <2>3
<1>4. /\ r \in Jobs /\ r.at = "dump" /\ r.stamp = s /\ r.dumpStamp = job[b].dumpStamp
      /\ r.clean => job[b].clean /\ Backup!Still(b)
  BY <1>2 DEF Jobs
<1>5. files' = [files EXCEPT ![s] = f]
  BY <1>1 DEF Backup!Kept, Backup!Doing, FilesOK
<1>6. job' = [job EXCEPT ![b] = r]
  BY <1>1 DEF Backup!Kept, JobOK
<1>7. errors = 0 /\ job[b].clean => mine
  <2>1. ASSUME errors = 0, job[b].clean PROVE mine
    <3>1. files[s] = Backup!Open(b)
      BY <1>1, <2>1 DEF CleanSofar, Backup!Sofar
    <3>2. \A q \in Runners \ {b} : job[q].at = "idle"
      BY <1>1, <2>1 DEF OneClean
    <3> QED
      BY <3>1, <3>2
  <2> QED
    BY <2>1
<1> HIDE DEF s, f, r, mine
<1>8. errors' = errors /\ errors' \in 0 .. MaxErrors /\ errors <= errors'
  BY <1>1, Errors DEF FilesOK
<1>9. /\ FilesOK' /\ files'[s] = f
      /\ \A t \in 0 .. MaxClock : t # s => files'[t] = files[t]
  BY <1>1, <1>2, <1>3, <1>5, <1>8, FileChanges
<1>10. s = job[b].stamp
  BY DEF s
<1> QED
  BY <1>2, <1>3, <1>4, <1>6, <1>7, <1>8, <1>9, <1>10, OneRuns

\* A write that fails unseen.
LEMMA WalkTears ==
  ASSUME BackupIInv, NEW b \in Runners, job[b].at = "walk", Backup!Error,
         files' = [files EXCEPT ![job[b].stamp].state = IF @ = "none" THEN @ ELSE "torn"],
         job' = [job EXCEPT ![b].at = "dump"],
         UNCHANGED <<clock, dumps, tmp>>, still' = still \ {b}
  PROVE  BackupIInv'
<1>1. FilesOK /\ JobOK
  BY BackupParts
<1> DEFINE s == job[b].stamp
           f == [files[s] EXCEPT !.state = IF @ = "none" THEN @ ELSE "torn"]
           r == [job[b] EXCEPT !.at = "dump"]
<1>2. /\ s \in 0 .. MaxClock /\ s <= clock /\ files[s] \in FileRow
      /\ job[b] \in Jobs /\ job[b].dumpStamp <= clock
  BY <1>1 DEF FilesOK, JobOK, Jobs
<1>3. f \in FileRow
  BY <1>2 DEF FileRow, Backup!States
<1>4. /\ r \in Jobs /\ r.at = "dump" /\ r.stamp = s /\ r.dumpStamp = job[b].dumpStamp
      /\ r.clean = job[b].clean
  BY <1>2 DEF Jobs
<1>5. files' = [files EXCEPT ![s] = f]
  BY <1>1 DEF FilesOK
<1>6. job' = [job EXCEPT ![b] = r]
  BY <1>1 DEF JobOK
<1> HIDE DEF s, f, r
<1>7. errors' # 0 /\ errors' \in 0 .. MaxErrors /\ errors <= errors'
  BY <1>1, Errors
<1>8. FilesOK'
  BY <1>1, <1>2, <1>3, <1>5, <1>7, FileChanges
<1>9. s = job[b].stamp
  BY DEF s
<1> QED
  BY <1>2, <1>4, <1>6, <1>7, <1>8, <1>9, OneRuns

\* A walk that fails takes its file with it.
LEMMA WalkRemoves ==
  ASSUME BackupIInv, NEW b \in Runners, job[b].at = "walk", Backup!Good \/ Backup!Error,
         Backup!Removed(b), UNCHANGED <<clock, dumps, tmp>>, still' = still \ {b}
  PROVE  BackupIInv'
<1>1. FilesOK /\ JobOK
  BY BackupParts
<1>2. /\ job[b].stamp \in 0 .. MaxClock /\ job[b].stamp <= clock
      /\ Backup!None \in FileRow /\ Backup!None.state = "none"
  BY <1>1 DEF JobOK, Jobs, Backup!None, FileRow, Backup!States
<1>3. errors' \in 0 .. MaxErrors /\ errors <= errors'
  BY <1>1, Errors DEF FilesOK
<1>4. /\ files' = [files EXCEPT ![job[b].stamp] = Backup!None]
      /\ job' = [job EXCEPT ![b] = Backup!Resting]
  BY DEF Backup!Removed, Backup!Over
<1>5. /\ FilesOK' /\ files'[job[b].stamp] = Backup!None
      /\ \A t \in 0 .. MaxClock : t # job[b].stamp => files'[t] = files[t]
  BY <1>1, <1>2, <1>3, <1>4, FileChanges
<1>6. 0 <= clock
  BY <1>1 DEF FilesOK
<1> QED
  BY <1>2, <1>3, <1>4, <1>5, <1>6, RestingFacts, OneRuns

LEMMA WalkStep ==
  ASSUME BackupIInv, NEW b \in Runners, Backup!Walk(b) PROVE BackupIInv'
BY WalkKeeps, WalkTears, WalkRemoves DEF Backup!Walk, Backup!Doing, Backup!Then

LEMMA DumpStep ==
  ASSUME BackupIInv, NEW b \in Runners, Backup!Dump(b) PROVE BackupIInv'
<1>1. FilesOK /\ JobOK /\ Backup!LeftInv /\ CleanSofar
  BY BackupParts
<1> DEFINE r == [job[b] EXCEPT !.at = "dumping", !.dumpStamp = clock]
<1>2. job[b].at = "dump" /\ tmp' = Backup!Open(b) /\ UNCHANGED <<still, clock, files, dumps, errors>>
  BY DEF Backup!Dump, Backup!Doing
<1>3. job[b] \in Jobs /\ job[b].stamp <= clock
  BY <1>1 DEF JobOK
<1>4. /\ r \in Jobs /\ r.at = "dumping" /\ r.stamp = job[b].stamp /\ r.dumpStamp = clock
      /\ r.clean = job[b].clean
  BY <1>1, <1>3 DEF Jobs, FilesOK
<1>5. job' = [job EXCEPT ![b] = r]
  BY <1>1 DEF Backup!Dump, JobOK
<1> HIDE DEF r
<1>6. FilesOK' /\ errors <= errors' /\ r.dumpStamp <= clock
  BY <1>1, <1>2, <1>4 DEF FilesOK, Backup!Open, Backup!None, FileRow, Backup!States
<1>7. errors' = 0 /\ r.clean => files'[r.stamp].state = "whole"
  BY <1>1, <1>2, <1>4 DEF CleanSofar, Backup!Sofar
<1> QED
  BY <1>2, <1>3, <1>4, <1>5, <1>6, <1>7, OneRuns

\* The dump is whole if nobody else has begun another in the same place.
LEMMA DumpedStep ==
  ASSUME BackupIInv, NEW b \in Runners, Backup!Dumped(b) PROVE BackupIInv'
<1>1. FilesOK /\ JobOK /\ Backup!LeftInv /\ Backup!AgeInv /\ OneClean /\ CleanSofar
  BY BackupParts
<1> DEFINE mine == /\ tmp = Backup!Open(b)
                   /\ \A q \in Runners \ {b} : job[q].at \notin {"dumping", "orphan"}
<1>2. /\ job[b].at \in {"dumping", "orphan"} /\ UNCHANGED <<still, clock, files, dumps>>
      /\ \/ /\ Backup!Good /\ tmp' = IF mine THEN [tmp EXCEPT !.state = "whole"] ELSE Backup!Spoilt
            /\ IF job[b].at = "dumping" THEN Backup!Then(b, "read") ELSE Backup!Over(b)
         \/ /\ Backup!Error /\ tmp' = Backup!Spoilt
            /\ Backup!Over(b) \/ (job[b].at = "dumping" /\ Backup!Then(b, "read"))
  BY DEF Backup!Dumped, Backup!Doing
<1>3. job[b] \in Jobs /\ job[b].stamp <= clock /\ job[b].dumpStamp <= clock /\ 0 <= clock
  BY <1>1 DEF JobOK, FilesOK
<1>4. job[b].at = "dumping" => job[b].stamp <= job[b].dumpStamp
  BY <1>1 DEF Backup!AgeInv, Backup!Doing
<1>5. [tmp EXCEPT !.state = "whole"] \in FileRow /\ [tmp EXCEPT !.state = "whole"].state = "whole"
  BY <1>1 DEF FilesOK, FileRow, Backup!States
<1>6. Backup!Spoilt \in FileRow
  BY <1>1 DEF FilesOK, FileRow, Backup!States, Backup!Spoilt, Backup!None
<1> DEFINE r == [job[b] EXCEPT !.at = "read"]
<1>7. /\ r \in Jobs /\ r.at = "read" /\ r.stamp = job[b].stamp
      /\ r.dumpStamp = job[b].dumpStamp /\ r.clean = job[b].clean
  BY <1>3 DEF Jobs
<1>8. Backup!Then(b, "read") => job' = [job EXCEPT ![b] = r]
  BY <1>1 DEF Backup!Then, JobOK
<1> HIDE DEF r
<1>9. errors = 0 /\ job[b].clean /\ job[b].at = "dumping" =>
        files[job[b].stamp].state = "whole" /\ mine
  BY <1>1 DEF CleanSofar, Backup!Sofar, OneClean
<1> HIDE DEF mine
<1>10. /\ errors' \in 0 .. MaxErrors /\ errors <= errors'
       /\ Backup!Error => errors' # 0
       /\ Backup!Good => errors' = errors
  BY <1>1, <1>2, Errors DEF FilesOK
<1>11. errors' = 0 => job[b].at = "dumping"
  BY <1>1, <1>2, <1>10 DEF Backup!LeftInv, Backup!Doing, FilesOK
<1>12. FilesOK'
  BY <1>1, <1>2, <1>5, <1>6, <1>10 DEF FilesOK, Backup!None
<1>13. CASE job[b].at = "dumping" /\ Backup!Then(b, "read")
  <2>1. errors' = 0 /\ r.clean => tmp'.state = "whole" /\ files[job[b].stamp].state = "whole"
    <3>1. SUFFICES ASSUME errors' = 0, r.clean
                   PROVE  tmp'.state = "whole" /\ files[job[b].stamp].state = "whole"
      OBVIOUS
    <3>2. errors = 0 /\ Backup!Good /\ mine /\ files[job[b].stamp].state = "whole"
      BY <1>1, <1>2, <1>7, <1>9, <1>10, <1>13, <3>1 DEF FilesOK
    <3>3. tmp' = [tmp EXCEPT !.state = "whole"]
      BY <1>2, <1>10, <3>1, <3>2
    <3> QED
      BY <1>5, <3>2, <3>3
  <2> QED
    BY <1>2, <1>3, <1>4, <1>7, <1>8, <1>10, <1>12, <1>13, <2>1, OneRuns
<1>14. CASE Backup!Over(b) /\ errors' # 0
  BY <1>2, <1>3, <1>10, <1>12, <1>14, RestingFacts, OneRuns DEF Backup!Over
<1> QED
  BY <1>2, <1>10, <1>11, <1>13, <1>14

\* The dump is brought home and the run goes on.
LEMMA FetchKeeps ==
  ASSUME BackupIInv, NEW b \in Runners, job[b].at = "read",
         NEW x \in Backup!States, Backup!Fetched(b, x), Backup!Then(b, "prune"),
         tmp.state = "whole" => x = "whole",
         \/ Backup!Good /\ tmp' = Backup!None
         \/ Backup!Error /\ tmp' \in {tmp, Backup!None},
         UNCHANGED <<still, clock, files>>
  PROVE  BackupIInv'
<1>1. FilesOK /\ JobOK /\ Backup!AgeInv /\ CleanSofar
  BY BackupParts
<1>2. /\ job[b] \in Jobs /\ job[b].stamp <= clock /\ job[b].dumpStamp <= clock
      /\ job[b].stamp <= job[b].dumpStamp
      /\ job[b].dumpStamp \in 0 .. MaxClock
  BY <1>1 DEF JobOK, Backup!AgeInv, Backup!Doing, Jobs
<1>3. Backup!None \in FileRow /\ tmp' \in FileRow
  BY <1>1 DEF FileRow, Backup!States, Backup!None, FilesOK
<1> DEFINE r == [job[b] EXCEPT !.at = "prune"]
<1>4. /\ r \in Jobs /\ r.at = "prune" /\ r.stamp = job[b].stamp
      /\ r.dumpStamp = job[b].dumpStamp /\ r.clean = job[b].clean
  BY <1>2 DEF Jobs
<1>5. job' = [job EXCEPT ![b] = r]
  BY <1>1 DEF Backup!Then, JobOK
<1> HIDE DEF r
<1>6. /\ errors' \in 0 .. MaxErrors /\ errors <= errors'
      /\ errors' = 0 => errors = 0 /\ tmp' = Backup!None
  BY <1>1, Errors DEF FilesOK
<1>7. dumps' \in [0 .. MaxClock -> Backup!States] /\ dumps'[job[b].dumpStamp] = x
      /\ \A s \in 0 .. MaxClock : s > clock => dumps'[s] = "none"
  BY <1>1, <1>2 DEF FilesOK, Backup!Fetched
<1>8. FilesOK'
  BY <1>1, <1>3, <1>6, <1>7 DEF FilesOK, Backup!None
<1>9. errors = 0 /\ job[b].clean =>
        files[job[b].stamp].state = "whole" /\ tmp.state = "whole"
  BY <1>1 DEF CleanSofar, Backup!Sofar
<1> QED
  BY <1>2, <1>4, <1>5, <1>6, <1>7, <1>8, <1>9, OneRuns DEF Backup!None

\* The run ends with its dump in part, or without one.
LEMMA FetchEnds ==
  ASSUME BackupIInv, NEW b \in Runners, job[b].at = "read", Backup!Over(b),
         Backup!Fetched(b, "torn") \/ dumps' = dumps,
         \/ Backup!Good /\ tmp' = Backup!None
         \/ Backup!Error /\ tmp' \in {tmp, Backup!None},
         UNCHANGED <<still, clock, files>>
  PROVE  BackupIInv'
<1>1. FilesOK /\ JobOK
  BY BackupParts
<1>2. job[b].dumpStamp \in 0 .. MaxClock /\ job[b].dumpStamp <= clock /\ 0 <= clock
  BY <1>1 DEF JobOK, Jobs, FilesOK
<1>3. Backup!None \in FileRow /\ tmp' \in FileRow /\ "torn" \in Backup!States
  BY <1>1 DEF FileRow, Backup!States, Backup!None, FilesOK
<1>4. /\ errors' \in 0 .. MaxErrors /\ errors <= errors'
      /\ errors' = 0 => tmp' = Backup!None
  BY <1>1, Errors DEF FilesOK
<1>5. dumps' \in [0 .. MaxClock -> Backup!States]
      /\ \A s \in 0 .. MaxClock : s > clock => dumps'[s] = "none"
  <2>1. CASE Backup!Fetched(b, "torn")
    BY <1>1, <1>2, <1>3, <2>1 DEF FilesOK, Backup!Fetched
  <2>2. CASE dumps' = dumps
    BY <1>1, <2>2 DEF FilesOK
  <2> QED
    BY <2>1, <2>2
<1>6. FilesOK'
  BY <1>1, <1>3, <1>4, <1>5 DEF FilesOK, Backup!None
<1> QED
  BY <1>2, <1>4, <1>6, RestingFacts, OneRuns DEF Backup!Over, Backup!None

LEMMA FetchStep ==
  ASSUME BackupIInv, NEW b \in Runners, Backup!Fetch(b) PROVE BackupIInv'
<1> DEFINE x == IF tmp.state = "whole" THEN "whole" ELSE "torn"
<1>1. job[b].at = "read" /\ UNCHANGED <<still, clock, files>>
  BY DEF Backup!Fetch, Backup!Doing
<1>2. x \in Backup!States /\ (tmp.state = "whole" => x = "whole")
  BY DEF Backup!States
<1>3. /\ \/ Backup!Good /\ tmp' = Backup!None
         \/ Backup!Error /\ tmp' \in {tmp, Backup!None}
      /\ \/ Backup!Fetched(b, x) /\ Backup!Then(b, "prune")
         \/ (Backup!Fetched(b, "torn") \/ dumps' = dumps) /\ Backup!Over(b)
  BY DEF Backup!Fetch
<1> HIDE DEF x
<1>4. CASE Backup!Fetched(b, x) /\ Backup!Then(b, "prune")
  BY <1>1, <1>2, <1>3, <1>4, FetchKeeps
<1>5. CASE (Backup!Fetched(b, "torn") \/ dumps' = dumps) /\ Backup!Over(b)
  BY <1>1, <1>3, <1>5, FetchEnds
<1> QED
  BY <1>3, <1>4, <1>5

\* Retention takes files away and adds none.
LEMMA PruneFacts ==
  ASSUME FilesOK, NEW b \in Runners, Backup!Prune(b)
  PROVE  /\ \A s \in 0 .. MaxClock :
              /\ files'[s] = IF s + Retention < clock THEN Backup!None ELSE files[s]
              /\ dumps'[s] = IF s + Retention < clock THEN "none" ELSE dumps[s]
         /\ FilesOK'
<1>1. /\ files' = [s \in 0 .. MaxClock |->
           IF s + Retention < clock THEN Backup!None ELSE files[s]]
      /\ dumps' = [s \in 0 .. MaxClock |-> IF s + Retention < clock THEN "none" ELSE dumps[s]]
      /\ UNCHANGED <<still, clock, tmp, errors>>
  BY DEF Backup!Prune, Backup!Old, Backup!Stamps
<1>2. Backup!None \in FileRow /\ "none" \in Backup!States
  BY DEF FileRow, Backup!States, Backup!None
<1>3. /\ files' \in [0 .. MaxClock -> FileRow]
      /\ dumps' \in [0 .. MaxClock -> Backup!States]
  BY <1>1, <1>2 DEF FilesOK
<1>4. \A s \in 0 .. MaxClock : s > clock => files'[s] = Backup!None /\ dumps'[s] = "none"
  BY <1>1 DEF FilesOK
<1>5. FilesOK'
  BY <1>1, <1>3, <1>4 DEF FilesOK, Backup!None
<1> QED
  BY <1>1, <1>5

LEMMA PruneStep ==
  ASSUME BackupIInv, NEW b \in Runners, Backup!Prune(b) PROVE BackupIInv'
<1>1. FilesOK /\ JobOK
  BY BackupParts
<1>2. /\ job[b].at = "prune" /\ job' = [job EXCEPT ![b] = Backup!Resting]
      /\ UNCHANGED <<still, clock, tmp, errors>>
  BY DEF Backup!Prune, Backup!Doing, Backup!Over
<1>3. FilesOK' /\ \A s \in 0 .. MaxClock : files'[s] = files[s] \/ files'[s] = Backup!None
  BY <1>1, PruneFacts
<1>4. Backup!None.state = "none" /\ errors <= errors' /\ 0 <= clock
  BY <1>1, <1>2 DEF Backup!None, FilesOK
<1> QED
  BY <1>1, <1>2, <1>3, <1>4, RestingFacts, OneRuns

\* A run that is cut off leaves what it was writing, and a dump that goes on.
LEMMA AbandonStep ==
  ASSUME BackupIInv, NEW b \in Runners, Backup!Abandon(b) PROVE BackupIInv'
<1>1. FilesOK /\ JobOK /\ Backup!AgeInv
  BY BackupParts
<1>2. /\ job[b].at \notin {"idle", "orphan"} /\ still' = still \ {b} /\ Backup!Error
      /\ UNCHANGED <<clock, files, dumps, tmp>>
      /\ IF job[b].at = "dumping" THEN Backup!Then(b, "orphan") ELSE Backup!Over(b)
  BY DEF Backup!Abandon, Backup!Doing
<1>3. errors' \in 0 .. MaxErrors /\ errors' # 0 /\ errors <= errors' /\ 0 <= clock
  BY <1>1, <1>2, Errors DEF FilesOK
<1>4. FilesOK'
  BY <1>1, <1>2, <1>3 DEF FilesOK, Backup!None
<1>5. CASE Backup!Over(b)
  BY <1>2, <1>3, <1>4, <1>5, RestingFacts, OneRuns DEF Backup!Over
<1>6. CASE job[b].at = "dumping" /\ Backup!Then(b, "orphan")
  <2> DEFINE r == [job[b] EXCEPT !.at = "orphan"]
  <2>1. job[b] \in Jobs /\ job[b].stamp <= clock /\ job[b].dumpStamp <= clock
    BY <1>1 DEF JobOK
  <2>2. /\ r \in Jobs /\ r.at = "orphan" /\ r.stamp = job[b].stamp
        /\ r.dumpStamp = job[b].dumpStamp /\ r.clean = job[b].clean
    BY <2>1 DEF Jobs
  <2>3. job' = [job EXCEPT ![b] = r]
    BY <1>1, <1>6 DEF Backup!Then, JobOK
  <2> HIDE DEF r
  <2> QED
    BY <1>2, <1>3, <1>4, <1>6, <2>1, <2>2, <2>3, OneRuns
<1> QED
  BY <1>2, <1>5, <1>6

\* A file is deleted from the list: the runs it belongs to are disturbed.
LEMMA DeleteFacts ==
  ASSUME FilesOK, JobOK, NEW s \in Backup!Stamps, Backup!Delete(s)
  PROVE  /\ FilesOK' /\ UNCHANGED <<still, clock, tmp, errors>>
         /\ \A t \in 0 .. MaxClock \ {s} : files'[t] = files[t] /\ dumps'[t] = dumps[t]
         /\ \A t \in 0 .. MaxClock : files'[t] \in {files[t], Backup!None}
         /\ job' \in [Runners -> Jobs]
         /\ \A b \in Runners :
              /\ job'[b].at = job[b].at /\ job'[b].stamp = job[b].stamp
              /\ job'[b].dumpStamp = job[b].dumpStamp
              /\ job'[b].clean => job[b].clean
              /\ job'[b].clean /\ job[b].at # "idle" =>
                   s \notin {job[b].stamp, job[b].dumpStamp}
<1>1. /\ \/ files' = [files EXCEPT ![s] = Backup!None] /\ dumps' = dumps
         \/ dumps' = [dumps EXCEPT ![s] = "none"] /\ files' = files
      /\ UNCHANGED <<still, clock, tmp, errors>> /\ s \in 0 .. MaxClock
  BY DEF Backup!Delete, Backup!Stamps
<1>2. Backup!None \in FileRow /\ "none" \in Backup!States
  BY DEF FileRow, Backup!States, Backup!None
<1>3. /\ files' \in [0 .. MaxClock -> FileRow]
      /\ dumps' \in [0 .. MaxClock -> Backup!States]
      /\ \A t \in 0 .. MaxClock \ {s} : files'[t] = files[t] /\ dumps'[t] = dumps[t]
      /\ files'[s] \in {files[s], Backup!None} /\ dumps'[s] \in {dumps[s], "none"}
  BY <1>1, <1>2 DEF FilesOK
<1>4. FilesOK'
  BY <1>1, <1>3 DEF FilesOK, Backup!None
<1>5. ASSUME NEW b \in Runners
      PROVE  /\ job'[b] \in Jobs
             /\ job'[b].at = job[b].at /\ job'[b].stamp = job[b].stamp
             /\ job'[b].dumpStamp = job[b].dumpStamp
             /\ job'[b].clean => job[b].clean
             /\ job'[b].clean /\ job[b].at # "idle" =>
                  s \notin {job[b].stamp, job[b].dumpStamp}
  <2>1. job[b] \in Jobs
    BY DEF JobOK
  <2>2. job'[b] = IF s \notin {job[b].stamp, job[b].dumpStamp} THEN job[b]
                  ELSE IF job[b].at = "idle" THEN job[b] ELSE [job[b] EXCEPT !.clean = FALSE]
    BY DEF Backup!Delete, Backup!Doing
  <2> QED
    BY <2>1, <2>2 DEF Jobs
<1>6. job' \in [Runners -> Jobs]
  <2>1. job' = [b \in Runners |-> job'[b]]
    BY DEF Backup!Delete
  <2> QED
    BY <1>5, <2>1
<1> QED
  BY <1>1, <1>3, <1>4, <1>5, <1>6

LEMMA DeleteStep ==
  ASSUME BackupIInv, NEW s \in Backup!Stamps, Backup!Delete(s) PROVE BackupIInv'
<1>1. /\ FilesOK /\ JobOK /\ StillOK
      /\ Backup!LeftInv /\ Backup!AgeInv /\ OneClean /\ CleanSofar
  BY BackupParts
<1>2. /\ FilesOK' /\ UNCHANGED <<still, clock, tmp, errors>>
      /\ \A t \in 0 .. MaxClock \ {s} : files'[t] = files[t] /\ dumps'[t] = dumps[t]
      /\ \A t \in 0 .. MaxClock : files'[t] \in {files[t], Backup!None}
      /\ job' \in [Runners -> Jobs]
      /\ \A b \in Runners :
           /\ job'[b].at = job[b].at /\ job'[b].stamp = job[b].stamp
           /\ job'[b].dumpStamp = job[b].dumpStamp
           /\ job'[b].clean => job[b].clean
           /\ job'[b].clean /\ job[b].at # "idle" =>
                s \notin {job[b].stamp, job[b].dumpStamp}
  BY <1>1, DeleteFacts
<1>3. JobOK' /\ StillOK' /\ OneClean' /\ Backup!AgeInv'
  BY <1>1, <1>2 DEF JobOK, StillOK, OneClean, Backup!AgeInv, Backup!Doing
<1>4. Backup!LeftInv'
  <2>1. Backup!None.state = "none"
    BY DEF Backup!None
  <2>2. \A t \in 0 .. MaxClock : files'[t].state = "open" => files[t].state = "open"
    BY <1>2, <2>1
  <2> QED
    BY <1>1, <1>2, <2>2 DEF Backup!LeftInv, Backup!Stamps, Backup!Doing, Backup!None
<1>5. CleanSofar'
  <2>1. SUFFICES ASSUME errors = 0, NEW b \in Runners, job'[b].clean PROVE Backup!Sofar(b)'
    BY <1>2 DEF CleanSofar
  <2>2. CASE job[b].at = "idle"
    BY <1>2, <2>2 DEF Backup!Sofar
  <2>3. CASE job[b].at # "idle"
    <3>1. Backup!Sofar(b)
      BY <1>1, <1>2, <2>1 DEF CleanSofar
    <3>2. job[b].stamp \in 0 .. MaxClock /\ job[b].dumpStamp \in 0 .. MaxClock
      BY <1>1 DEF JobOK, Jobs
    <3>3. files'[job[b].stamp] = files[job[b].stamp]
          /\ dumps'[job[b].dumpStamp] = dumps[job[b].dumpStamp]
      BY <1>2, <2>1, <2>3, <3>2
    <3> QED
      BY <1>2, <3>1, <3>3 DEF Backup!Sofar, Backup!Open
  <2> QED
    BY <2>2, <2>3
<1> QED
  BY <1>2, <1>3, <1>4, <1>5, BackupPartsNext

LEMMA BackupStep == ASSUME BackupIInv, Backup!Next PROVE BackupIInv'
BY TickStep, StartStep, WalkStep, DumpStep, DumpedStep, FetchStep, PruneStep, AbandonStep,
   DeleteStep
   DEF Backup!Next

-----------------------------------------------------------------------------
(* The composition.                                                        *)

LEMMA Parts == IInv <=> Deploy!IInv /\ BackupIInv
  BY DEF IInv, BackupIInv

\* What a deployment does to the walks that have seen no write.
LEMMA StillAfter == Deploy!Next => still' \in {still, {}}
<1> SUFFICES ASSUME Deploy!Next PROVE still' = still \/ still' = {}
  OBVIOUS
<1>1. ASSUME \/ Deploy!Disconnect
             \/ \E d \in Deployers :
                  \/ Deploy!Connect(d) \/ Deploy!Deploy(d) \/ Deploy!Mark(d)
                  \/ Deploy!PutKey(d) \/ Deploy!Probe(d)
                  \/ Deploy!RemoveKey(d) \/ Deploy!Record(d) \/ Deploy!ContextDone(d)
      PROVE  still' = still
  BY <1>1 DEF Deploy!Disconnect, Deploy!Connect, Deploy!Deploy, Deploy!Mark, Deploy!PutKey,
              Deploy!Probe, Deploy!RemoveKey, Deploy!Record, Deploy!ContextDone, Deploy!site
<1>2. ASSUME NEW d \in Deployers, Deploy!Clean(d) \/ Deploy!Clone(d) \/ Deploy!Fetch(d)
      PROVE  still' = still \/ still' = {}
  BY <1>2 DEF Deploy!Clean, Deploy!Clone, Deploy!Fetch, Deploy!Writes, Deploy!site
<1>3. ASSUME NEW d \in Deployers, Deploy!Reset(d) \/ Deploy!CheckedOut(d)
      PROVE  still' = still \/ still' = {}
  BY <1>3 DEF Deploy!Reset, Deploy!CheckedOut, Deploy!Writes, Deploy!site
<1>4. ASSUME NEW d \in Deployers, Deploy!Composer(d) \/ Deploy!Restart(d)
      PROVE  still' = still \/ still' = {}
  BY <1>4 DEF Deploy!Composer, Deploy!Restart, Deploy!Writes, Deploy!site
<1> QED
  BY <1>1, <1>2, <1>3, <1>4 DEF Deploy!Next

LEMMA PartsNext == IInv' <=> Deploy!IInv' /\ BackupIInv'
  BY Parts, PTL

\* In every state of every behaviour, deployments and backups together keep
\* the inductive invariant.
THEOREM Invariant == Spec => []IInv
<1>1. Init => IInv
  BY DeployInit, BackupInit, Parts DEF Init
<1>2. IInv /\ [Next]_vars => IInv'
  <2>1. SUFFICES ASSUME Deploy!IInv, BackupIInv, [Next]_vars PROVE Deploy!IInv' /\ BackupIInv'
    BY Parts, PartsNext
  <2>2. CASE Deploy!Next /\ UNCHANGED backupVars
    <3>1. still' \in {still, {}}
      BY <2>2, StillAfter
    <3> QED
      BY <2>1, <2>2, <3>1, DeployStep, BackupStutters
  <2>3. CASE Backup!Next /\ UNCHANGED deployVars
    <3>1. UNCHANGED tree
      BY <2>3 DEF Backup!Next, Backup!Tick, Backup!Start, Backup!Walk, Backup!Dump,
                  Backup!Dumped, Backup!Fetch, Backup!Prune, Backup!Delete, Backup!Abandon
    <3> QED
      BY <2>1, <2>3, <3>1, BackupStep, DeployStutters DEF deployVars
  <2>4. CASE UNCHANGED vars
    BY <2>1, <2>4, DeployStutters, BackupStutters DEF vars, deployVars, backupVars
  <2> QED
    BY <2>1, <2>2, <2>3, <2>4 DEF Next
<1> QED
  BY <1>1, <1>2, PTL DEF Spec

\* Both components are what they say.
THEOREM TypeCorrect == Spec => []TypeOK
<1>1. IInv => TypeOK
  BY DEF IInv, TypeOK, Deploy!IInv, Backup!IInv
<1> QED
  BY <1>1, Invariant, PTL

\* git.go: once deployments are over, no key is left in the container and no
\* row says running, unless a call failed.
THEOREM DeploymentsAreOver == Spec => []DeploymentsSettle
<1>1. IInv => DeploymentsSettle
  BY DEF IInv, Deploy!IInv, Deploy!SettleInv, Deploy!Holding, Deploy!Running, Deploy!MidWay, Deploy!Quiet, Deploy!At,
         Deploy!Settles, DeploymentsSettle
<1> QED
  BY <1>1, Invariant, PTL

\* backup.go: once backups are over and nothing failed, no archive is left
\* half written and no dump in MariaDB's container.
THEOREM NothingLeftOver == Spec => []NoLeftovers
<1>1. IInv => NoLeftovers
  BY DEF IInv, Backup!IInv, Backup!LeftInv, Backup!AllQuiet, Backup!Doing,
         Backup!NoLeftovers, NoLeftovers
<1> QED
  BY <1>1, Invariant, PTL

\* What a step of a deployment may say: the row becomes "success" only by the
\* deployer that knows it, and then, if it had the tree for itself, it finds
\* there what it says.
LEMMA SuccessStep ==
  ASSUME Deploy!IInv, Deploy!Next, NEW d \in Deployers, dep[d].at = "record",
         dep'[d].at = "idle", status' # status, status' = "success", dep[d].apart
  PROVE  tree.whole /\ tree.git /\ (faults = 0 => tree.deps)
<1>1. DepOK /\ ApartFinds
  BY DeployParts
<1>2. PICK e \in Deployers : Deploy!Record(e)
  BY DEF Deploy!Next, Deploy!Disconnect, Deploy!Connect, Deploy!Deploy, Deploy!Mark,
         Deploy!Recorded, Deploy!PutKey, Deploy!Probe, Deploy!Clean, Deploy!Clone,
         Deploy!Fetch, Deploy!Reset, Deploy!CheckedOut, Deploy!Composer, Deploy!Restart,
         Deploy!RemoveKey, Deploy!ContextDone
<1>3. dep[e].ok /\ Deploy!End(e)
  BY <1>2 DEF Deploy!Record, Deploy!Recorded
<1>4. e = d
  BY <1>1, <1>3, Ends
<1> QED
  BY <1>1, <1>3, <1>4 DEF ApartFinds, Finds

\* git.go: a deployment whose commands had the tree for themselves says success
\* only over a whole commit, with its packages if nothing has failed, whatever
\* the commands of others, run on after their own deployments, had left.
THEOREM SuccessHolds == Spec => SuccessIsWhole
<1>1. IInv /\ [Next]_vars =>
        [\A d \in Deployers :
           Deploy!At(d, "record") /\ dep'[d].at = "idle" /\ status' # status
             /\ status' = "success" /\ dep[d].apart =>
             tree.whole /\ tree.git /\ (faults = 0 => tree.deps)]_Deploy!vars
  <2>1. SUFFICES ASSUME Deploy!IInv, [Next]_vars, NEW d \in Deployers, dep[d].at = "record",
                        dep'[d].at = "idle", status' # status, status' = "success",
                        dep[d].apart
                 PROVE  tree.whole /\ tree.git /\ (faults = 0 => tree.deps)
    BY Parts DEF Deploy!At
  <2>2. Deploy!Next
    BY <2>1 DEF Next, vars, deployVars
  <2> QED
    BY <2>1, <2>2, SuccessStep
<1> QED
  BY <1>1, Invariant, PTL DEF Spec, SuccessIsWhole, Deploy!SuccessIsWhole

\* A run that is over after its purge, while nobody disturbed it, has kept
\* its archive and its dump: they are younger than what goes.
LEMMA PurgeStep ==
  ASSUME BackupIInv, Backup!Next, errors = 0, NEW b \in Runners,
         job[b].at = "prune", job'[b].at = "idle", job[b].clean
  PROVE  files'[job[b].stamp].state = "whole" /\ dumps'[job[b].dumpStamp] = "whole"
<1>1. FilesOK /\ JobOK /\ Backup!AgeInv /\ OneClean /\ CleanSofar
  BY BackupParts
<1>2. files[job[b].stamp].state = "whole" /\ dumps[job[b].dumpStamp] = "whole"
  BY <1>1 DEF CleanSofar, Backup!Sofar
<1>3. /\ job[b].stamp \in 0 .. MaxClock /\ job[b].dumpStamp \in 0 .. MaxClock
      /\ clock <= job[b].stamp + Retention /\ job[b].stamp <= job[b].dumpStamp
  BY <1>1 DEF JobOK, Jobs, Backup!AgeInv, Backup!Doing
<1>4. Backup!Prune(b) \/ Backup!Abandon(b)
  <2>1. \A c \in Runners : job[c].at # "idle" => c = b
    BY <1>1 DEF OneClean
  <2>2. ASSUME NEW c \in Runners, Backup!Start(c) PROVE FALSE
    <3>1. c # b /\ job'[b] = [job[b] EXCEPT !.clean = FALSE]
      BY <2>2 DEF Backup!Start, Backup!Doing
    <3>2. job'[b].at = job[b].at
      BY <1>1, <3>1 DEF JobOK, Jobs
    <3> QED
      BY <3>2
  <2>3. ASSUME NEW s \in Backup!Stamps, Backup!Delete(s) PROVE FALSE
    BY <1>1, <2>3, DeleteFacts
  <2>4. ~Backup!Tick
    BY DEF Backup!Tick
  <2>5. ASSUME NEW c \in Runners,
               \/ Backup!Walk(c) \/ Backup!Dump(c) \/ Backup!Dumped(c) \/ Backup!Fetch(c)
        PROVE  FALSE
    <3>1. job[c].at \in {"walk", "dump", "dumping", "orphan", "read"}
      BY <2>5 DEF Backup!Walk, Backup!Dump, Backup!Dumped, Backup!Fetch, Backup!Doing
    <3> QED
      BY <2>1, <3>1
  <2>6. ASSUME NEW c \in Runners, Backup!Prune(c) \/ Backup!Abandon(c) PROVE c = b
    BY <2>1, <2>6 DEF Backup!Prune, Backup!Abandon, Backup!Doing
  <2> QED
    BY <2>2, <2>3, <2>4, <2>5, <2>6 DEF Backup!Next
<1>5. CASE Backup!Prune(b)
  <2>1. /\ ~(job[b].stamp + Retention < clock)
        /\ ~(job[b].dumpStamp + Retention < clock)
    BY <1>1, <1>3, BoundsFacts DEF FilesOK
  <2> QED
    BY <1>1, <1>2, <1>3, <1>5, <2>1, PruneFacts
<1>6. CASE Backup!Abandon(b)
  BY <1>2, <1>6 DEF Backup!Abandon
<1> QED
  BY <1>4, <1>5, <1>6

\* backup.go: what is old goes only once a new backup is complete, and the new
\* one stays, while nothing fails and nobody else is at the account's files.
THEOREM BackupKept == Spec => KeepsABackup
<1>1. IInv /\ [Next]_vars =>
        [\A b \in Runners :
           Backup!Doing(b, "prune") /\ job'[b].at = "idle" /\ errors = 0 =>
             Backup!Complete(b)]_Backup!vars
  <2>1. SUFFICES ASSUME BackupIInv, [Next]_vars, NEW b \in Runners, errors = 0,
                        job[b].at = "prune", job'[b].at = "idle", job[b].clean
                 PROVE  /\ files'[job[b].stamp].state = "whole"
                        /\ dumps'[job[b].dumpStamp] = "whole"
    BY Parts DEF Backup!Doing, Backup!Complete
  <2>2. Backup!Next
    BY <2>1 DEF Next, vars, backupVars
  <2> QED
    BY <2>1, <2>2, PurgeStep
<1> QED
  BY <1>1, Invariant, PTL DEF Spec, KeepsABackup, Backup!KeepsABackup

=============================================================================
