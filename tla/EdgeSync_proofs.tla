--------------------------- MODULE EdgeSync_proofs ---------------------------
(***************************************************************************)
(* Proofs about EdgeSync for every set of callers, every number of tables, *)
(* loads in flight, crashes and restarts; and, at the end, about           *)
(* SecuritySettings, the update that publishes and goes back when the edge *)
(* refuses, for every set of settings and of goroutines, every number of   *)
(* updates and of failed calls.                                            *)
(***************************************************************************)
EXTENDS EdgeSync, EdgeSettings, SequenceTheorems, TLAPS

Load == [by : Procs \cup {NoOne}, ver : 0 .. MaxWrites]

\* Disowning loads keeps every load, its place and its table; only who waits
\* for it changes.
LEMMA DisownProperties ==
  ASSUME inbox \in Seq(Load), NEW Q
  PROVE  /\ Disown(Q) \in Seq(Load)
         /\ Len(Disown(Q)) = Len(inbox)
         /\ \A i \in 1 .. Len(inbox) :
              /\ Disown(Q)[i].ver = inbox[i].ver
              /\ Disown(Q)[i].by = IF inbox[i].by \in Q THEN NoOne ELSE inbox[i].by
<1> DEFINE n == Len(inbox)
           e(i) == IF inbox[i].by \in Q THEN [inbox[i] EXCEPT !.by = NoOne]
                   ELSE inbox[i]
<1>1. n \in Nat /\ DOMAIN inbox = 1 .. n /\ \A i \in 1 .. n : inbox[i] \in Load
  BY LenProperties, ElementOfSeq
<1>2. \A i \in 1 .. n : /\ e(i) \in Load
                        /\ e(i).ver = inbox[i].ver
                        /\ e(i).by = IF inbox[i].by \in Q THEN NoOne ELSE inbox[i].by
  BY <1>1 DEF Load
<1>3. Disown(Q) = [i \in 1 .. n |-> e(i)]
  BY <1>1 DEF Disown
<1> HIDE DEF n, e
<1>4. Disown(Q) \in [1 .. n -> Load]
  BY <1>2, <1>3
<1>5. Disown(Q) \in Seq(Load)
  BY <1>1, <1>4, SeqDef
<1>6. Len(Disown(Q)) = n
  BY <1>1, <1>3, <1>5, LenProperties
<1> QED
  BY <1>2, <1>3, <1>5, <1>6 DEF n

\* Sending puts the load behind all the others.
LEMMA AppendLoad ==
  ASSUME inbox \in Seq(Load), NEW m \in Load
  PROVE  /\ Append(inbox, m) \in Seq(Load)
         /\ Len(Append(inbox, m)) = Len(inbox) + 1
         /\ \A i \in 1 .. Len(inbox) : Append(inbox, m)[i] = inbox[i]
         /\ Append(inbox, m)[Len(inbox) + 1] = m
  BY AppendProperties

\* What TypeOK says of each load.
LEMMA InboxTyped ==
  ASSUME TypeOK
  PROVE  /\ inbox \in Seq(Load) /\ Len(inbox) \in Nat
         /\ \A i \in 1 .. Len(inbox) :
              /\ inbox[i] \in Load
              /\ inbox[i].ver \in Nat
              /\ inbox[i].by \in Procs \cup {NoOne}
<1>1. inbox \in Seq(Load)
  BY DEF TypeOK, Load
<1>2. Len(inbox) \in Nat /\ \A i \in 1 .. Len(inbox) : inbox[i] \in Load
  BY <1>1, LenProperties, ElementOfSeq
<1> QED
  BY <1>1, <1>2, BoundsAssumption DEF Load

-----------------------------------------------------------------------------
(* Type correctness.                                                       *)

LEMMA TypeInit == Init => TypeOK
  BY BoundsAssumption DEF Init, TypeOK, Resting, Procs

\* A return from SyncCaddy.
LEMMA TypeLeave ==
  ASSUME TypeOK, NEW p \in Procs, NEW outcome \in Resting, Leave(p, outcome)
  PROVE  /\ phase' \in {"down", "booting", "serving"}
         /\ caddyMu' \in Panel \cup {NoOne}
         /\ pc' \in [Procs -> Resting \cup {"lock"} \cup Critical]
         /\ caddyMu' # NoOne => phase' # "down" /\ pc'[caddyMu'] \in Critical
         /\ phase' = "down" => \A q \in Panel : pc'[q] # "lock"
<1>1. /\ phase' \in {"down", "booting", "serving"}
      /\ caddyMu' \in Panel \cup {NoOne}
      /\ pc' \in [Procs -> Resting \cup {"lock"} \cup Critical]
  BY DEF TypeOK, Leave
<1>2. caddyMu' # NoOne => phase' # "down" /\ pc'[caddyMu'] \in Critical
  BY DEF TypeOK, Leave, Procs
<1>3. phase' = "down" => \A q \in Panel : pc'[q] # "lock"
  BY DEF TypeOK, Leave, Procs, Resting
<1> QED
  BY <1>1, <1>2, <1>3

LEMMA TypeNext == TypeOK /\ [Next]_vars => TypeOK'
<1> SUFFICES ASSUME TypeOK, [Next]_vars
             PROVE  TypeOK'
  OBVIOUS
<1> USE BoundsAssumption, ProcsAssumption DEF TypeOK, counters
<1>l. inbox \in Seq(Load) /\ Len(inbox) \in Nat
  BY LenProperties DEF Load
<1>1. ASSUME NEW p \in Procs, Start(p)
      PROVE  TypeOK'
  <2>1. CASE Write(p)
    BY <2>1 DEF Write, MayStart, Resting, Critical
  <2>2. CASE WriteUnsynced(p)
    BY <2>2 DEF WriteUnsynced, MayStart, Resting, Critical
  <2>3. CASE Call(p)
    BY <2>3 DEF Call, MayStart, Resting, Critical
  <2> QED
    BY <1>1, <2>1, <2>2, <2>3 DEF Start
<1>2. ASSUME NEW p \in Procs, Lock(p)
      PROVE  TypeOK'
  BY <1>2 DEF Lock, Procs, Panel, Resting, Critical
<1>3. ASSUME NEW p \in Procs, Step(p)
      PROVE  TypeOK'
  <2>1. CASE Read(p)
    BY <2>1 DEF Read, Resting, Critical
  <2>2. CASE Fail(p)
    BY <2>2, TypeLeave DEF Fail, Resting
  <2>3. CASE Send(p)
    <3>1. [by |-> p, ver |-> snap[p]] \in Load
      BY DEF Load
    <3>2. inbox' \in Seq(Load)
      BY <2>3, <3>1, <1>l, AppendLoad DEF Send
    <3> QED
      BY <2>3, <3>2 DEF Send, Resting, Critical, Load
  <2>4. CASE GiveUp(p)
    BY <2>4, <1>l, TypeLeave, DisownProperties DEF GiveUp, Resting, Load
  <2>5. CASE Return(p)
    BY <2>5, TypeLeave DEF Return, Resting
  <2> QED
    BY <1>3, <2>1, <2>2, <2>3, <2>4, <2>5 DEF Step
<1>4. CASE BootStart
  BY <1>4 DEF BootStart, Panel, Procs, Resting, Critical
<1>5. ASSUME inbox # <<>>
      PROVE  /\ Head(inbox) \in Load /\ Tail(inbox) \in Seq(Load)
             /\ \A a \in Critical :
                  Answered(Head(inbox), a) \in [Procs -> Resting \cup {"lock"} \cup Critical]
  <2>1. Head(inbox) \in Load /\ Tail(inbox) \in Seq(Load)
    BY <1>5, <1>l, HeadTailProperties
  <2> QED
    BY <2>1 DEF Answered, Load
\* Whoever gets an answer was inside SyncCaddy, and still is.
<1>a. ASSUME inbox # <<>>, NEW a \in {"applied", "rejected"}, pc' = Answered(Head(inbox), a),
             UNCHANGED <<phase, caddyMu>>
      PROVE  /\ caddyMu' # NoOne => phase' # "down" /\ pc'[caddyMu'] \in Critical
             /\ phase' = "down" => \A q \in Panel : pc'[q] # "lock"
  <2>1. Head(inbox).by \in Procs \cup {NoOne} /\ a \in Critical /\ a # "lock"
    BY <1>a, <1>5 DEF Load, Critical
  <2>2. \A q \in Procs : pc'[q] \in {pc[q], a}
    BY <1>a, <2>1 DEF Answered
  <2> QED
    BY <1>a, <2>1, <2>2 DEF Procs
<1>6. CASE EdgeApplies
  BY <1>5, <1>6, <1>a DEF EdgeApplies, Load, Critical
<1>7. CASE EdgeRejects
  BY <1>5, <1>7, <1>a DEF EdgeRejects, Load, Critical
<1>8. CASE EdgeRestart
  BY <1>8, EmptySeq DEF EdgeRestart
<1>9. CASE PanelCrash
  BY <1>9, <1>l, DisownProperties DEF PanelCrash, Resting, Load, Procs
<1>10. CASE UNCHANGED vars
  BY <1>10 DEF vars
<1> QED
  BY <1>1, <1>2, <1>3, <1>4, <1>6, <1>7, <1>8, <1>9, <1>10 DEF Next

\* Every reachable state is well typed, with any number of commands beside
\* the panel.
THEOREM TypeCorrect == Spec => []TypeOK
  BY TypeInit, TypeNext, PTL DEF Spec

-----------------------------------------------------------------------------
(* The inductive invariant.                                                *)

LEMMA IInvInit == Init => IInv
<1> SUFFICES ASSUME Init PROVE IInv
  OBVIOUS
<1> USE ProcsAssumption, BoundsAssumption DEF Init
<1>1. TypeOK
  BY TypeInit
<1>2. Len(inbox) = 0
  BY EmptySeq
<1> QED
  BY <1>1, <1>2 DEF IInv, MutexInv, VersionInv, InboxInv, SnapInv, AnswerInv,
       AckInv, CoverInv, DownInv, ReadYourWrites, Unanswered, Critical, Panel, Procs

\* An operation starts: nothing of the publication machinery moves, and the
\* operation's own required version is committed.
LEMMA IInvStart ==
  ASSUME IInv, TypeOK', Cli = {}, NEW p \in Procs, Start(p) \/ (p = Boot /\ BootStart)
  PROVE  IInv'
<1> USE ProcsAssumption DEF IInv
<1>1. /\ p \in Panel /\ pc[p] \in Resting
      /\ pc' \in {[pc EXCEPT ![p] = "lock"], [pc EXCEPT ![p] = "unsynced"]}
      /\ floor' = [floor EXCEPT ![p] = db'] /\ db' \in {db, db + 1}
      /\ phase' # "down" /\ (phase = "down" => p = Boot)
      /\ UNCHANGED <<edge, caddyMu, snap, inbox, edgeRestarts>>
  BY DEF Start, Write, WriteUnsynced, Call, BootStart, MayStart, Panel, Procs,
         counters, DownInv, Resting
<1>2. db \in Nat /\ db' \in Nat /\ edge \in Nat
  BY DEF TypeOK
<1>3. \A q \in Procs : /\ q # p => pc'[q] = pc[q] /\ floor'[q] = floor[q]
                       /\ floor[q] \in Nat /\ snap[q] \in Nat
  BY <1>1 DEF TypeOK
<1>4. pc'[p] \in {"lock", "unsynced"} /\ floor'[p] = db'
  BY <1>1 DEF TypeOK, Procs
<1>5. MutexInv'
  BY <1>1, <1>3, <1>4 DEF MutexInv, Critical, Resting, Procs
<1>6. VersionInv'
  BY <1>1, <1>2, <1>3, <1>4, InboxTyped DEF VersionInv
<1>7. InboxInv'
  BY <1>1, <1>3, <1>4, InboxTyped DEF InboxInv, Resting
<1>8. SnapInv' /\ AnswerInv' /\ AckInv'
  BY <1>1, <1>3, <1>4 DEF SnapInv, AnswerInv, AckInv, Unanswered, Procs
<1>9. CoverInv' /\ DownInv'
  BY <1>1, <1>4 DEF CoverInv, DownInv
<1>10. ReadYourWrites'
  BY <1>1, <1>3, <1>4 DEF ReadYourWrites
<1> QED
  BY <1>5, <1>6, <1>7, <1>8, <1>9, <1>10

\* The caller enters SyncCaddy, or reads the table while it holds the mutex.
LEMMA IInvEnter ==
  ASSUME IInv, TypeOK', Cli = {}, NEW p \in Procs, Lock(p) \/ Read(p)
  PROVE  IInv'
<1> USE ProcsAssumption DEF IInv
<1>1. /\ p \in Panel
      /\ UNCHANGED <<phase, db, edge, floor, inbox, edgeRestarts>>
      /\ \A q \in Procs : q # p => pc'[q] = pc[q] /\ snap'[q] = snap[q]
      /\ pc'[p] \in {"read", "load"} /\ caddyMu' = p /\ caddyMu \in {p, NoOne}
      /\ pc[p] \in {"lock", "read"}
      /\ pc'[p] = "load" => snap'[p] = db
      /\ snap'[p] \in {db, snap[p]}
  BY DEF Lock, Read, TypeOK, MutexInv, Critical, counters, Procs
<1>2. db \in Nat /\ edge \in Nat
  BY DEF TypeOK
<1>3. MutexInv'
  BY <1>1 DEF MutexInv, Critical, Panel, Procs
<1>4. VersionInv'
  BY <1>1, <1>2 DEF VersionInv
<1>5. InboxInv'
  BY <1>1, InboxTyped DEF InboxInv
<1>6. SnapInv' /\ AnswerInv' /\ AckInv'
  BY <1>1 DEF SnapInv, AnswerInv, AckInv, Unanswered, VersionInv, Procs
<1>7. CoverInv' /\ DownInv'
  BY <1>1 DEF CoverInv, DownInv, Procs
<1>8. ReadYourWrites'
  BY <1>1 DEF ReadYourWrites
<1> QED
  BY <1>3, <1>4, <1>5, <1>6, <1>7, <1>8

\* The load joins the others, behind all of them and newer than all of them.
LEMMA IInvSend ==
  ASSUME IInv, TypeOK', Cli = {}, NEW p \in Procs, Send(p)
  PROVE  IInv'
<1> USE ProcsAssumption DEF IInv
<1> DEFINE n == Len(inbox)
<1>1. /\ p \in Panel /\ p # NoOne
      /\ UNCHANGED <<phase, db, edge, caddyMu, floor, snap, edgeRestarts>>
      /\ \A q \in Procs : q # p => pc'[q] = pc[q]
      /\ pc'[p] = "wait" /\ pc[p] = "load"
  BY DEF Send, TypeOK, counters, Procs
<1>2. inbox \in Seq(Load) /\ n \in Nat
  BY InboxTyped
<1>3. [by |-> p, ver |-> snap[p]] \in Load
  BY DEF Load, TypeOK
<1>4. /\ Len(inbox') = n + 1
      /\ \A i \in 1 .. n : inbox'[i] = inbox[i] /\ inbox[i] \in Load
      /\ inbox'[n + 1] = [by |-> p, ver |-> snap[p]]
  BY <1>2, <1>3, AppendLoad, ElementOfSeq DEF Send
<1>5. MutexInv'
  BY <1>1 DEF MutexInv, Critical, Procs
<1>6. \A i \in 1 .. n + 1 : i = n + 1 \/ i \in 1 .. n
  BY <1>2
<1>7. db \in Nat /\ edge \in Nat /\ snap[p] \in Nat /\ snap[p] <= db /\ edge <= snap[p]
      /\ \A i \in 1 .. n : inbox[i].ver <= snap[p] /\ inbox[i].ver \in Nat
  <2>1. db \in Nat /\ edge \in Nat /\ snap[p] \in Nat
    BY BoundsAssumption DEF TypeOK
  <2>2. snap[p] <= db /\ edge <= snap[p] /\ \A i \in 1 .. n : inbox[i].ver <= snap[p]
    BY <1>1 DEF VersionInv, SnapInv, Unanswered
  <2> QED
    BY <2>1, <2>2, InboxTyped
<1>8. VersionInv'
  BY <1>1, <1>4, <1>6, <1>7 DEF VersionInv
<1>9. \A i \in 1 .. n : inbox[i].by = NoOne
  <2> SUFFICES ASSUME NEW i \in 1 .. n, inbox[i].by # NoOne
               PROVE  FALSE
    OBVIOUS
  <2>1. pc[inbox[i].by] = "wait" /\ inbox[i].by \in Panel
    BY <1>4 DEF InboxInv, Load, Procs
  <2> QED
    BY <1>1, <2>1 DEF MutexInv, Critical
<1>10. InboxInv'
  <2>1. \A i \in 1 .. n + 1 : edge <= inbox'[i].ver
    BY <1>4, <1>6, <1>7 DEF InboxInv
  <2>2. \A i, j \in 1 .. n + 1 : i <= j => inbox'[i].ver <= inbox'[j].ver
    BY <1>2, <1>4, <1>6, <1>7 DEF InboxInv
  <2>3. \A i \in 1 .. n + 1 : inbox'[i].by # NoOne => i = n + 1
    BY <1>4, <1>6, <1>9
  <2> QED
    BY <1>1, <1>4, <2>1, <2>2, <2>3 DEF InboxInv
<1>11. \A q \in Panel : pc'[q] \in {"load", "wait", "applied", "rejected"} => q = p
  BY <1>1 DEF MutexInv, Critical, Procs
<1>12. SnapInv' /\ AnswerInv'
  BY <1>1, <1>4, <1>6, <1>7, <1>11 DEF SnapInv, AnswerInv, Unanswered
<1>13. CoverInv' /\ DownInv'
  BY <1>1 DEF CoverInv, DownInv, Procs
<1>14. AckInv' /\ ReadYourWrites'
  BY <1>1, <1>4, <1>6, <1>11 DEF AckInv, ReadYourWrites, Unanswered, Procs
<1> QED
  BY <1>5, <1>8, <1>10, <1>12, <1>13, <1>14

\* SyncCaddy returns, with the answer or without it; a load it abandons
\* stays where it is and is nobody's.
LEMMA IInvLeave ==
  ASSUME IInv, TypeOK', Cli = {}, NEW p \in Procs,
         Fail(p) \/ GiveUp(p) \/ Return(p)
  PROVE  IInv'
<1> USE ProcsAssumption DEF IInv
<1>1. /\ p \in Panel /\ caddyMu = p /\ caddyMu' = NoOne
      /\ UNCHANGED <<db, edge, floor, snap, edgeRestarts>>
      /\ \A q \in Procs : q # p => pc'[q] = pc[q]
      /\ pc'[p] \in {"ok", "error"} /\ pc[p] \in Critical
      /\ pc'[p] = "ok" => pc[p] = "applied"
      /\ phase # "down" /\ phase' \in {phase, "serving"}
  <2>1. p \in Panel /\ pc[p] \in Critical /\ caddyMu = p /\ phase # "down"
    BY DEF Fail, GiveUp, Return, Critical, MutexInv, DownInv, Procs
  <2> QED
    BY <2>1 DEF Fail, GiveUp, Return, Leave, TypeOK, counters
<1>2. /\ Len(inbox') = Len(inbox)
      /\ \A i \in 1 .. Len(inbox) :
           /\ inbox'[i].ver = inbox[i].ver
           /\ inbox'[i].by \in {inbox[i].by, NoOne} /\ inbox'[i].by # p
      /\ inbox = <<>> => inbox' = <<>>
  <2>1. CASE UNCHANGED inbox /\ pc[p] # "wait"
    BY <2>1, InboxTyped DEF InboxInv
  <2>2. CASE inbox' = Disown({p})
    <3>1. inbox = <<>> => inbox' = <<>>
      BY <2>2 DEF Disown
    <3> QED
      BY <2>2, <3>1, InboxTyped, DisownProperties
  <2> QED
    BY <2>1, <2>2 DEF Fail, GiveUp, Return
<1>3. MutexInv'
  BY <1>1 DEF MutexInv, Critical, Panel, Procs
<1>4. VersionInv'
  BY <1>1, <1>2 DEF VersionInv
<1>5. InboxInv'
  <2>1. \A i \in 1 .. Len(inbox) : inbox'[i].by # NoOne =>
          inbox'[i].by = inbox[i].by /\ inbox[i].by \in Procs /\ inbox[i].by # p
    BY <1>2, InboxTyped
  <2> QED
    BY <1>1, <1>2, <2>1 DEF InboxInv
<1>6. \A q \in Panel : pc'[q] \notin Critical
  BY <1>1 DEF MutexInv, Critical, Panel, Procs
<1>7. SnapInv' /\ AnswerInv'
  BY <1>6 DEF SnapInv, AnswerInv, Unanswered, Critical
<1>8. CoverInv' /\ DownInv'
  BY <1>1 DEF CoverInv, DownInv, Procs
<1>9. ReadYourWrites'
  <2>1. pc'[p] = "ok" => edge >= floor[p] \/ (edge = 0 /\ edgeRestarts > 0)
    BY <1>1 DEF AnswerInv, SnapInv, Unanswered, TypeOK
  <2> QED
    BY <1>1, <2>1 DEF ReadYourWrites
<1>10. AckInv'
  <2>1. pc'[p] = "ok" => inbox' = <<>>
    BY <1>1, <1>2 DEF AnswerInv
  <2>2. \A q \in Panel : ~Unanswered(q)'
    BY <1>6 DEF Unanswered, Critical
  <2>3. Len(<<>>) = 0
    OBVIOUS
  <2> QED
    BY <1>1, <1>2, <2>1, <2>2, <2>3 DEF AckInv, Procs
<1> QED
  BY <1>3, <1>4, <1>5, <1>7, <1>8, <1>9, <1>10

\* The edge works off the oldest load, by serving it or by refusing it.
LEMMA IInvEdge ==
  ASSUME IInv, TypeOK', Cli = {}, EdgeApplies \/ EdgeRejects
  PROVE  IInv'
<1> USE ProcsAssumption DEF IInv
<1> DEFINE n == Len(inbox)
           h == inbox[1]
<1>1. inbox # <<>> /\ n \in Nat /\ n >= 1 /\ Head(inbox) = h
  BY InboxTyped, EmptySeq DEF EdgeApplies, EdgeRejects
<1>2. /\ h.by \in Procs \cup {NoOne} /\ h.ver \in Nat
      /\ Len(inbox') = n - 1
      /\ \A i \in 1 .. n - 1 : inbox'[i] = inbox[i + 1] /\ i + 1 \in 1 .. n
      /\ n = 1 => inbox' = <<>>
  <2>1. inbox' = Tail(inbox)
    BY DEF EdgeApplies, EdgeRejects
  <2>2. Len(inbox') = n - 1 /\ \A i \in 1 .. n - 1 : inbox'[i] = inbox[i + 1]
    BY <1>1, <2>1, InboxTyped, HeadTailProperties
  <2>3. n = 1 => inbox' = <<>>
    BY <1>1, <2>1, <2>2, InboxTyped, HeadTailProperties, EmptySeq
  <2> QED
    BY <1>1, <2>2, <2>3, InboxTyped
<1>3. /\ UNCHANGED <<phase, db, caddyMu, floor, snap, edgeRestarts>>
      /\ edge' \in {edge, h.ver}
      /\ \A q \in Procs : q # h.by => pc'[q] = pc[q]
      /\ h.by # NoOne => pc'[h.by] \in {"applied", "rejected"}
      /\ \A q \in Procs : pc'[q] = "applied" => pc[q] = "applied" \/ edge' = h.ver
  BY <1>1, <1>2 DEF EdgeApplies, EdgeRejects, Answered, TypeOK, counters
\* The load worked off is waited for only when it is the last one.
<1>4. h.by # NoOne => n = 1 /\ pc[h.by] = "wait" /\ h.ver = snap[h.by]
  <2>1. 1 \in 1 .. n
    BY <1>1
  <2> QED
    BY <2>1 DEF InboxInv
<1>5. edge \in Nat /\ edge <= h.ver /\ h.ver <= db
  BY <1>1 DEF TypeOK, InboxInv, VersionInv
<1>6. edge <= edge'
  BY <1>1, <1>2, <1>3, <1>5 DEF TypeOK
<1>7. MutexInv'
  BY <1>2, <1>3, <1>4 DEF MutexInv, Critical, Procs
<1>8. VersionInv'
  BY <1>2, <1>3, <1>5 DEF VersionInv
<1>9. InboxInv'
  <2>1. \A i \in 1 .. n - 1 : edge' <= inbox'[i].ver
    BY <1>1, <1>2, <1>3 DEF InboxInv
  <2>2. \A i, j \in 1 .. n - 1 : i <= j => inbox'[i].ver <= inbox'[j].ver
    BY <1>1, <1>2 DEF InboxInv
  <2>3. \A i \in 1 .. n - 1 : inbox'[i].by # NoOne =>
          /\ i = n - 1
          /\ pc[inbox'[i].by] = "wait" /\ inbox'[i].ver = snap[inbox'[i].by]
    <3> SUFFICES ASSUME NEW i \in 1 .. n - 1, inbox'[i].by # NoOne
                 PROVE  /\ i = n - 1
                        /\ pc[inbox'[i].by] = "wait"
                        /\ inbox'[i].ver = snap[inbox'[i].by]
      OBVIOUS
    <3>1. inbox'[i] = inbox[i + 1] /\ i + 1 \in 1 .. n
      BY <1>2
    <3>2. i + 1 = n /\ pc[inbox'[i].by] = "wait" /\ inbox'[i].ver = snap[inbox'[i].by]
      BY <3>1 DEF InboxInv
    <3> QED
      BY <1>1, <3>2
  <2>4. \A i \in 1 .. n - 1 : h.by = NoOne /\ inbox'[i].by \in Procs \cup {NoOne}
    <3>0. n = 1 => 1 .. n - 1 = {}
      BY <1>1
    <3>1. h.by # NoOne => 1 .. n - 1 = {}
      BY <1>4, <3>0
    <3>2. \A i \in 1 .. n - 1 : inbox[i + 1].by \in Procs \cup {NoOne}
      BY <1>2, InboxTyped
    <3> QED
      BY <1>2, <3>1, <3>2
  <2> QED
    BY <1>2, <1>3, <2>1, <2>2, <2>3, <2>4 DEF InboxInv
<1>10. SnapInv'
  <2> SUFFICES ASSUME NEW q \in Panel, Unanswered(q)'
               PROVE  /\ floor[q] <= snap[q] /\ edge' <= snap[q]
                      /\ \A i \in 1 .. n - 1 : inbox'[i].ver <= snap[q]
    BY <1>2, <1>3 DEF SnapInv
  <2>1. Unanswered(q)
    BY <1>2, <1>3, <1>4 DEF Unanswered, Procs
  <2>2. floor[q] <= snap[q] /\ edge <= snap[q] /\ \A i \in 1 .. n : inbox[i].ver <= snap[q]
    BY <2>1 DEF SnapInv
  <2> QED
    BY <1>1, <1>2, <1>3, <2>2
<1>11. AnswerInv'
  <2> SUFFICES ASSUME NEW q \in Panel, pc'[q] = "applied"
               PROVE  /\ inbox' = <<>>
                      /\ edge' = snap[q] \/ (edge' = 0 /\ edgeRestarts > 0)
    BY <1>3 DEF AnswerInv
  <2>1. pc[q] # "applied"
    BY <1>1 DEF AnswerInv
  <2>2. q = h.by /\ edge' = h.ver
    BY <1>3, <2>1 DEF Procs
  <2> QED
    BY <1>2, <1>4, <2>2, ProcsAssumption DEF Procs
<1>12. CoverInv' /\ DownInv'
  BY <1>2, <1>3, <1>4 DEF CoverInv, DownInv, Procs
<1>13. ReadYourWrites'
  <2> SUFFICES ASSUME NEW q \in Procs, pc'[q] = "ok"
               PROVE  edge' >= floor[q] \/ (edge' = 0 /\ edgeRestarts > 0)
    BY <1>3 DEF ReadYourWrites
  <2>1. pc[q] = "ok"
    BY <1>2, <1>3
  <2>2. floor[q] <= h.ver
    BY <1>1, <2>1 DEF AckInv, Procs
  <2> QED
    BY <1>2, <1>3, <2>1, <2>2 DEF ReadYourWrites, TypeOK
<1>14. AckInv'
  <2> SUFFICES ASSUME NEW q \in Panel, pc'[q] = "ok"
               PROVE  /\ \A i \in 1 .. n - 1 : floor[q] <= inbox'[i].ver
                      /\ \A r \in Panel : Unanswered(r)' => floor[q] <= snap[r]
    BY <1>2, <1>3 DEF AckInv
  <2>1. pc[q] = "ok"
    BY <1>2, <1>3 DEF Procs
  <2>2. \A r \in Panel : Unanswered(r)' => Unanswered(r)
    BY <1>2, <1>3, <1>4 DEF Unanswered, Procs
  <2> QED
    BY <1>1, <1>2, <2>1, <2>2 DEF AckInv
<1> QED
  BY <1>7, <1>8, <1>9, <1>10, <1>11, <1>12, <1>13, <1>14

\* The edge restarts: it serves no table, and no load is on its way.
LEMMA IInvRestart ==
  ASSUME IInv, TypeOK', EdgeRestart
  PROVE  IInv'
<1> USE DEF IInv
<1>1. /\ UNCHANGED <<phase, db, caddyMu, pc, floor, snap>>
      /\ edge' = 0 /\ inbox' = <<>> /\ edgeRestarts' > 0
      /\ Len(inbox') = 0 /\ 1 .. Len(inbox') = {}
  BY EmptySeq DEF EdgeRestart, TypeOK
<1>2. db \in Nat /\ \A p \in Procs : snap[p] \in Nat
  BY DEF TypeOK
<1>3. MutexInv' /\ VersionInv' /\ InboxInv' /\ DownInv' /\ CoverInv'
  BY <1>1, <1>2 DEF MutexInv, VersionInv, InboxInv, DownInv, CoverInv
<1>4. SnapInv' /\ AnswerInv' /\ AckInv' /\ ReadYourWrites'
  BY <1>1, <1>2 DEF SnapInv, AnswerInv, AckInv, ReadYourWrites, Unanswered, Panel, Procs
<1> QED
  BY <1>3, <1>4

\* The panel dies: its goroutines are idle, its loads are nobody's.
LEMMA IInvCrash ==
  ASSUME IInv, TypeOK', Cli = {}, PanelCrash
  PROVE  IInv'
<1> USE ProcsAssumption DEF IInv
<1>1. /\ UNCHANGED <<db, edge, snap, edgeRestarts>>
      /\ phase' = "down" /\ caddyMu' = NoOne
      /\ \A p \in Procs : p \in Panel /\ pc'[p] = "idle" /\ floor'[p] = 0
  BY DEF PanelCrash, TypeOK, Procs
<1>2. /\ Len(inbox') = Len(inbox) /\ Len(inbox) \in Nat
      /\ \A i \in 1 .. Len(inbox) : inbox'[i].ver = inbox[i].ver /\ inbox'[i].by = NoOne
  BY InboxTyped, DisownProperties DEF PanelCrash, Procs
<1>3. MutexInv'
  BY <1>1 DEF MutexInv, Critical, Panel, Procs
<1>4. VersionInv' /\ InboxInv'
  <2>1. db \in Nat
    BY BoundsAssumption DEF TypeOK
  <2>2. VersionInv'
    BY <1>1, <1>2, <2>1 DEF VersionInv
  <2>3. InboxInv'
    BY <1>1, <1>2 DEF InboxInv
  <2> QED
    BY <2>2, <2>3
<1>5. SnapInv' /\ AnswerInv' /\ AckInv' /\ ReadYourWrites'
  BY <1>1 DEF SnapInv, AnswerInv, AckInv, ReadYourWrites, Unanswered, Procs
<1>6. CoverInv' /\ DownInv'
  BY <1>1 DEF CoverInv, DownInv, Procs
<1> QED
  BY <1>3, <1>4, <1>5, <1>6

LEMMA IInvNext ==
  ASSUME Cli = {}
  PROVE  IInv /\ [Next]_vars => IInv'
<1> SUFFICES ASSUME IInv, [Next]_vars
             PROVE  IInv'
  OBVIOUS
<1>1. TypeOK'
  BY TypeNext DEF IInv
<1>2. CASE \E p \in Procs : Start(p) \/ Lock(p) \/ Step(p)
  BY <1>1, <1>2, IInvStart, IInvEnter, IInvSend, IInvLeave DEF Step
<1>3. CASE BootStart
  BY <1>1, <1>3, IInvStart DEF Procs, Panel
<1>4. CASE EdgeApplies \/ EdgeRejects
  BY <1>1, <1>4, IInvEdge
<1>5. CASE EdgeRestart
  BY <1>1, <1>5, IInvRestart
<1>6. CASE PanelCrash
  BY <1>1, <1>6, IInvCrash
<1>7. CASE UNCHANGED vars
  BY <1>7 DEF vars, IInv, TypeOK, MutexInv, VersionInv, InboxInv, SnapInv, AnswerInv,
       AckInv, CoverInv, DownInv, ReadYourWrites, Unanswered
<1> QED
  BY <1>2, <1>3, <1>4, <1>5, <1>6, <1>7 DEF Next

\* The invariant holds in every reachable state of a single panel.
THEOREM Invariance ==
  ASSUME Cli = {}
  PROVE  Spec => []IInv
<1>1. Init => IInv
  BY IInvInit
<1>2. IInv /\ [Next]_vars => IInv'
  BY IInvNext
<1> QED
  BY <1>1, <1>2, PTL DEF Spec

-----------------------------------------------------------------------------
(* What follows from it.                                                   *)

\* A SyncCaddy that returned nil has the change it was called for live.
THEOREM AcknowledgedIsLive ==
  ASSUME Cli = {}
  PROVE  Spec => []ReadYourWrites
<1>1. IInv => ReadYourWrites
  BY DEF IInv
<1> QED
  BY <1>1, Invariance, PTL

\* With no operation under way and none failed since the boot, the edge
\* serves the table the database holds.
THEOREM QuietIsPublished ==
  ASSUME Cli = {}
  PROVE  Spec => []QuietMeansPublished
<1>1. IInv => QuietMeansPublished
  <2> SUFFICES ASSUME IInv, phase = "serving",
                      \A p \in Panel : pc[p] \in {"idle", "ok"}
               PROVE  edge = db \/ (edge = 0 /\ edgeRestarts > 0)
    BY DEF QuietMeansPublished
  <2>1. PICK p \in Panel : floor[p] = db /\ pc[p] = "ok"
    BY DEF IInv, CoverInv
  <2>2. edge >= db \/ (edge = 0 /\ edgeRestarts > 0)
    BY <2>1 DEF IInv, ReadYourWrites, Procs
  <2> QED
    BY <2>2 DEF IInv, VersionInv, TypeOK
<1> QED
  BY <1>1, Invariance, PTL

\* The whole machinery, with its mutex, its abandoned loads, its crashes and
\* its restarts, implements the abstract publisher.
THEOREM Refinement ==
  ASSUME Cli = {}
  PROVE  Spec => RefinesPublisher
<1>1. Init => Publisher!Init
  BY DEF Init, Publisher!Init
<1>2. IInv /\ [Next]_vars => [Publisher!Next]_(Publisher!vars)
  <2> SUFFICES ASSUME IInv, [Next]_vars
               PROVE  Publisher!Next \/ UNCHANGED <<db, edge>>
    BY DEF Publisher!vars
  <2> USE DEF Publisher!Next, Publisher!Commit, Publisher!Publish, Publisher!Forget
  <2>1. CASE \E p \in Procs : Start(p) \/ Lock(p) \/ Step(p)
    BY <2>1 DEF Start, Write, WriteUnsynced, Call, Lock, Step, Read, Fail, Send,
         GiveUp, Return
  <2>2. CASE EdgeApplies
    <3>1. inbox # <<>> /\ Head(inbox) = inbox[1] /\ 1 \in 1 .. Len(inbox)
      BY <2>2, InboxTyped, EmptySeq DEF EdgeApplies, IInv
    <3>2. /\ edge \in Nat /\ db \in Nat /\ inbox[1].ver \in Nat
          /\ edge <= inbox[1].ver /\ inbox[1].ver <= db
      BY <3>1, InboxTyped DEF IInv, InboxInv, VersionInv, TypeOK
    <3> QED
      BY <2>2, <3>1, <3>2 DEF EdgeApplies
  <2>3. CASE EdgeRestart
    BY <2>3 DEF EdgeRestart
  <2>4. CASE BootStart \/ EdgeRejects \/ PanelCrash \/ UNCHANGED vars
    BY <2>4 DEF BootStart, EdgeRejects, PanelCrash, vars
  <2> QED
    BY <2>1, <2>2, <2>3, <2>4 DEF Next
<1> QED
  BY <1>1, <1>2, Invariance, PTL DEF Spec, RefinesPublisher, Publisher!Spec

-----------------------------------------------------------------------------
(* The security settings (EdgeSettings), whose assumptions the proofs use. *)

\* Typing needs what an updater at work remembers: the row takes both the
\* settings it asks for and those it goes back to.
Typed == Sec!TypeOK /\ Sec!Remembers

LEMMA TypedInit == Sec!Init => Typed
  BY UpdatersAssumption, SettingsAssumption, UpdatesAssumption
     DEF Sec!Init, Typed, Sec!TypeOK, Sec!Remembers,
         Sec!Procs, Sec!Resting, Sec!Answers

\* Every step keeps Typed, whatever the number of updaters.
LEMMA TypedNext == Typed /\ [Sec!Next]_(Sec!vars) => Typed'
<1> SUFFICES ASSUME Typed, [Sec!Next]_(Sec!vars) PROVE Typed'
  OBVIOUS
<1> USE UpdatersAssumption, SettingsAssumption, UpdatesAssumption
    DEF Typed, Sec!TypeOK, Sec!Remembers, Sec!Procs,
        Sec!Resting, Sec!Answers, Sec!GoTo, Sec!Works, Sec!Fault
<1>1. ASSUME NEW p \in Updaters, NEW s \in Settings, Sec!Request(p, s) PROVE Typed'
  BY <1>1 DEF Sec!Request
<1>2. ASSUME NEW p \in Updaters, Sec!WriteSettings(p) PROVE Typed'
  BY <1>2 DEF Sec!WriteSettings
<1>3. ASSUME NEW p \in Updaters, Sec!Revert(p) PROVE Typed'
  BY <1>3 DEF Sec!Revert
<1>4. ASSUME NEW p \in Syncers, Sec!Sync(p) PROVE Typed'
  BY <1>4 DEF Sec!Sync
<1>5. ASSUME NEW p \in Sec!Procs, Sec!Lock(p) PROVE Typed'
  BY <1>5 DEF Sec!Lock
<1>6. ASSUME NEW p \in Sec!Procs, Sec!Load(p) PROVE Typed'
  BY <1>6 DEF Sec!Load, Sec!OnError
<1>7. CASE UNCHANGED Sec!vars
  BY <1>7 DEF Sec!vars
<1> QED
  BY <1>1, <1>2, <1>3, <1>4, <1>5, <1>6, <1>7 DEF Sec!Next

\* Every reachable state is well typed, for any number of updaters: the row
\* only ever holds settings somebody validated, the edge only ones it loads.
THEOREM SettingsTypeCorrect == SettingsSpec => []SettingsTypeOK
<1>1. Sec!Init => Typed
  BY TypedInit
<1>2. Typed /\ [Sec!Next]_(Sec!vars) => Typed'
  BY TypedNext
<1>3. Typed => SettingsTypeOK
  BY DEF Typed, SettingsTypeOK
<1> QED
  BY <1>1, <1>2, <1>3, PTL DEF SettingsSpec, Sec!Spec

-----------------------------------------------------------------------------
(* The mutex excludes, whatever the number of updaters.                    *)

LEMMA MutexNext ==
  Sec!TypeOK /\ Sec!MutexInv /\ [Sec!Next]_(Sec!vars) => Sec!MutexInv'
<1> SUFFICES ASSUME Sec!TypeOK, Sec!MutexInv, [Sec!Next]_(Sec!vars)
             PROVE  Sec!MutexInv'
  OBVIOUS
<1> USE UpdatersAssumption, SettingsAssumption, UpdatesAssumption
    DEF Sec!TypeOK, Sec!MutexInv, Sec!Procs,
        Sec!Resting, Sec!Answers, Sec!GoTo
<1>1. ASSUME NEW p \in Updaters, NEW s \in Settings, Sec!Request(p, s) PROVE Sec!MutexInv'
  BY <1>1 DEF Sec!Request
<1>2. ASSUME NEW p \in Updaters, Sec!WriteSettings(p) \/ Sec!Revert(p) PROVE Sec!MutexInv'
  BY <1>2 DEF Sec!WriteSettings, Sec!Revert
<1>3. ASSUME NEW p \in Syncers, Sec!Sync(p) PROVE Sec!MutexInv'
  BY <1>3 DEF Sec!Sync
<1>4. ASSUME NEW p \in Sec!Procs, Sec!Lock(p) PROVE Sec!MutexInv'
  BY <1>4 DEF Sec!Lock
<1>5. ASSUME NEW p \in Sec!Procs, Sec!Load(p) PROVE Sec!MutexInv'
  BY <1>5 DEF Sec!Load, Sec!OnError
<1>6. CASE UNCHANGED Sec!vars
  BY <1>6 DEF Sec!vars
<1> QED
  BY <1>1, <1>2, <1>3, <1>4, <1>5, <1>6 DEF Sec!Next

-----------------------------------------------------------------------------
(* One updater.                                                            *)

\* Two updaters can write over each other; the theorems below are about one.
OneUpdater == \A p, q \in Updaters : p = q

LEMMA SettingsInit == Sec!Init => Sec!IInv
  BY TypedInit, UpdatersAssumption, SettingsAssumption
     DEF Sec!Init, Sec!IInv, Typed, Sec!MutexInv, Sec!OwnsRow, Sec!CanUndo, Sec!Procs,
         Sec!Resting, Sec!Answers

\* The row belongs to the updater until it starts over: nobody else writes
\* it, and the mutex orders the tables read before and after its write.
LEMMA OwnsRowNext ==
  ASSUME OneUpdater, Sec!IInv, [Sec!Next]_(Sec!vars)
  PROVE  Sec!OwnsRow'
<1> USE UpdatersAssumption, SettingsAssumption, UpdatesAssumption
    DEF OneUpdater, Sec!IInv, Sec!TypeOK, Sec!MutexInv,
        Sec!OwnsRow, Sec!Procs, Sec!Resting, Sec!Answers, Sec!GoTo
<1>1. ASSUME NEW p \in Updaters, NEW s \in Settings, Sec!Request(p, s) PROVE Sec!OwnsRow'
  BY <1>1 DEF Sec!Request
<1>2. ASSUME NEW p \in Updaters, Sec!WriteSettings(p) PROVE Sec!OwnsRow'
  BY <1>2 DEF Sec!WriteSettings
<1>3. ASSUME NEW p \in Updaters, Sec!Revert(p) PROVE Sec!OwnsRow'
  BY <1>3 DEF Sec!Revert
<1>4. ASSUME NEW p \in Syncers, Sec!Sync(p) PROVE Sec!OwnsRow'
  BY <1>4 DEF Sec!Sync
<1>5. ASSUME NEW p \in Sec!Procs, Sec!Lock(p) PROVE Sec!OwnsRow'
  BY <1>5 DEF Sec!Lock
<1>6. ASSUME NEW p \in Sec!Procs, Sec!Load(p) PROVE Sec!OwnsRow'
  BY <1>6 DEF Sec!Load, Sec!OnError
<1>7. CASE UNCHANGED Sec!vars
  BY <1>7 DEF Sec!vars
<1> QED
  BY <1>1, <1>2, <1>3, <1>4, <1>5, <1>6, <1>7 DEF Sec!Next

\* A refused change is undone with settings the edge did load.
LEMMA CanUndoNext ==
  ASSUME OneUpdater, Sec!IInv, [Sec!Next]_(Sec!vars)
  PROVE  Sec!CanUndo'
<1> USE UpdatersAssumption, SettingsAssumption, UpdatesAssumption
    DEF OneUpdater, Sec!IInv, Sec!TypeOK, Sec!OwnsRow,
        Sec!CanUndo, Sec!Procs, Sec!Resting, Sec!Answers, Sec!GoTo,
        Sec!Works, Sec!Fault
<1>1. ASSUME NEW p \in Updaters, NEW s \in Settings, Sec!Request(p, s) PROVE Sec!CanUndo'
  BY <1>1 DEF Sec!Request
<1>2. ASSUME NEW p \in Updaters, Sec!WriteSettings(p) PROVE Sec!CanUndo'
  BY <1>2 DEF Sec!WriteSettings
<1>3. ASSUME NEW p \in Updaters, Sec!Revert(p) PROVE Sec!CanUndo'
  BY <1>3 DEF Sec!Revert
<1>4. ASSUME NEW p \in Syncers, Sec!Sync(p) PROVE Sec!CanUndo'
  BY <1>4 DEF Sec!Sync
<1>5. ASSUME NEW p \in Sec!Procs, Sec!Lock(p) PROVE Sec!CanUndo'
  BY <1>5 DEF Sec!Lock
<1>6. ASSUME NEW p \in Sec!Procs, Sec!Load(p) PROVE Sec!CanUndo'
  BY <1>6 DEF Sec!Load, Sec!OnError
<1>7. CASE UNCHANGED Sec!vars
  BY <1>7 DEF Sec!vars
<1> QED
  BY <1>1, <1>2, <1>3, <1>4, <1>5, <1>6, <1>7 DEF Sec!Next

\* The inductive invariant holds of a panel where one administrator changes
\* the settings, with any other publications.
THEOREM SettingsInvariance ==
  ASSUME OneUpdater
  PROVE  SettingsSpec => []Sec!IInv
<1>1. Sec!Init => Sec!IInv
  BY SettingsInit
<1>2. Sec!IInv /\ [Sec!Next]_(Sec!vars) => Sec!IInv'
  BY TypedNext, MutexNext, OwnsRowNext, CanUndoNext DEF Sec!IInv, Typed
<1> QED
  BY <1>1, <1>2, PTL DEF SettingsSpec, Sec!Spec

-----------------------------------------------------------------------------
(* What follows from it.                                                   *)

\* A change answered with 200 stays what the edge runs with and what the row
\* says until the administrator's next request, whatever is published and
\* whatever fails meanwhile.
THEOREM AcknowledgedSettings ==
  ASSUME OneUpdater
  PROVE  SettingsSpec => []OkIsLive
<1>1. Sec!IInv => OkIsLive
  BY DEF OkIsLive, Sec!IInv, Sec!OwnsRow, Sec!OkIsLive
<1> QED
  BY <1>1, SettingsInvariance, PTL

\* When no call has failed and nobody is at work, the row holds settings the
\* edge can load: the revert of handleUpdateSecuritySettings does what its
\* comment says.
THEOREM RevertRestores ==
  ASSUME OneUpdater, Updaters # {}
  PROVE  SettingsSpec => []DbServable
<1>1. Sec!IInv => DbServable
  BY DEF DbServable, Sec!IInv, Sec!CanUndo, Sec!DbServable, Sec!Procs
<1> QED
  BY <1>1, SettingsInvariance, PTL

=============================================================================
