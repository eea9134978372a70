-------------------------- MODULE SecuritySettings --------------------------
(***************************************************************************)
(* The one row of security settings (WAF, rate limit) and the edge that    *)
(* may refuse them: handleUpdateSecuritySettings writes the new settings,  *)
(* publishes, and writes the old ones back if that fails, while other      *)
(* operations of the panel publish for reasons of their own.               *)
(*                                                                         *)
(* A load of the edge is one step here; EdgeSync takes it apart.           *)
(***************************************************************************)
EXTENDS Naturals

CONSTANTS
  Updaters,    \* goroutines that change the settings
  Syncers,     \* goroutines that call SyncCaddy for another reason
  Nobody,      \* not a goroutine
  None,        \* no settings
  Settings,    \* what a request may ask for, once validated
  Servable,    \* the settings the edge's build can load
  MaxUpdates,  \* bound on the updates
  MaxFaults    \* bound on failed calls and lost answers

Procs == Updaters \cup Syncers

VARIABLES
  db,        \* the row of system_settings
  edge,      \* the settings the edge runs with
  caddyMu,   \* holder of Service.caddyMu
  pc,        \* where each goroutine is, or what it answered
  asked,     \* the settings of its request, None for a mere SyncCaddy
  previous,  \* what it read before writing
  snap,      \* what SyncCaddy read
  updates, faults

vars == <<db, edge, caddyMu, pc, asked, previous, snap, updates, faults>>

\* Answers: 200; 502 with the change undone; any other error.
Answers == {"ok", "refused", "error"}
Resting == Answers \cup {"idle"}

TypeOK ==
  /\ db \in Settings /\ edge \in Servable
  /\ caddyMu \in Procs \cup {Nobody}
  /\ pc \in [Procs -> Resting \cup {"write", "lock", "load", "revert"}]
  /\ asked \in [Procs -> Settings \cup {None}]
  /\ previous \in [Procs -> Settings \cup {None}]
  /\ snap \in [Procs -> Settings \cup {None}]
  /\ updates \in 0 .. MaxUpdates /\ faults \in 0 .. MaxFaults

Init ==
  /\ db \in Servable /\ edge = db
  /\ caddyMu = Nobody
  /\ pc = [p \in Procs |-> "idle"]
  /\ asked = [p \in Procs |-> None]
  /\ previous = [p \in Procs |-> None]
  /\ snap = [p \in Procs |-> None]
  /\ updates = 0 /\ faults = 0

Works == faults' = faults
Fault == faults < MaxFaults /\ faults' = faults + 1
GoTo(p, at) == pc' = [pc EXCEPT ![p] = at]

-----------------------------------------------------------------------------

\* Mutant: what was there before is not kept.
Mutant_Request(p, s) ==
  /\ pc[p] \in Resting /\ updates < MaxUpdates
  /\ updates' = updates + 1
  /\ asked' = [asked EXCEPT ![p] = s]
  /\ GoTo(p, "write")
  /\ UNCHANGED <<db, edge, caddyMu, previous, snap, faults>>

\* A valid request: the handler keeps what GetSystemSettings returns.
Request(p, s) ==
  /\ pc[p] \in Resting /\ updates < MaxUpdates
  /\ updates' = updates + 1
  /\ asked' = [asked EXCEPT ![p] = s]
  /\ previous' = [previous EXCEPT ![p] = db]
  /\ GoTo(p, "write")
  /\ UNCHANGED <<db, edge, caddyMu, snap, faults>>

\* UpdateSystemSettings.
WriteSettings(p) ==
  /\ pc[p] = "write"
  /\ \/ Works /\ db' = asked[p] /\ GoTo(p, "lock")
     \/ Fault /\ db' = db /\ GoTo(p, "error")
  /\ UNCHANGED <<edge, caddyMu, asked, previous, snap, updates>>

\* Any other operation of the panel gets to its SyncCaddy.
Sync(p) ==
  /\ pc[p] \in Resting
  /\ GoTo(p, "lock")
  /\ UNCHANGED <<db, edge, caddyMu, asked, previous, snap, updates, faults>>

\* Mutant: SyncCaddy without the mutex.
Mutant_Lock(p) ==
  /\ pc[p] = "lock"
  /\ caddyMu' = p
  /\ snap' = [snap EXCEPT ![p] = db]
  /\ GoTo(p, "load")
  /\ UNCHANGED <<db, edge, asked, previous, updates, faults>>

\* SyncCaddy takes the mutex and reads the settings.
Lock(p) ==
  /\ pc[p] = "lock" /\ caddyMu = Nobody
  /\ caddyMu' = p
  /\ snap' = [snap EXCEPT ![p] = db]
  /\ GoTo(p, "load")
  /\ UNCHANGED <<db, edge, asked, previous, updates, faults>>

\* Where an error of SyncCaddy leads.
OnError(p) == IF p \in Updaters THEN "revert" ELSE "error"

\* The edge loads the configuration or refuses it; or SyncCaddy fails, with
\* the configuration loaded when only the answer was lost.
Load(p) ==
  /\ pc[p] = "load"
  /\ caddyMu' = Nobody
  /\ \/ Works /\ snap[p] \in Servable /\ edge' = snap[p] /\ GoTo(p, "ok")
     \/ Works /\ snap[p] \notin Servable /\ edge' = edge /\ GoTo(p, OnError(p))
     \/ /\ Fault /\ GoTo(p, OnError(p))
        /\ edge' \in {edge} \cup ({snap[p]} \cap Servable)
  /\ UNCHANGED <<db, asked, previous, snap, updates>>

\* Mutant: the error is answered and the row left as it is.
Mutant_Revert(p) ==
  /\ pc[p] = "revert"
  /\ Works /\ db' = db
  /\ GoTo(p, "refused")
  /\ UNCHANGED <<edge, caddyMu, asked, previous, snap, updates>>

\* The old settings are written back, without a look at what became of the
\* row meanwhile; that this fails too is not noticed.
Revert(p) ==
  /\ pc[p] = "revert"
  /\ \/ Works /\ db' = previous[p]
     \/ Fault /\ db' = db
  /\ GoTo(p, "refused")
  /\ UNCHANGED <<edge, caddyMu, asked, previous, snap, updates>>

Next ==
  \/ \E p \in Updaters : (\E s \in Settings : Request(p, s)) \/ WriteSettings(p) \/ Revert(p)
  \/ \E p \in Syncers : Sync(p)
  \/ \E p \in Procs : Lock(p) \/ Load(p)

Spec == Init /\ [][Next]_vars

-----------------------------------------------------------------------------
(* Properties.                                                             *)

\* "No dejar la BD con un estado que Caddy no puede servir": when nobody is
\* at work and no call has failed, the settings of the database are settings
\* the edge can load.
DbServable ==
  faults = 0 /\ (\A p \in Procs : pc[p] \in Resting) => db \in Servable

\* A change answered with 200 is what the edge runs with and what the
\* database says, until the same goroutine serves another request, whatever
\* else is published and fails meanwhile (for one updater).
OkIsLive ==
  \A p \in Updaters : pc[p] = "ok" => edge = asked[p] /\ db = asked[p]

\* What an updater at work needs to go on and to go back.
Remembers ==
  \A p \in Updaters :
    pc[p] \in {"write", "lock", "load", "revert"} =>
      asked[p] \in Settings /\ previous[p] \in Settings

\* Who loads holds the mutex, and nobody else does.
MutexInv == \A p \in Procs : pc[p] = "load" <=> caddyMu = p

\* Between its write and its answer the row is the updater's own; after a 200
\* a table still on its way to the edge carries its change too.
OwnsRow ==
  \A p \in Updaters :
    /\ pc[p] \in {"lock", "load", "ok"} => db = asked[p]
    /\ pc[p] \in {"load", "ok"} =>
         \A q \in Procs : pc[q] = "load" => snap[q] = asked[p]
    /\ pc[p] = "ok" => edge = asked[p]

\* While no call has failed, an updater that rests leaves a row the edge can
\* load, and one at work remembers such a row.
CanUndo ==
  faults = 0 =>
    \A p \in Updaters :
      IF pc[p] \in Resting THEN db \in Servable ELSE previous[p] \in Servable

\* The inductive invariant, for one updater.
IInv == TypeOK /\ Remembers /\ MutexInv /\ OwnsRow /\ CanUndo

=============================================================================
