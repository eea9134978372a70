---------------------------- MODULE EdgeSettings ----------------------------
(***************************************************************************)
(* SecuritySettings by names that EdgeSync does not have, so that both can *)
(* be spoken of at once: its edge takes a load in one step, and its row,   *)
(* goroutines and mutex are not those of EdgeSync.                         *)
(***************************************************************************)
EXTENDS Naturals

CONSTANTS
  Updaters, Syncers, Nobody,
  None, Settings, Servable,
  MaxUpdates,  \* bound on the updates
  MaxFaults    \* bound on failed calls and lost answers

ASSUME UpdatersAssumption == Nobody \notin Updaters \cup Syncers /\ Updaters \cap Syncers = {}
ASSUME SettingsAssumption == Servable \subseteq Settings /\ None \notin Settings
ASSUME UpdatesAssumption == MaxUpdates \in Nat /\ MaxFaults \in Nat

VARIABLES
  row,      \* the row of system_settings
  live,     \* the settings the edge runs with
  holder,   \* of Service.caddyMu
  at,       \* where each goroutine is
  asked, previous,
  read,     \* what SyncCaddy read
  updates, faults

Sec == INSTANCE SecuritySettings
         WITH db <- row, edge <- live, caddyMu <- holder, pc <- at, snap <- read

SettingsSpec == Sec!Spec

\* Every variable of the update keeps its type.
SettingsTypeOK == Sec!TypeOK

\* A change the edge refuses is undone (for one updater).
DbServable == Sec!DbServable

\* A change answered with 200 is live and stays so (for one updater).
OkIsLive == Sec!OkIsLive

=============================================================================
