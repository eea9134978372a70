------------------------ MODULE BandwidthQuota_proofs ------------------------
(***************************************************************************)
(* Proofs about BandwidthQuota for every quota, resolution and number of   *)
(* sites: type correctness, that nothing is charged twice, and what the    *)
(* panel suspends and reactivates.                                         *)
(***************************************************************************)
EXTENDS BandwidthQuota, TLAPS, FiniteSetTheorems

-----------------------------------------------------------------------------
(* Arithmetic and the sum of what the sites have grown by.                 *)

LEMMA TimesMono ==
  ASSUME NEW m \in Nat, NEW a \in Nat, NEW b \in Nat, a <= b
  PROVE  m * a \in Nat /\ m * b \in Nat /\ m * a <= m * b
<1>1. m * b = m * a + m * (b - a)
  OBVIOUS
<1>2. m * a \in Nat /\ m * b \in Nat /\ m * (b - a) \in Nat
  OBVIOUS
<1> QED
  BY <1>1, <1>2

LEMMA TimesSum ==
  ASSUME NEW m \in Nat, NEW a \in Nat, NEW b \in Nat
  PROVE  (a + b) * m = a * m + b * m /\ m * (a + 1) = m * a + m
  OBVIOUS

\* Whole megabytes are no more than the units they are made of.
LEMMA WholeFits ==
  ASSUME NEW d \in Nat, NEW u \in Nat \ {0}
  PROVE  d \div u \in Nat /\ (d \div u) * u <= d
  OBVIOUS

-----------------------------------------------------------------------------
(* Types.  The bounds of what is measured and charged come from the        *)
(* ledger; until then they are numbers.                                    *)

Row == [reason : Reasons, usedMB : Nat, resetAt : 1 .. MaxMonths]
Passes == [at : {"idle", "sites", "sample", "month", "lift", "add", "enforce"},
           acct : Row, left : SUBSET Sites, delta : Nat]
CountersOK ==
  /\ base \in [Sites -> 0 .. MaxTraffic] /\ count \in [Sites -> 0 .. MaxTraffic]
  /\ up \subseteq Sites
  /\ sent \in 0 .. MaxTraffic /\ used \in Counted
TypeBase ==
  /\ account \in Row /\ pass \in Passes /\ charged \in Nat
  /\ month \in 1 .. MaxMonths
  /\ CountersOK

LEMMA MaxChargedType == MaxCharged \in Nat
  BY BoundsAssumption DEF MaxCharged

LEMMA BaseOfType == TypeOK => TypeBase
  BY MaxChargedType DEF TypeOK, TypeBase, Row, Passes, CountersOK, Account

LEMMA NewAccountType ==
  /\ NewAccount \in Row /\ NoPass \in Passes
  /\ NoPass.at = "idle" /\ NoPass.delta = 0
  BY BoundsAssumption DEF NewAccount, NoPass, Row, Passes, Reasons

LEMMA InitBase == Init => TypeBase
  BY NewAccountType, BoundsAssumption DEF Init, TypeBase, CountersOK, Counted

\* Counting against a bound.
LEMMA Counting ==
  ASSUME used \in Counted,
         \/ Works \/ Fault \/ Bounded("adminOps", MaxAdminOps)
         \/ Bounded("restarts", MaxRestarts) \/ Bounded("crashes", MaxCrashes)
  PROVE  /\ used' \in Counted
         /\ used'.faults = used.faults \/ (Fault /\ used'.faults = used.faults + 1)
  BY BoundsAssumption DEF Counted, Works, Fault, Bounded

LEMMA GrownType ==
  ASSUME CountersOK, NEW s \in Sites
  PROVE  Grown(s) \in 0 .. MaxTraffic /\ Grown(s) <= count[s]
  BY BoundsAssumption DEF CountersOK, Grown

LEMMA WholeType ==
  ASSUME TypeBase
  PROVE  WholeMB \in Nat /\ WholeMB * UnitsPerMB <= pass.delta
  BY WholeFits, QuotaAssumption DEF TypeBase, Passes, WholeMB

\* A row with another reason, and one with another usage.
LEMMA RowReason ==
  ASSUME NEW row \in Row, NEW reason \in Reasons
  PROVE  /\ [row EXCEPT !.reason = reason] \in Row
         /\ [row EXCEPT !.reason = reason].usedMB = row.usedMB
  BY DEF Row

LEMMA RowUsage ==
  ASSUME NEW row \in Row, NEW mb \in Nat
  PROVE  /\ [row EXCEPT !.usedMB = mb] \in Row
         /\ [row EXCEPT !.usedMB = mb].usedMB = mb
         /\ [row EXCEPT !.usedMB = mb].reason = row.reason
  BY DEF Row

LEMMA RowCycle ==
  ASSUME NEW row \in Row, NEW m \in 1 .. MaxMonths
  PROVE  /\ [row EXCEPT !.usedMB = 0, !.resetAt = m] \in Row
         /\ [row EXCEPT !.usedMB = 0, !.resetAt = m].usedMB = 0
  BY DEF Row

LEMMA SuspendType ==
  ASSUME TypeBase, NEW reason \in Reasons, SuspendAccount(reason)
  PROVE  /\ account' \in Row /\ account'.usedMB = account.usedMB
         /\ up' \subseteq Sites /\ count' \in [Sites -> 0 .. MaxTraffic]
         /\ \A s \in Sites : count'[s] \in {0, count[s]}
<1>1. account' \in Row /\ account'.usedMB = account.usedMB
  BY RowReason DEF SuspendAccount, TypeBase
<1>2. up' \subseteq Sites /\ \A s \in Sites : count'[s] \in {0, count[s]}
  BY DEF SuspendAccount, TypeBase, CountersOK
<1>3. count' \in [Sites -> 0 .. MaxTraffic]
  BY BoundsAssumption DEF SuspendAccount, TypeBase, CountersOK
<1> QED
  BY <1>1, <1>2, <1>3

LEMMA UnsuspendType ==
  ASSUME TypeBase, UnsuspendAccount
  PROVE  /\ account' \in Row /\ account'.usedMB = account.usedMB
         /\ up' \subseteq Sites /\ count' = count
  BY RowReason DEF UnsuspendAccount, TypeBase, CountersOK, Reasons

-----------------------------------------------------------------------------
(* The ledger.                                                             *)

Balance ==
  charged * UnitsPerMB + Uncharged + Cardinality(Unmeasured) <= sent + MaxTraffic * used.faults
Counts == (\A s \in Sites : count[s] <= sent) /\ account.usedMB <= charged

LEMMA LedgerParts == Ledger <=> Balance /\ Counts
  BY DEF Ledger, Balance, Counts

LEMMA LedgerPartsNext == Ledger' <=> Balance' /\ Counts'
  BY DEF Ledger, Balance, Counts

LEMMA UpTo ==
  ASSUME NEW n \in Nat
  PROVE  IsFiniteSet(0 .. n - 1) /\ Cardinality(0 .. n - 1) = n
<1>1. 0 \in Int /\ n - 1 \in Int
  OBVIOUS
<1>2. /\ IsFiniteSet(0 .. n - 1)
      /\ Cardinality(0 .. n - 1) = IF 0 > n - 1 THEN 0 ELSE (n - 1) - 0 + 1
  BY <1>1, FS_Interval
<1> QED
  BY <1>2

LEMMA UnmeasuredFinite ==
  /\ IsFiniteSet(Unmeasured) /\ Cardinality(Unmeasured) \in Nat
  /\ IsFiniteSet(Unmeasured') /\ Cardinality(Unmeasured') \in Nat
<1>1. IsFiniteSet(Sites \X (0 .. MaxTraffic))
  <2>1. IsFiniteSet(0 .. MaxTraffic)
    BY BoundsAssumption, FS_Interval
  <2> QED
    BY <2>1, SitesAssumption, FS_Product
<1>2. /\ Unmeasured \in SUBSET (Sites \X (0 .. MaxTraffic))
      /\ Unmeasured' \in SUBSET (Sites \X (0 .. MaxTraffic))
  BY DEF Unmeasured
<1> QED
  BY <1>1, <1>2, FS_Subset, FS_CardinalityType

\* Sites that have not grown by more leave no more to measure.
LEMMA UnmeasuredLess ==
  ASSUME CountersOK, CountersOK', \A s \in Sites : Grown(s)' <= Grown(s)
  PROVE  Cardinality(Unmeasured') <= Cardinality(Unmeasured)
<1>1. \A s \in Sites : Grown(s) \in Nat /\ Grown(s)' \in Nat
  BY BoundsAssumption DEF Grown, CountersOK
<1>2. Unmeasured' \in SUBSET Unmeasured
  BY <1>1 DEF Unmeasured
<1> QED
  BY <1>2, UnmeasuredFinite, FS_Subset

\* One unit of traffic leaves at most one more.
LEMMA UnmeasuredMore ==
  ASSUME CountersOK, CountersOK', NEW t \in Sites, Grown(t)' <= Grown(t) + 1,
         \A s \in Sites \ {t} : Grown(s)' = Grown(s)
  PROVE  Cardinality(Unmeasured') <= Cardinality(Unmeasured) + 1
<1> DEFINE more == Unmeasured \cup {<<t, Grown(t)>>}
<1>1. \A s \in Sites : Grown(s) \in Nat /\ Grown(s)' \in Nat
  BY BoundsAssumption DEF Grown, CountersOK
<1>2. Unmeasured' \in SUBSET more
  BY <1>1 DEF Unmeasured
<1>3. IsFiniteSet(more) /\ Cardinality(more) \in Nat
  BY UnmeasuredFinite, FS_AddElement, FS_CardinalityType
<1>4. Cardinality(more) <= Cardinality(Unmeasured) + 1
  <2>1. Cardinality(more) = IF <<t, Grown(t)>> \in Unmeasured
                            THEN Cardinality(Unmeasured) ELSE Cardinality(Unmeasured) + 1
    BY UnmeasuredFinite, FS_AddElement
  <2> HIDE DEF more
  <2> QED
    BY <2>1, UnmeasuredFinite
<1>5. Cardinality(Unmeasured') <= Cardinality(more)
  BY <1>2, <1>3, FS_Subset
<1> HIDE DEF more
<1> QED
  BY <1>3, <1>4, <1>5, UnmeasuredFinite

\* Measuring a site takes as many away as it had grown by.
LEMMA UnmeasuredTaken ==
  ASSUME CountersOK, CountersOK', NEW t \in Sites, Grown(t)' = 0,
         \A s \in Sites \ {t} : Grown(s)' = Grown(s)
  PROVE  Cardinality(Unmeasured') = Cardinality(Unmeasured) - Grown(t)
<1> DEFINE taken == {t} \X (0 .. Grown(t) - 1)
<1>1. /\ \A s \in Sites : Grown(s) \in Nat /\ Grown(s)' \in Nat
      /\ Grown(t) <= MaxTraffic
  BY BoundsAssumption, GrownType DEF Grown, CountersOK
<1>2. /\ IsFiniteSet(0 .. Grown(t) - 1)
      /\ Cardinality(0 .. Grown(t) - 1) = Grown(t)
  BY <1>1, UpTo
<1>3. IsFiniteSet({t}) /\ Cardinality({t}) = 1
  BY FS_Singleton
<1>4. IsFiniteSet(taken) /\ Cardinality(taken) = Grown(t)
  BY <1>1, <1>2, <1>3, FS_Product
<1>5. taken \subseteq Unmeasured
  BY <1>1, BoundsAssumption DEF Unmeasured
<1>6. Unmeasured' = Unmeasured \ taken
  BY <1>1 DEF Unmeasured
<1>7. Unmeasured \cap taken = taken
  BY <1>5
<1>8. Cardinality(Unmeasured \ taken) = Cardinality(Unmeasured) - Cardinality(Unmeasured \cap taken)
  BY UnmeasuredFinite, FS_Difference
<1> QED
  BY <1>4, <1>6, <1>7, <1>8

\* A step that charges, measures and sends nothing keeps the balance.
LEMMA BalanceKept ==
  ASSUME TypeBase, TypeBase', Balance, charged' = charged, sent' = sent,
         Uncharged' <= Uncharged, used'.faults >= used.faults,
         \A s \in Sites : Grown(s)' <= Grown(s)
  PROVE  Balance'
<1>1. Cardinality(Unmeasured') <= Cardinality(Unmeasured)
  BY UnmeasuredLess DEF TypeBase
<1>2. MaxTraffic * used.faults <= MaxTraffic * used'.faults
  BY TimesMono, BoundsAssumption DEF TypeBase, CountersOK, Counted
<1>3. Uncharged \in Nat /\ Uncharged' \in Nat
  BY DEF TypeBase, Passes, Uncharged
<1>4. /\ MaxTraffic * used.faults \in Nat /\ MaxTraffic * used'.faults \in Nat
      /\ charged * UnitsPerMB \in Nat /\ sent \in Nat
  BY TimesMono, BoundsAssumption, QuotaAssumption DEF TypeBase, CountersOK, Counted
<1> QED
  BY <1>1, <1>2, <1>3, <1>4, UnmeasuredFinite DEF Balance

LEMMA GrownKept ==
  ASSUME CountersOK, base' = base, NEW s \in Sites, count'[s] \in {0, count[s]}
  PROVE  Grown(s)' <= Grown(s)
  BY DEF Grown, CountersOK

\* The world around the worker.
LEMMA WorldTraffic ==
  ASSUME TypeBase, CopyInv, Ledger, NEW t \in Sites, Traffic(t)
  PROVE  TypeBase' /\ CopyInv' /\ Ledger' /\ pass' = pass
<1>1. TypeBase'
  <2>1. count[t] <= sent
    BY DEF Ledger
  <2>2. count' \in [Sites -> 0 .. MaxTraffic] /\ sent' \in 0 .. MaxTraffic
    BY <2>1, BoundsAssumption DEF Traffic, TypeBase, CountersOK
  <2> QED
    BY <2>2 DEF Traffic, TypeBase, CountersOK
<1>2. CopyInv' /\ pass' = pass
  BY DEF CopyInv, Traffic
<1>3. Counts'
  BY BoundsAssumption DEF Ledger, Counts, Traffic, TypeBase, CountersOK
<1>4. /\ Grown(t)' <= Grown(t) + 1
      /\ \A s \in Sites \ {t} : Grown(s)' = Grown(s)
  BY BoundsAssumption DEF Traffic, Grown, TypeBase, CountersOK
<1>5. Cardinality(Unmeasured') <= Cardinality(Unmeasured) + 1
  BY <1>1, <1>4, UnmeasuredMore DEF TypeBase
<1>6. Balance'
  <2>1. /\ MaxTraffic * used.faults \in Nat /\ charged * UnitsPerMB \in Nat
        /\ sent \in Nat /\ Uncharged \in Nat
    BY TimesMono, BoundsAssumption, QuotaAssumption
       DEF TypeBase, CountersOK, Counted, Uncharged, Passes
  <2>2. sent' = sent + 1 /\ charged' = charged /\ used' = used /\ Uncharged' = Uncharged
    BY DEF Traffic, Uncharged
  <2> QED
    BY <1>5, <2>1, <2>2, UnmeasuredFinite, LedgerParts DEF Balance
<1> QED
  BY <1>1, <1>2, <1>3, <1>6, LedgerPartsNext

LEMMA WorldOther ==
  ASSUME TypeBase, CopyInv, Ledger,
         NewMonth \/ AdminSuspends \/ AdminReactivates \/ \E s \in Sites : Restart(s)
  PROVE  TypeBase' /\ CopyInv' /\ Ledger' /\ pass' = pass
<1>1. /\ pass' = pass /\ charged' = charged /\ sent' = sent /\ base' = base
  BY DEF NewMonth, AdminSuspends, AdminReactivates, Restart
<1>2. /\ account' \in Row /\ account'.usedMB = account.usedMB
      /\ up' \subseteq Sites /\ count' \in [Sites -> 0 .. MaxTraffic]
      /\ \A s \in Sites : count'[s] \in {0, count[s]}
  <2>1. CASE NewMonth
    BY <2>1 DEF NewMonth, TypeBase, CountersOK
  <2>2. CASE AdminSuspends
    BY <2>2, SuspendType DEF AdminSuspends, Reasons, Suspended
  <2>3. CASE AdminReactivates
    BY <2>3, UnsuspendType DEF AdminReactivates, TypeBase, CountersOK
  <2>4. ASSUME NEW t \in Sites, Restart(t)
        PROVE  /\ account' = account /\ up' = up
               /\ count' \in [Sites -> 0 .. MaxTraffic]
               /\ \A s \in Sites : count'[s] \in {0, count[s]}
    BY <2>4, BoundsAssumption DEF Restart, TypeBase, CountersOK
  <2> QED
    BY <2>1, <2>2, <2>3, <2>4 DEF TypeBase, CountersOK
<1>3. used' \in Counted /\ used'.faults >= used.faults
  <2>1. used \in Counted /\ used.faults \in Nat
    BY DEF TypeBase, CountersOK, Counted
  <2>2. used' = used \/ Bounded("adminOps", MaxAdminOps) \/ Bounded("restarts", MaxRestarts)
    BY DEF NewMonth, AdminSuspends, AdminReactivates, Restart
  <2> QED
    BY <2>1, <2>2, Counting DEF Works
<1>4. month' \in 1 .. MaxMonths
  BY BoundsAssumption DEF NewMonth, AdminSuspends, AdminReactivates, Restart, TypeBase
<1>5. TypeBase'
  BY <1>1, <1>2, <1>3, <1>4 DEF TypeBase, CountersOK
<1>6. CopyInv'
  BY <1>1, <1>2 DEF CopyInv
<1>7. \A s \in Sites : Grown(s)' <= Grown(s)
  BY <1>1, <1>2, GrownKept DEF TypeBase
<1>8. Uncharged' = Uncharged /\ Uncharged \in Nat
  BY <1>1 DEF Uncharged, TypeBase, Passes
<1>9. Balance'
  BY <1>1, <1>3, <1>5, <1>7, <1>8, BalanceKept, LedgerParts
<1>10. Counts'
  <2>1. sent \in Nat
    BY BoundsAssumption DEF TypeBase, CountersOK
  <2> QED
    BY <1>1, <1>2, <2>1 DEF Ledger, Counts
<1> QED
  BY <1>1, <1>5, <1>6, <1>9, <1>10, LedgerPartsNext

-----------------------------------------------------------------------------
(* The steps of a pass.                                                    *)

\* The pass after a step: over, or the same delta with a copy of the row that
\* agrees with the row.
Passed ==
  \/ pass' = NoPass
  \/ /\ pass'.at # "idle" /\ pass'.acct \in Row /\ pass'.left \subseteq Sites
     /\ pass'.acct.usedMB = account'.usedMB
     /\ pass'.at = "lift" => pass'.acct.reason = "auto"
     /\ pass' \in Passes

\* A pass that goes on with another copy of the row, or with other sites left.
LEMMA NextRow ==
  ASSUME pass \in Passes, NEW row \in Row,
         NEW at \in {"sites", "sample", "month", "lift", "add", "enforce"},
         pass' = [pass EXCEPT !.at = at, !.acct = row]
  PROVE  /\ pass' \in Passes /\ pass'.at = at /\ pass'.acct = row
         /\ pass'.left = pass.left /\ pass'.delta = pass.delta
  BY DEF Passes

LEMMA NextLeft ==
  ASSUME pass \in Passes, NEW left \in SUBSET Sites, NEW delta \in Nat,
         pass' = [pass EXCEPT !.left = left, !.delta = delta]
  PROVE  /\ pass' \in Passes /\ pass'.at = pass.at /\ pass'.acct = pass.acct
         /\ pass'.left = left /\ pass'.delta = delta
  BY DEF Passes

LEMMA PassCycle ==
  ASSUME TypeBase, CopyInv, NewCycle \/ SameCycle \/ Sampled
  PROVE  /\ account' \in Row /\ account'.usedMB \in {0, account.usedMB}
         /\ Passed /\ pass'.delta = pass.delta
         /\ pass'.at \in {"month", "lift", "add"} /\ pass.at \in {"sample", "month"}
<1> pass \in Passes /\ account \in Row /\ pass.acct \in Row /\ month \in 1 .. MaxMonths
  BY DEF TypeBase, Passes
<1>1. CASE Sampled
  <2>1. pass' = [pass EXCEPT !.at = "month"] /\ account' = account
    BY <1>1 DEF Sampled
  <2>2. pass' \in Passes /\ pass'.at = "month" /\ pass'.acct = pass.acct
        /\ pass'.delta = pass.delta /\ pass'.left = pass.left
    BY <2>1 DEF Passes
  <2> QED
    BY <1>1, <2>1, <2>2 DEF Sampled, CopyInv, Passed, Row, Passes
<1>2. CASE SameCycle
  <2>1. pass' = [pass EXCEPT !.at = "add"] /\ account' = account
    BY <1>2 DEF SameCycle
  <2>2. pass' \in Passes /\ pass'.at = "add" /\ pass'.acct = pass.acct
        /\ pass'.delta = pass.delta /\ pass'.left = pass.left
    BY <2>1 DEF Passes
  <2> QED
    BY <1>2, <2>1, <2>2 DEF SameCycle, CopyInv, Passed, Row, Passes
<1>3. CASE NewCycle
  <2>1. CASE account' = account /\ pass' = [pass EXCEPT !.at = "add"]
    <3>1. pass' \in Passes /\ pass'.at = "add" /\ pass'.acct = pass.acct
          /\ pass'.delta = pass.delta /\ pass'.left = pass.left
      BY <2>1 DEF Passes
    <3> QED
      BY <1>3, <2>1, <3>1 DEF NewCycle, CopyInv, Passed, Row, Passes
  <2>2. CASE /\ account' = [account EXCEPT !.usedMB = 0, !.resetAt = month]
             /\ pass' = [pass EXCEPT !.at = IF pass.acct.reason = "auto" THEN "lift" ELSE "add",
                                     !.acct.usedMB = 0]
    <3> DEFINE row == [pass.acct EXCEPT !.usedMB = 0]
               at == IF pass.acct.reason = "auto" THEN "lift" ELSE "add"
    <3>1. account' \in Row /\ account'.usedMB = 0
      BY <2>2, RowCycle
    <3>2. row \in Row /\ row.usedMB = 0 /\ row.reason = pass.acct.reason
      BY DEF Row
    <3>3. pass' = [pass EXCEPT !.at = at, !.acct = row]
      BY <2>2
    <3>5. at \in {"lift", "add"} /\ (at = "lift" => row.reason = "auto")
      BY <3>2
    <3> HIDE DEF row, at
    <3>4. pass' \in Passes /\ pass'.at = at /\ pass'.acct = row
          /\ pass'.delta = pass.delta /\ pass'.left = pass.left
      BY <3>2, <3>3, <3>5, NextRow
    <3> QED
      BY <1>3, <3>1, <3>2, <3>4, <3>5 DEF NewCycle, Passed, Passes
  <2> QED
    BY <1>3, <2>1, <2>2 DEF NewCycle
<1> QED
  BY <1>1, <1>2, <1>3

LEMMA PassAccount ==
  ASSUME TypeBase, CopyInv, ListAccounts \/ ListSites \/ Lift \/ Enforce \/ Crash
  PROVE  /\ account' \in Row /\ account'.usedMB = account.usedMB /\ Passed
         /\ \/ pass' = NoPass
            \/ pass'.delta = 0
            \/ pass'.delta = pass.delta /\ pass.at = "lift" /\ pass'.at = "add"
         /\ pass'.at # "sites" \/ pass'.delta = 0
         /\ up' \subseteq Sites /\ count' \in [Sites -> 0 .. MaxTraffic]
         /\ \A s \in Sites : count'[s] \in {0, count[s]}
<1> pass \in Passes /\ account \in Row /\ pass.acct \in Row
  BY DEF TypeBase, Passes
<1>1. CASE ListAccounts \/ ListSites \/ Crash
  <2>1. /\ account' \in Row /\ account'.usedMB = account.usedMB
        /\ up' \subseteq Sites /\ count' \in [Sites -> 0 .. MaxTraffic]
        /\ \A s \in Sites : count'[s] \in {0, count[s]}
    BY <1>1 DEF ListAccounts, ListSites, Crash, TypeBase, CountersOK
  <2>2. \/ pass' = NoPass
        \/ ListAccounts /\ pass' = [NoPass EXCEPT !.at = "sites", !.acct = account]
        \/ ListSites /\ pass' = [pass EXCEPT !.at = "sample", !.left = up]
    BY <1>1 DEF ListAccounts, ListSites, Crash
  <2>3. CASE ListAccounts /\ pass' = [NoPass EXCEPT !.at = "sites", !.acct = account]
    <3>1. /\ pass' \in Passes /\ pass'.at = "sites" /\ pass'.acct = account
          /\ pass'.delta = 0 /\ pass'.left = {}
      BY <2>3 DEF NoPass, Passes
    <3> QED
      BY <2>1, <2>3, <3>1 DEF ListAccounts, Passed
  <2>4. CASE ListSites /\ pass' = [pass EXCEPT !.at = "sample", !.left = up]
    <3>1. /\ pass' \in Passes /\ pass'.at = "sample" /\ pass'.acct = pass.acct
          /\ pass'.delta = pass.delta /\ pass'.left = up
      BY <2>4 DEF Passes, TypeBase, CountersOK
    <3> QED
      BY <2>1, <2>4, <3>1 DEF ListSites, Passed, CopyInv, TypeBase, CountersOK
  <2> QED
    BY <2>1, <2>2, <2>3, <2>4, NewAccountType DEF Passed
<1>2. CASE Lift
  <2>1. /\ account' \in Row /\ account'.usedMB = account.usedMB
        /\ up' \subseteq Sites /\ count' \in [Sites -> 0 .. MaxTraffic]
        /\ \A s \in Sites : count'[s] \in {0, count[s]}
    BY <1>2, UnsuspendType DEF Lift, TypeBase, CountersOK
  <2>2. /\ pass' \in Passes /\ pass'.at = "add" /\ pass'.acct \in Row
        /\ pass'.acct.usedMB = pass.acct.usedMB
        /\ pass'.delta = pass.delta /\ pass'.left = pass.left
    <3>1. CASE pass' = [pass EXCEPT !.at = "add"]
      BY <3>1 DEF Passes
    <3>2. CASE pass' = [pass EXCEPT !.at = "add", !.acct.reason = ""]
      <4> DEFINE row == [pass.acct EXCEPT !.reason = ""]
      <4>1. row \in Row /\ row.usedMB = pass.acct.usedMB
        BY RowReason DEF Reasons
      <4>2. pass' = [pass EXCEPT !.at = "add", !.acct = row]
        BY <3>2
      <4> HIDE DEF row
      <4>3. /\ pass' \in Passes /\ pass'.at = "add" /\ pass'.acct = row
            /\ pass'.left = pass.left /\ pass'.delta = pass.delta
        BY <4>1, <4>2, NextRow
      <4> QED
        BY <4>1, <4>3
    <3> QED
      BY <1>2, <3>1, <3>2 DEF Lift
  <2> QED
    BY <1>2, <2>1, <2>2 DEF Lift, Passed, CopyInv, Passes
<1>3. CASE Enforce
  <2>1. pass' = NoPass /\ (SuspendAccount("auto") \/ UNCHANGED <<account, up, count>>)
    BY <1>3 DEF Enforce
  <2> QED
    BY <2>1, SuspendType, NewAccountType DEF Reasons, Suspended, Passed, TypeBase, CountersOK
<1> QED
  BY <1>1, <1>2, <1>3

LEMMA PassOther ==
  ASSUME TypeBase, CopyInv, Ledger,
         \/ NewCycle \/ SameCycle \/ Sampled
         \/ ListAccounts \/ ListSites \/ Lift \/ Enforce \/ Crash
  PROVE  /\ TypeBase' /\ CopyInv' /\ Ledger'
         /\ pass' = NoPass \/ pass'.delta \in {0, pass.delta}
         /\ pass' = NoPass \/ pass'.at # "idle"
<1>1. /\ charged' = charged /\ sent' = sent /\ base' = base /\ month' = month
  BY DEF NewCycle, SameCycle, Sampled, ListAccounts, ListSites, Lift, Enforce, Crash
<1>2. /\ account' \in Row /\ account'.usedMB \in {0, account.usedMB} /\ Passed
      /\ up' \subseteq Sites /\ count' \in [Sites -> 0 .. MaxTraffic]
      /\ \A s \in Sites : count'[s] \in {0, count[s]}
  <2>1. CASE NewCycle \/ SameCycle \/ Sampled
    BY <2>1, PassCycle DEF NewCycle, SameCycle, Sampled, TypeBase, CountersOK
  <2>2. CASE ListAccounts \/ ListSites \/ Lift \/ Enforce \/ Crash
    BY <2>2, PassAccount
  <2> QED
    BY <2>1, <2>2
<1>3. /\ pass' = NoPass \/ pass'.delta \in {0, pass.delta}
      /\ Uncharged' <= Uncharged
  <2>1. pass.delta \in Nat
    BY DEF TypeBase, Passes
  <2>2. \/ pass' = NoPass
        \/ pass'.delta = 0
        \/ pass'.delta = pass.delta /\ pass.at \in {"sample", "month", "lift"}
    BY PassCycle, PassAccount
  <2>3. NoPass.delta = 0
    BY DEF NoPass
  <2> QED
    BY <2>1, <2>2, <2>3 DEF Uncharged
<1>4. used' \in Counted /\ used'.faults >= used.faults
  <2>1. used \in Counted /\ used.faults \in Nat
    BY DEF TypeBase, CountersOK, Counted
  <2>2. used' = used \/ Fault \/ Bounded("crashes", MaxCrashes)
    BY DEF NewCycle, SameCycle, Sampled, ListAccounts, ListSites, Lift, Enforce, Crash, Works
  <2> QED
    BY <2>1, <2>2, Counting DEF Works
<1>5. TypeBase'
  BY <1>1, <1>2, <1>4, NewAccountType DEF TypeBase, CountersOK, Passed
<1>6. CopyInv'
  BY <1>2, PassCycle, PassAccount, NewAccountType DEF CopyInv, Passed
<1>7. \A s \in Sites : Grown(s)' <= Grown(s)
  BY <1>1, <1>2, GrownKept DEF TypeBase
<1>8. Balance'
  BY <1>1, <1>3, <1>4, <1>5, <1>7, BalanceKept, LedgerParts
<1>9. Counts'
  <2>1. sent \in Nat /\ charged \in Nat
    BY BoundsAssumption DEF TypeBase, CountersOK
  <2> QED
    BY <1>1, <1>2, <2>1 DEF Ledger, Counts
<1> QED
  BY <1>2, <1>3, <1>5, <1>6, <1>8, <1>9, LedgerPartsNext DEF Passed

\* Measuring moves what a site has grown by from one part of the ledger to
\* the other; what a fault leaves in both is no more than the traffic.
LEMMA PassSample ==
  ASSUME TypeBase, CopyInv, Ledger, Sample
  PROVE  /\ TypeBase' /\ CopyInv' /\ Ledger' /\ pass'.at = "sample"
<1> DEFINE Skipped(t) == pass' = [pass EXCEPT !.left = @ \ {t}]
           Measured(t) == pass' = [pass EXCEPT !.left = @ \ {t}, !.delta = @ + Grown(t)]
<1>1. PICK t \in pass.left :
        \/ Works /\ base' = [base EXCEPT ![t] = count[t]] /\ Measured(t)
        \/ Fault /\ base' = base /\ Skipped(t)
        \/ Fault /\ base' = base /\ Measured(t)
  BY DEF Sample
<1>2. /\ pass.at = "sample" /\ charged' = charged /\ sent' = sent /\ month' = month
      /\ account' = account /\ count' = count /\ up' = up
  BY DEF Sample
<1>3. /\ pass \in Passes /\ t \in Sites /\ CountersOK /\ pass.delta \in Nat
      /\ pass.left \ {t} \in SUBSET Sites
  BY DEF TypeBase, Passes
<1>4. Grown(t) \in Nat /\ Grown(t) <= MaxTraffic
  BY <1>3, GrownType, BoundsAssumption
<1>6. /\ pass' \in Passes /\ pass'.at = "sample" /\ pass'.acct = pass.acct
      /\ \/ Fault /\ base' = base /\ pass'.delta = pass.delta
         \/ /\ pass'.delta = pass.delta + Grown(t)
            /\ (Works /\ base' = [base EXCEPT ![t] = count[t]]) \/ (Fault /\ base' = base)
  <2>1. CASE Fault /\ base' = base /\ Skipped(t)
    <3>1. /\ pass' \in Passes /\ pass'.at = pass.at /\ pass'.acct = pass.acct
          /\ pass'.delta = pass.delta
      BY <1>3, <2>1 DEF Passes
    <3> QED
      BY <1>2, <2>1, <3>1
  <2>2. CASE /\ Measured(t)
             /\ (Works /\ base' = [base EXCEPT ![t] = count[t]]) \/ (Fault /\ base' = base)
    <3> DEFINE left == pass.left \ {t}
               delta == pass.delta + Grown(t)
    <3>1. left \in SUBSET Sites /\ delta \in Nat
      BY <1>3, <1>4
    <3>2. pass' = [pass EXCEPT !.left = left, !.delta = delta]
      BY <2>2
    <3> HIDE DEF left, delta
    <3>3. /\ pass' \in Passes /\ pass'.at = pass.at /\ pass'.acct = pass.acct
          /\ pass'.delta = delta
      BY <1>3, <3>1, <3>2, NextLeft
    <3> QED
      BY <1>2, <2>2, <3>3 DEF delta
  <2> QED
    BY <1>1, <2>1, <2>2
<1>7. /\ used' \in Counted /\ used.faults \in Nat /\ used'.faults >= used.faults
      /\ Fault => used'.faults = used.faults + 1
      /\ Works => used'.faults = used.faults
  <2>1. used \in Counted
    BY <1>3 DEF CountersOK
  <2> QED
    BY <1>1, <2>1, Counting DEF Works, Fault, Bounded, Counted
<1>8. base' \in [Sites -> 0 .. MaxTraffic]
  BY <1>1, <1>3 DEF CountersOK
<1>9. TypeBase'
  BY <1>2, <1>6, <1>7, <1>8 DEF TypeBase, CountersOK
<1>10. CopyInv' /\ Counts'
  BY <1>2, <1>6 DEF CopyInv, Ledger, Counts
<1>11. /\ Uncharged = pass.delta /\ Uncharged' = pass'.delta
       /\ charged * UnitsPerMB \in Nat /\ sent \in Nat
  BY <1>2, <1>6, <1>3, QuotaAssumption, BoundsAssumption DEF Uncharged, TypeBase, CountersOK
<1>12. Balance
  BY LedgerParts
<1>13. Balance'
  <2>1. CASE base' = base /\ pass'.delta = pass.delta
    <3>1. \A s \in Sites : Grown(s)' <= Grown(s)
      BY <1>2, <1>3, <2>1, GrownKept
    <3> QED
      BY <1>2, <1>3, <1>7, <1>9, <1>11, <1>12, <2>1, <3>1, BalanceKept
  <2>2. CASE /\ pass'.delta = pass.delta + Grown(t)
             /\ Works /\ base' = [base EXCEPT ![t] = count[t]]
    <3>1. /\ Grown(t)' = 0
          /\ \A s \in Sites \ {t} : Grown(s)' = Grown(s)
      BY <1>2, <1>3, <2>2 DEF Grown, CountersOK
    <3>2. Cardinality(Unmeasured') = Cardinality(Unmeasured) - Grown(t)
      BY <1>3, <1>9, <3>1, UnmeasuredTaken DEF TypeBase
    <3>3. MaxTraffic * used.faults \in Nat
      BY <1>7, BoundsAssumption, TimesMono
    <3> QED
      BY <1>2, <1>3, <1>4, <1>7, <1>11, <1>12, <2>2, <3>2, <3>3, UnmeasuredFinite DEF Balance
  <2>3. CASE /\ pass'.delta = pass.delta + Grown(t)
             /\ Fault /\ base' = base
    <3>1. Unmeasured' = Unmeasured
      BY <1>2, <2>3 DEF Unmeasured, Grown
    <3>2. /\ MaxTraffic * used.faults \in Nat
          /\ MaxTraffic * used'.faults = MaxTraffic * used.faults + MaxTraffic
      <4>1. MaxTraffic \in Nat /\ used.faults \in Nat /\ used'.faults = used.faults + 1
        BY <1>7, <2>3, BoundsAssumption
      <4>2. MaxTraffic * (used.faults + 1) = MaxTraffic * used.faults + MaxTraffic
        BY <4>1, TimesSum
      <4>3. MaxTraffic * used.faults \in Nat
        BY <4>1, TimesMono
      <4> QED
        BY <4>1, <4>2, <4>3
    <3> QED
      BY <1>2, <1>3, <1>4, <1>11, <1>12, <2>3, <3>1, <3>2, UnmeasuredFinite, BoundsAssumption
         DEF Balance
  <2> QED
    BY <1>6, <2>1, <2>2, <2>3
<1> QED
  BY <1>6, <1>9, <1>10, <1>13, LedgerPartsNext

\* What is charged are the whole megabytes of what was measured.
LEMMA PassAdd ==
  ASSUME TypeBase, CopyInv, Ledger, AddUsage
  PROVE  /\ TypeBase' /\ CopyInv' /\ Ledger'
         /\ pass'.at = "enforce" /\ pass'.delta = pass.delta
<1> DEFINE whole == WholeMB
<1>1. /\ pass \in Passes /\ account \in Row /\ pass.acct \in Row /\ charged \in Nat
      /\ pass.delta \in Nat /\ pass.acct.usedMB \in Nat /\ account.usedMB \in Nat
      /\ used \in Counted /\ used.faults \in Nat
  BY DEF TypeBase, CountersOK, Passes, Row, Counted
<1>2. whole \in Nat /\ whole * UnitsPerMB <= pass.delta
  BY WholeType
<1>3. /\ pass.at = "add" /\ base' = base /\ count' = count /\ up' = up /\ month' = month
      /\ sent' = sent
  BY DEF AddUsage
<1>4. /\ pass.acct.usedMB = account.usedMB /\ Balance /\ Counts
  BY <1>3, LedgerParts DEF CopyInv
<1>5. \/ /\ Works
         /\ account' = [account EXCEPT !.usedMB = @ + whole]
         /\ charged' = charged + whole
         /\ pass' = [pass EXCEPT !.at = "enforce", !.acct.usedMB = @ + whole]
      \/ /\ Fault /\ account' = account /\ charged' = charged
         /\ pass' = [pass EXCEPT !.at = "enforce"]
  BY DEF AddUsage
<1> HIDE DEF whole
<1>6. Uncharged = pass.delta
  BY <1>3 DEF Uncharged
<1>7. /\ \A s \in Sites : Grown(s)' <= Grown(s)
      /\ Unmeasured' = Unmeasured
  BY <1>3, GrownType DEF Unmeasured, Grown, TypeBase, CountersOK
<1>8. CASE /\ Fault /\ account' = account /\ charged' = charged
           /\ pass' = [pass EXCEPT !.at = "enforce"]
  <2>1. /\ pass' \in Passes /\ pass'.at = "enforce" /\ pass'.acct = pass.acct
        /\ pass'.delta = pass.delta
    BY <1>1, <1>8 DEF Passes
  <2>2. used' \in Counted /\ used'.faults >= used.faults
    BY <1>1, <1>8, Counting
  <2>3. TypeBase'
    BY <1>3, <1>8, <2>1, <2>2 DEF TypeBase, CountersOK
  <2>4. CopyInv' /\ Counts'
    BY <1>3, <1>4, <1>8, <2>1 DEF CopyInv, Counts
  <2>5. Uncharged' = 0
    BY <2>1 DEF Uncharged
  <2>6. Balance'
    BY <1>1, <1>3, <1>4, <1>6, <1>7, <1>8, <2>2, <2>3, <2>5, BalanceKept
  <2> QED
    BY <2>1, <2>3, <2>4, <2>6, LedgerPartsNext
<1>9. CASE /\ Works
           /\ account' = [account EXCEPT !.usedMB = @ + whole]
           /\ charged' = charged + whole
           /\ pass' = [pass EXCEPT !.at = "enforce", !.acct.usedMB = @ + whole]
  <2> DEFINE mb == pass.acct.usedMB + whole
             row == [pass.acct EXCEPT !.usedMB = mb]
  <2>1. mb \in Nat /\ account.usedMB + whole = mb
    BY <1>1, <1>2, <1>4
  <2>2. row \in Row /\ row.usedMB = mb
    BY <1>1, <2>1, RowUsage
  <2>3. account' \in Row /\ account'.usedMB = mb
    <3>1. account' = [account EXCEPT !.usedMB = mb]
      BY <1>9, <2>1
    <3> QED
      BY <1>1, <2>1, <3>1, RowUsage
  <2>4. pass' = [pass EXCEPT !.at = "enforce", !.acct = row]
    BY <1>9
  <2> HIDE DEF mb, row
  <2>5. /\ pass' \in Passes /\ pass'.at = "enforce" /\ pass'.acct = row
        /\ pass'.left = pass.left /\ pass'.delta = pass.delta
    BY <1>1, <2>2, <2>4, NextRow
  <2>6. TypeBase'
    BY <1>1, <1>2, <1>3, <1>9, <2>3, <2>5 DEF TypeBase, CountersOK, Works
  <2>7. CopyInv'
    BY <2>2, <2>3, <2>5 DEF CopyInv
  <2>8. Counts'
    BY <1>1, <1>2, <1>3, <1>4, <1>9, <2>1, <2>3 DEF Counts
  <2>9. Balance'
    <3>1. Uncharged' = 0 /\ used' = used
      BY <1>9, <2>5 DEF Uncharged, Works
    <3>2. charged' * UnitsPerMB = charged * UnitsPerMB + whole * UnitsPerMB
      BY <1>1, <1>2, <1>9, QuotaAssumption, TimesSum
    <3>3. /\ charged * UnitsPerMB \in Nat /\ whole * UnitsPerMB \in Nat /\ sent \in Nat
          /\ MaxTraffic * used.faults \in Nat
      BY <1>1, <1>2, QuotaAssumption, BoundsAssumption, TimesMono DEF TypeBase, CountersOK
    <3> QED
      BY <1>1, <1>2, <1>3, <1>4, <1>6, <1>7, <3>1, <3>2, <3>3, UnmeasuredFinite DEF Balance
  <2> QED
    BY <2>5, <2>6, <2>7, <2>8, <2>9, LedgerPartsNext
<1> QED
  BY <1>5, <1>8, <1>9

-----------------------------------------------------------------------------
(* The invariant.                                                          *)

\* What the ledger bounds.
Bounds ==
  /\ charged <= MaxCharged /\ account.usedMB <= MaxCharged
  /\ pass.at = "sample" => pass.delta <= MaxCharged
  /\ pass.at # "idle" => pass.acct.usedMB <= MaxCharged

LEMMA LedgerBounds == TypeBase /\ CopyInv /\ Ledger => Bounds
<1> SUFFICES ASSUME TypeBase, CopyInv, Ledger PROVE Bounds
  OBVIOUS
<1>1. /\ charged \in Nat /\ sent \in Nat /\ sent <= MaxTraffic /\ Uncharged \in Nat
      /\ used.faults \in Nat /\ used.faults <= MaxFaults /\ MaxTraffic \in Nat /\ MaxFaults \in Nat
      /\ account.usedMB \in Nat /\ UnitsPerMB \in Nat /\ UnitsPerMB >= 1
  BY BoundsAssumption, QuotaAssumption
     DEF TypeBase, CountersOK, Counted, Uncharged, Passes, Row
<1>2. MaxTraffic * used.faults <= MaxTraffic * MaxFaults
      /\ MaxTraffic * used.faults \in Nat /\ MaxTraffic * MaxFaults \in Nat
  BY <1>1, TimesMono
<1>3. MaxCharged = MaxTraffic * MaxFaults + MaxTraffic
  BY <1>1, TimesSum DEF MaxCharged
<1>4. charged * UnitsPerMB \in Nat /\ charged <= charged * UnitsPerMB
  <2>1. charged * 1 <= charged * UnitsPerMB
    BY <1>1, TimesMono
  <2> QED
    BY <1>1, <2>1
<1>5. charged * UnitsPerMB + Uncharged <= MaxCharged
  BY <1>1, <1>2, <1>3, <1>4, UnmeasuredFinite DEF Ledger
<1>6. charged <= MaxCharged /\ account.usedMB <= MaxCharged /\ Uncharged <= MaxCharged
  BY <1>1, <1>3, <1>2, <1>4, <1>5 DEF Ledger
<1> QED
  BY <1>6 DEF Bounds, CopyInv, Uncharged

LEMMA LedgerBoundsNext == (TypeBase /\ CopyInv /\ Ledger)' => Bounds'
  BY LedgerBounds, PTL

LEMMA Invariance == IInv /\ [Next]_vars => IInv'
<1> SUFFICES ASSUME IInv, [Next]_vars PROVE IInv'
  OBVIOUS
<1>1. TypeOK /\ TypeBase /\ CopyInv /\ Ledger
  BY BaseOfType DEF IInv
<1>2. CASE UNCHANGED vars
  BY <1>2 DEF vars, IInv, TypeOK, CopyInv, Ledger, Uncharged, Unmeasured, Grown
<1>3. CASE Next
  <2>1. /\ TypeBase' /\ CopyInv' /\ Ledger'
        /\ \/ pass' = pass \/ pass' = NoPass
           \/ pass'.at # "idle" /\ (pass'.at = "sample" \/ pass'.delta \in {0, pass.delta})
    <3>1. CASE \E s \in Sites : Traffic(s)
      BY <1>1, <3>1, WorldTraffic
    <3>2. CASE NewMonth \/ AdminSuspends \/ AdminReactivates \/ \E s \in Sites : Restart(s)
      BY <1>1, <3>2, WorldOther
    <3>3. CASE Sample
      BY <1>1, <3>3, PassSample
    <3>4. CASE AddUsage
      BY <1>1, <3>4, PassAdd
    <3>5. CASE \/ NewCycle \/ SameCycle \/ Sampled
               \/ ListAccounts \/ ListSites \/ Lift \/ Enforce \/ Crash
      BY <1>1, <3>5, PassOther
    <3> QED
      BY <1>3, <3>1, <3>2, <3>3, <3>4, <3>5 DEF Next, Pass
  <2>2. /\ charged' <= MaxCharged /\ account'.usedMB <= MaxCharged
        /\ pass'.at = "sample" => pass'.delta <= MaxCharged
        /\ pass'.at # "idle" => pass'.acct.usedMB <= MaxCharged
    BY <2>1, LedgerBoundsNext DEF Bounds
  <2>3. account' \in Account /\ charged' \in 0 .. MaxCharged
    BY <2>1, <2>2, MaxChargedType DEF TypeBase, Row, Account
  <2> DEFINE Typed == [at : {"idle", "sites", "sample", "month", "lift", "add", "enforce"},
                       acct : Account, left : SUBSET Sites, delta : 0 .. MaxCharged]
  <2>4. pass' \in Typed
    <3>1. pass \in Typed
      BY <1>1 DEF TypeOK
    <3>2. NoPass \in Typed
      BY MaxChargedType, BoundsAssumption DEF NoPass, NewAccount, Account, Reasons
    <3>3. ASSUME pass'.at # "idle", pass'.at = "sample" \/ pass'.delta \in {0, pass.delta}
          PROVE  pass' \in Typed
      <4>1. pass'.delta \in 0 .. MaxCharged
        BY <2>1, <2>2, <3>1, <3>3, MaxChargedType DEF TypeBase, Passes
      <4>2. pass'.acct \in Account
        BY <2>1, <2>2, <3>3, MaxChargedType DEF TypeBase, Passes, Row, Account
      <4> QED
        BY <2>1, <4>1, <4>2 DEF TypeBase, Passes
    <3> QED
      BY <2>1, <3>1, <3>2, <3>3
  <2> QED
    BY <2>1, <2>3, <2>4 DEF IInv, TypeOK, TypeBase, CountersOK
<1> QED
  BY <1>2, <1>3

LEMMA Initially == Init => IInv
<1> SUFFICES ASSUME Init PROVE IInv
  OBVIOUS
<1>1. TypeOK
  <2>1. 0 \in 0 .. MaxCharged /\ 0 \in 0 .. MaxTraffic /\ 1 \in 1 .. MaxMonths
    BY MaxChargedType, BoundsAssumption
  <2>2. account \in Account
    BY <2>1 DEF Init, NewAccount, Account, Reasons
  <2>3. /\ base \in [Sites -> 0 .. MaxTraffic] /\ count \in [Sites -> 0 .. MaxTraffic]
        /\ up \subseteq Sites
    BY <2>1 DEF Init
  <2>4. used \in Counted
    BY BoundsAssumption DEF Init, Counted
  <2>5. NewAccount \in Account
    BY <2>2 DEF Init
  <2>6. pass \in [at : {"idle", "sites", "sample", "month", "lift", "add", "enforce"},
                 acct : Account, left : SUBSET Sites, delta : 0 .. MaxCharged]
    BY <2>1, <2>5 DEF Init, NoPass
  <2> QED
    BY <2>1, <2>2, <2>3, <2>4, <2>6 DEF Init, TypeOK
<1>2. CopyInv
  BY DEF Init, CopyInv, NoPass
<1>3. Unmeasured = {}
  BY BoundsAssumption DEF Init, Unmeasured, Grown
<1>4. Ledger
  <2>1. Uncharged = 0
    BY DEF Init, Uncharged, NoPass
  <2>2. charged = 0 /\ sent = 0 /\ used.faults = 0 /\ account.usedMB = 0
        /\ \A s \in Sites : count[s] = 0
    BY DEF Init, NewAccount
  <2>3. 0 * UnitsPerMB = 0 /\ MaxTraffic * 0 = 0
    BY QuotaAssumption, BoundsAssumption
  <2> QED
    BY <1>3, <2>1, <2>2, <2>3, FS_EmptySet DEF Ledger
<1> QED
  BY <1>1, <1>2, <1>4 DEF IInv

-----------------------------------------------------------------------------
(* Theorems.                                                               *)

\* The strengthening of the properties below is an invariant: the ledger of
\* what was sent, measured and charged balances in every state.
THEOREM Invariant == Spec => []IInv
  BY Initially, Invariance, PTL DEF Spec

\* Every variable of the quota has its type, and its bound.
THEOREM TypeCorrect == Spec => []TypeOK
<1>1. IInv => TypeOK
  BY DEF IInv
<1> QED
  BY <1>1, Invariant, PTL

\* No unit of traffic is charged twice by enforceQuotas as long as the
\* baselines can be stored.
THEOREM NothingOvercharged == Spec => []NeverOvercharged
<1>1. IInv => NeverOvercharged
  <2> SUFFICES ASSUME IInv, used.faults = 0 PROVE charged * UnitsPerMB <= sent
    BY DEF NeverOvercharged
  <2>1. TypeBase /\ Ledger
    BY BaseOfType DEF IInv
  <2>2. /\ charged * UnitsPerMB \in Nat /\ sent \in Nat /\ Uncharged \in Nat
        /\ MaxTraffic * used.faults = 0
    BY <2>1, QuotaAssumption, BoundsAssumption DEF TypeBase, CountersOK, Uncharged, Passes
  <2> QED
    BY <2>1, <2>2, UnmeasuredFinite DEF Ledger
<1> QED
  BY <1>1, Invariant, PTL

\* The worker touches a manual suspension only when its copy of the row does
\* not show it.
THEOREM OnlyItsOwnLifted == Spec => LiftsOnlyItsOwn
<1>1. /\ IInv /\ [Next]_vars
      => [account.reason = "manual" /\ pass # pass' =>
            account'.reason = "manual" \/ pass.acct.reason # "manual"]_vars
  <2> SUFFICES ASSUME IInv, Next, account.reason = "manual", pass # pass'
               PROVE  account'.reason = "manual" \/ pass.acct.reason # "manual"
    OBVIOUS
  <2>1. account \in Row /\ CopyInv
    BY BaseOfType DEF IInv, TypeBase
  <2>2. CASE Lift
    BY <2>1, <2>2 DEF Lift, CopyInv
  <2>3. CASE Enforce
    BY <2>1, <2>3 DEF Enforce
  <2>4. CASE NewCycle
    <3>1. \/ account' = account
          \/ account' = [account EXCEPT !.usedMB = 0, !.resetAt = month]
      BY <2>4 DEF NewCycle
    <3> QED
      BY <2>1, <3>1 DEF Row
  <2>5. CASE AddUsage
    <3>1. \/ account' = account
          \/ account' = [account EXCEPT !.usedMB = @ + WholeMB]
      BY <2>5 DEF AddUsage
    <3> QED
      BY <2>1, <3>1 DEF Row
  <2>6. CASE ListAccounts \/ ListSites \/ Sample \/ Sampled \/ SameCycle \/ Crash
    BY <2>6 DEF ListAccounts, ListSites, Sample, Sampled, SameCycle, Crash
  <2>7. CASE \/ NewMonth \/ AdminSuspends \/ AdminReactivates
             \/ \E s \in Sites : Traffic(s) \/ Restart(s)
    BY <2>7 DEF NewMonth, AdminSuspends, AdminReactivates, Traffic, Restart
  <2> QED
    BY <2>2, <2>3, <2>4, <2>5, <2>6, <2>7 DEF Next, Pass
<1> QED
  BY <1>1, Invariant, PTL DEF Spec, LiftsOnlyItsOwn

\* An automatic suspension is made only of an account whose row, not only the
\* worker's copy of it, has reached the quota.
THEOREM OnlyOverQuotaSuspended == Spec => SuspendsOnlyOverQuota
<1>1. /\ IInv /\ [Next]_vars
      => [account'.reason = "auto" /\ account.reason # "auto" => OverQuota(account)]_vars
  <2> SUFFICES ASSUME IInv, Next, account'.reason = "auto", account.reason # "auto"
               PROVE  OverQuota(account)
    OBVIOUS
  <2>1. account \in Row /\ CopyInv
    BY BaseOfType DEF IInv, TypeBase
  <2>2. CASE Enforce
    BY <2>1, <2>2 DEF Enforce, CopyInv, OverQuota
  <2>3. CASE NewCycle
    <3>1. \/ account' = account
          \/ account' = [account EXCEPT !.usedMB = 0, !.resetAt = month]
      BY <2>3 DEF NewCycle
    <3> QED
      BY <2>1, <3>1 DEF Row
  <2>4. CASE AddUsage
    <3>1. \/ account' = account
          \/ account' = [account EXCEPT !.usedMB = @ + WholeMB]
      BY <2>4 DEF AddUsage
    <3> QED
      BY <2>1, <3>1 DEF Row
  <2>5. CASE AdminSuspends \/ AdminReactivates \/ Lift
    BY <2>1, <2>5 DEF AdminSuspends, AdminReactivates, Lift, SuspendAccount, UnsuspendAccount, Row
  <2>6. CASE \/ ListAccounts \/ ListSites \/ Sample \/ Sampled \/ SameCycle \/ Crash
             \/ NewMonth \/ \E s \in Sites : Traffic(s) \/ Restart(s)
    BY <2>6 DEF ListAccounts, ListSites, Sample, Sampled, SameCycle, Crash, NewMonth, Traffic, Restart
  <2> QED
    BY <2>2, <2>3, <2>4, <2>5, <2>6 DEF Next, Pass
<1> QED
  BY <1>1, Invariant, PTL DEF Spec, SuspendsOnlyOverQuota

=============================================================================
