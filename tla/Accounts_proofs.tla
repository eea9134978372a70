--------------------------- MODULE Accounts_proofs ---------------------------
(***************************************************************************)
(* Proofs about Accounts for every plan and any number of requests: type   *)
(* correctness with the foreign keys, that creating an account leaves no   *)
(* owner behind, that plans are kept to as PlanLimit does, and how far     *)
(* their limits can be exceeded; and, for any accounts, sites and domains, *)
(* that the configuration made of them answers for each host as its row    *)
(* says, whatever the order of routes, with the certificates that takes.   *)
(***************************************************************************)
EXTENDS Accounts, TLAPS, FiniteSetTheorems, SequenceTheorems, WellFoundedInduction

-----------------------------------------------------------------------------
(* Types.                                                                  *)

Stages == {"owner", "account", "dirs", "dropaccount", "dropowner",
           "insert", "prepare", "domain", "deploy"}
Call == [kind : {"account", "site", "domain"}, site : Sites, host : Hosts \cup {NoHost},
         to : Targets \cup {NoHost}, owner : Owners \cup {NoOwner}, at : Stages]
Ops == {Idle} \cup Call
AcctRow == [status : {"active", "suspended"}, owner : Owners \cup {NoOwner}, moved : BOOLEAN]
SiteRow == [status : {"provisioning", "running", "stopped", "error"}, up : BOOLEAN]
DomainRow == [site : Sites, to : Targets \cup {NoHost}, kind : {"primary", "addon"}]

AcctsOK == acct \in [Accts -> {NoAcct} \cup AcctRow]
SitesOK ==
  /\ site \in [Sites -> {NoSite} \cup SiteRow]
  /\ \A s \in Sites : site[s] # NoSite => acct[s[1]] # NoAcct
DomainsOK ==
  /\ domain \in [Hosts -> {Free} \cup DomainRow]
  /\ \A h \in Hosts : domain[h] # Free => site[domain[h].site] # NoSite
UsersOK == user \in [Owners -> {"none", "pending", "kept"}]
OpsOK == op \in [Requests -> Ops]
CountersOK == calls \in 0 .. MaxCalls /\ faults \in 0 .. MaxFaults

LEMMA TypeParts ==
  TypeOK <=> AcctsOK /\ SitesOK /\ DomainsOK /\ UsersOK /\ OpsOK /\ CountersOK
  BY DEF TypeOK, AcctsOK, SitesOK, DomainsOK, UsersOK, OpsOK, CountersOK,
         AcctRow, SiteRow, DomainRow, Ops, Call, Stages

LEMMA TypePartsNext ==
  TypeOK' <=> AcctsOK' /\ SitesOK' /\ DomainsOK' /\ UsersOK' /\ OpsOK' /\ CountersOK'
  BY TypeParts, PTL

\* What is there differs from what is not.
LEMMA RowsAreThere ==
  /\ \A r \in AcctRow : r # NoAcct
  /\ \A r \in SiteRow : r # NoSite
  /\ \A c \in Call : c # Idle /\ c.at # "idle" /\ c.at \in Stages /\ c.site \in Sites
  /\ Idle.at = "idle" /\ Idle.kind = "none"
<1>1. (\A r \in AcctRow : r # NoAcct) /\ (\A r \in SiteRow : r # NoSite)
  <2>1. (\A r \in AcctRow : r.status # "none") /\ (\A r \in SiteRow : r.status # "none")
    BY DEF AcctRow, SiteRow
  <2>2. NoAcct.status = "none" /\ NoSite.status = "none"
    BY DEF NoAcct, NoSite
  <2> QED
    BY <2>1, <2>2
<1>2. Idle.at = "idle"
  BY DEF Idle
<1>3. Idle.kind = "none"
  BY DEF Idle
<1>4. \A c \in Call : c.at # "idle" /\ c.at \in Stages /\ c.site \in Sites
  BY DEF Call, Stages
<1> QED
  BY <1>1, <1>2, <1>3, <1>4

LEMMA SiteParts == \A s \in Sites : s[1] \in Accts
  BY DEF Sites

-----------------------------------------------------------------------------
(* The requests.                                                           *)

\* The stage a request goes to from the one it is in.
Flow == {<<"owner", "account">>, <<"account", "dirs">>, <<"account", "dropowner">>,
         <<"dirs", "dropaccount">>, <<"dirs", "insert">>, <<"dropaccount", "dropowner">>,
         <<"insert", "prepare">>, <<"prepare", "domain">>, <<"prepare", "deploy">>,
         <<"domain", "deploy">>}

\* p ends, or goes on to another stage.
Stepped(p) ==
  /\ op[p] \in Call
  /\ \/ End(p)
     \/ \E at \in Stages :
          /\ GoTo(p, at) /\ <<op[p].at, at>> \in Flow
          /\ at = "dropowner" => op[p].owner # NoOwner
          /\ at = "domain" => op[p].host # NoHost
          /\ op[p].at = "domain" => op[p].kind # "domain"

\* What that leaves of it.
After(p) ==
  /\ \A q \in Requests \ {p} : op'[q] = op[q]
  /\ \/ op'[p] = Idle
     \/ /\ op'[p] \in Call
        /\ op'[p].kind = op[p].kind /\ op'[p].site = op[p].site
        /\ op'[p].host = op[p].host /\ op'[p].owner = op[p].owner
        /\ <<op[p].at, op'[p].at>> \in Flow
        /\ op'[p].at = "dropowner" => op[p].owner # NoOwner
        /\ op'[p].at = "domain" => op[p].host # NoHost
        /\ op[p].at = "domain" => op[p].kind # "domain"

LEMMA SteppedOp ==
  ASSUME OpsOK, OpInv, NEW p \in Requests, Stepped(p)
  PROVE  OpsOK' /\ OpInv' /\ After(p)
<1>1. CASE End(p)
  <2>1. OpsOK' /\ After(p)
    BY <1>1 DEF End, OpsOK, Ops, After
  <2>2. OpInv'
    BY <2>1, <1>1, RowsAreThere DEF OpInv, End, OpsOK
  <2> QED
    BY <2>1, <2>2
<1>2. ASSUME NEW at \in Stages, GoTo(p, at), <<op[p].at, at>> \in Flow,
             at = "dropowner" => op[p].owner # NoOwner,
             at = "domain" => op[p].host # NoHost,
             op[p].at = "domain" => op[p].kind # "domain"
      PROVE  OpsOK' /\ OpInv' /\ After(p)
  <2>1. op[p] \in Call
    BY DEF Stepped
  <2>2. op' = [op EXCEPT ![p] = [op[p] EXCEPT !.at = at]]
    BY <1>2 DEF GoTo
  <2>3. /\ [op[p] EXCEPT !.at = at] \in Call
        /\ [op[p] EXCEPT !.at = at].at = at
        /\ [op[p] EXCEPT !.at = at].kind = op[p].kind
        /\ [op[p] EXCEPT !.at = at].site = op[p].site
        /\ [op[p] EXCEPT !.at = at].host = op[p].host
        /\ [op[p] EXCEPT !.at = at].owner = op[p].owner
    BY <2>1 DEF Call
  <2>4. OpsOK' /\ op'[p] = [op[p] EXCEPT !.at = at] /\ \A q \in Requests \ {p} : op'[q] = op[q]
    BY <2>2, <2>3 DEF OpsOK, Ops
  <2>5. After(p)
    BY <1>2, <2>3, <2>4 DEF After
  <2>6. OpInv'
    <3>1. \A q \in Requests \ {p} : op'[q] = op[q]
      BY <2>4
    <3>2. /\ op'[p].at = at /\ op'[p].kind = op[p].kind
          /\ op'[p].host = op[p].host /\ op'[p].owner = op[p].owner
      BY <2>3, <2>4
    <3>3. /\ at \in {"owner", "account", "dirs", "dropaccount", "dropowner"} =>
               op[p].at \in {"owner", "account", "dirs", "dropaccount"}
          /\ at # "owner" /\ at \in Stages
      BY <1>2 DEF Flow
    <3>4. /\ op[p].at \in {"owner", "account", "dirs", "dropaccount"} => op[p].kind = "account"
          /\ op[p].kind # "domain"
      BY <1>2 DEF OpInv
    <3> QED
      BY <1>2, <3>1, <3>2, <3>3, <3>4 DEF OpInv
  <2> QED
    BY <2>4, <2>5, <2>6
<1> QED
  BY <1>1, <1>2 DEF Stepped

\* A request that is made.
LEMMA CalledOp ==
  ASSUME OpsOK, OpInv, NEW p \in Requests, NEW call \in Call, Called(p, call),
         call.at \in {"owner", "account"} => call.kind = "account",
         call.at \in {"owner", "account", "insert", "domain"},
         call.at = "owner" => call.owner # NoOwner,
         call.at = "domain" => call.host # NoHost,
         call.kind = "domain" => call.at = "domain"
  PROVE  /\ OpsOK' /\ OpInv' /\ op[p] = Idle /\ op'[p] = call
         /\ \A q \in Requests \ {p} : op'[q] = op[q]
<1>1. /\ op[p] = Idle /\ op'[p] = call /\ op' \in [Requests -> Ops]
      /\ \A q \in Requests \ {p} : op'[q] = op[q]
  BY DEF Called, OpsOK, Ops
<1>2. OpInv'
  BY <1>1 DEF OpInv
<1> QED
  BY <1>1, <1>2 DEF OpsOK

\* The calls customers and administrators make.
LEMMA Calls ==
  ASSUME OpsOK, OpInv, NEW p \in Requests, NEW h \in Hosts \cup {NoHost}
  PROVE  /\ \A a \in Accts, o \in Owners \cup {NoOwner} : CallCreateAccount(p, a, o, h) =>
              /\ OpsOK' /\ OpInv' /\ op[p] = Idle
              /\ op'[p].kind = "account" /\ op'[p].at \in {"owner", "account"}
              /\ op'[p].at # "owner" => op'[p].owner = NoOwner
              /\ \A q \in Requests \ {p} : op'[q] = op[q]
         /\ \A s \in Sites : CallCreateSite(p, s, h) =>
              /\ OpsOK' /\ OpInv' /\ op[p] = Idle
              /\ op'[p].kind = "site" /\ op'[p].at = "insert" /\ op'[p].site = s
              /\ \A q \in Requests \ {p} : op'[q] = op[q]
         /\ \A s \in Sites, to \in Targets \cup {NoHost} :
              h # NoHost /\ CallAddDomain(p, s, h, to) =>
              /\ OpsOK' /\ OpInv' /\ op[p] = Idle
              /\ op'[p].kind = "domain" /\ op'[p].at = "domain" /\ op'[p].site = s
              /\ \A q \in Requests \ {p} : op'[q] = op[q]
<1>1. ASSUME NEW a \in Accts, NEW o \in Owners \cup {NoOwner}, CallCreateAccount(p, a, o, h)
      PROVE  /\ OpsOK' /\ OpInv' /\ op[p] = Idle
             /\ op'[p].kind = "account" /\ op'[p].at \in {"owner", "account"}
             /\ op'[p].at # "owner" => op'[p].owner = NoOwner
             /\ \A q \in Requests \ {p} : op'[q] = op[q]
  <2> DEFINE at == IF o = NoOwner THEN "account" ELSE "owner"
             call == [site |-> <<a, Principal>>, owner |-> o, to |-> NoHost, kind |-> "account",
                      at |-> at, host |-> h]
  <2>1. at \in {"owner", "account"} /\ (at = "owner" <=> o # NoOwner)
    OBVIOUS
  <2>2. <<a, Principal>> \in Sites
    BY OwnersAssumption DEF Sites
  <2>3. Called(p, call)
    BY <1>1 DEF CallCreateAccount
  <2> HIDE DEF at
  <2>4. /\ call \in Call /\ call.at = at /\ call.kind = "account" /\ call.owner = o
    BY <2>1, <2>2 DEF Call, Stages
  <2> HIDE DEF call
  <2> QED
    BY <2>1, <2>3, <2>4, CalledOp
<1>2. ASSUME NEW s \in Sites, CallCreateSite(p, s, h)
      PROVE  /\ OpsOK' /\ OpInv' /\ op[p] = Idle
             /\ op'[p].kind = "site" /\ op'[p].at = "insert" /\ op'[p].site = s
             /\ \A q \in Requests \ {p} : op'[q] = op[q]
  <2> DEFINE call == [site |-> s, owner |-> NoOwner, to |-> NoHost, kind |-> "site",
                      at |-> "insert", host |-> h]
  <2>1. Called(p, call)
    BY <1>2 DEF CallCreateSite
  <2>2. call \in Call /\ call.at = "insert" /\ call.kind = "site" /\ call.site = s
    BY DEF Call, Stages
  <2> HIDE DEF call
  <2> QED
    BY <2>1, <2>2, CalledOp
<1>3. ASSUME NEW s \in Sites, NEW to \in Targets \cup {NoHost}, h # NoHost,
             CallAddDomain(p, s, h, to)
      PROVE  /\ OpsOK' /\ OpInv' /\ op[p] = Idle
             /\ op'[p].kind = "domain" /\ op'[p].at = "domain" /\ op'[p].site = s
             /\ \A q \in Requests \ {p} : op'[q] = op[q]
  <2> DEFINE call == [site |-> s, owner |-> NoOwner, to |-> to, kind |-> "domain",
                      at |-> "domain", host |-> h]
  <2>1. Called(p, call)
    BY <1>3 DEF CallAddDomain
  <2>2. call \in Call /\ call.at = "domain" /\ call.kind = "domain" /\ call.site = s /\ call.host = h
    BY DEF Call, Stages
  <2> HIDE DEF call
  <2> QED
    BY <1>3, <2>1, <2>2, CalledOp
<1> QED
  BY <1>1, <1>2, <1>3

-----------------------------------------------------------------------------
(* The tables.                                                             *)

Tables == AcctsOK /\ SitesOK /\ DomainsOK /\ UsersOK

\* Nothing is there that was not.
Fewer ==
  /\ \A a \in Accts : acct'[a] # NoAcct =>
       acct[a] # NoAcct /\ acct'[a].owner = acct[a].owner /\ (acct[a].moved => acct'[a].moved)
  /\ \A s \in Sites : site'[s] # NoSite => site[s] # NoSite
  /\ \A h \in Hosts : domain'[h] # Free => domain'[h] = domain[h]

LEMMA TablesUnchanged ==
  ASSUME Tables, UNCHANGED <<acct, site, domain>>, UsersOK'
  PROVE  Tables' /\ Fewer
  BY DEF Tables, AcctsOK, SitesOK, DomainsOK, Fewer

\* Only what rows say is changed.
LEMMA RowsKept ==
  ASSUME Tables, user' = user, domain' = domain,
         acct' \in [Accts -> {NoAcct} \cup AcctRow], site' \in [Sites -> {NoSite} \cup SiteRow],
         \A a \in Accts : acct'[a] = NoAcct <=> acct[a] = NoAcct,
         \A a \in Accts : acct[a] # NoAcct =>
           acct'[a].owner = acct[a].owner /\ (acct[a].moved => acct'[a].moved),
         \A s \in Sites : site'[s] = NoSite <=> site[s] = NoSite
  PROVE  Tables' /\ Fewer
<1>1. AcctsOK' /\ UsersOK'
  BY DEF Tables, AcctsOK, UsersOK
<1>2. SitesOK'
  BY SiteParts DEF Tables, SitesOK
<1>3. DomainsOK'
  <2>1. \A h \in Hosts : domain[h] # Free => domain[h].site \in Sites
    BY DEF Tables, DomainsOK, DomainRow
  <2> QED
    BY <2>1 DEF Tables, DomainsOK
<1>4. Fewer
  BY DEF Fewer
<1> QED
  BY <1>1, <1>2, <1>3, <1>4 DEF Tables

\* Sites that go take their domains with them.
LEMMA SitesGone ==
  ASSUME Tables, UsersOK', NEW S \in SUBSET Sites, Without(S), AcctsOK',
         \A a \in Accts : acct'[a] # NoAcct =>
           acct[a] # NoAcct /\ acct'[a].owner = acct[a].owner /\ (acct[a].moved => acct'[a].moved),
         \A s \in Sites \ S : site[s] # NoSite => acct'[s[1]] # NoAcct
  PROVE  Tables' /\ Fewer
<1>1. /\ site' \in [Sites -> {NoSite} \cup SiteRow]
      /\ domain' \in [Hosts -> {Free} \cup DomainRow]
  BY DEF Without, Tables, SitesOK, DomainsOK
<1>2. \A s \in Sites : site'[s] = IF s \in S THEN NoSite ELSE site[s]
  BY DEF Without
<1>3. \A h \in Hosts : domain'[h] # Free =>
         domain'[h] = domain[h] /\ domain[h].site \in Sites \ S
  BY DEF Without, Tables, DomainsOK, DomainRow
<1>4. SitesOK'
  BY <1>1, <1>2 DEF SitesOK
<1>5. DomainsOK'
  BY <1>1, <1>2, <1>3 DEF Tables, DomainsOK
<1>6. Fewer
  BY <1>2, <1>3 DEF Fewer
<1> QED
  BY <1>4, <1>5, <1>6 DEF Tables

LEMMA AccountRows ==
  ASSUME AcctsOK, NEW a \in Accts, acct[a] # NoAcct
  PROVE  /\ acct[a] \in AcctRow
         /\ [acct[a] EXCEPT !.moved = TRUE] \in AcctRow
         /\ [acct[a] EXCEPT !.moved = TRUE].owner = acct[a].owner
         /\ [acct[a] EXCEPT !.moved = TRUE].moved
         /\ \A status \in {"active", "suspended"} :
              /\ [acct[a] EXCEPT !.status = status] \in AcctRow
              /\ [acct[a] EXCEPT !.status = status].owner = acct[a].owner
              /\ [acct[a] EXCEPT !.status = status].moved = acct[a].moved
<1>1. acct[a] \in AcctRow
  BY DEF AcctsOK
<1> QED
  BY <1>1 DEF AcctRow

LEMMA SiteStatus ==
  ASSUME NEW row \in SiteRow, NEW status \in {"provisioning", "running", "stopped", "error"}
  PROVE  [row EXCEPT !.status = status] \in SiteRow
  BY DEF SiteRow

LEMMA SitesOfAccount ==
  ASSUME SitesOK, NEW a \in Accts
  PROVE  /\ SitesOf(a) \in SUBSET Sites
         /\ \A s \in SitesOf(a) : site[s] \in SiteRow /\ site[s] # NoSite
         /\ \A s \in Sites \ SitesOf(a) : site[s] # NoSite => s[1] # a
  BY DEF SitesOf, SitesOK

\* Accounts come under other limits.
LEMMA PlanEdited ==
  ASSUME Tables, EditPlan
  PROVE  /\ Tables' /\ Fewer
         /\ UNCHANGED <<user, site, domain, op>>
         /\ \A a \in Accts : acct'[a] = acct[a] \/ acct'[a].moved = TRUE
<1>1. UNCHANGED <<user, site, domain, op>>
  BY DEF EditPlan, Once
<1>2. \A a \in Accts : acct'[a] =
        IF acct[a] = NoAcct THEN NoAcct ELSE [acct[a] EXCEPT !.moved = TRUE]
  BY DEF EditPlan
<1>3. acct' = [a \in Accts |-> acct'[a]]
  BY DEF EditPlan
<1>4. ASSUME NEW a \in Accts, acct[a] # NoAcct
      PROVE  /\ acct'[a] \in AcctRow /\ acct'[a] # NoAcct
             /\ acct'[a].owner = acct[a].owner /\ acct'[a].moved = TRUE
  <2>1. /\ acct'[a] \in AcctRow /\ acct'[a].owner = acct[a].owner /\ acct'[a].moved
    BY <1>2, <1>4, AccountRows DEF Tables
  <2>2. acct'[a].moved \in BOOLEAN
    BY <2>1 DEF AcctRow
  <2> QED
    BY <2>1, <2>2, RowsAreThere
<1>5. \A a \in Accts : acct[a] = NoAcct => acct'[a] = NoAcct
  BY <1>2
<1>6. \A a \in Accts : acct'[a] \in {NoAcct} \cup AcctRow /\ (acct'[a] = NoAcct <=> acct[a] = NoAcct)
  BY <1>4, <1>5
<1>7. acct' \in [Accts -> {NoAcct} \cup AcctRow]
  BY <1>3, <1>6
<1>8. site' \in [Sites -> {NoSite} \cup SiteRow]
  BY <1>1 DEF Tables, SitesOK
<1>9. Tables' /\ Fewer
  BY <1>1, <1>4, <1>6, <1>7, <1>8, RowsKept
<1> QED
  BY <1>1, <1>4, <1>5, <1>9

\* Changes of an account that are one statement.
LEMMA AccountChanges ==
  ASSUME Tables, NEW a \in Accts, ChangePlan(a) \/ Suspend(a) \/ Unsuspend(a) \/ Terminate(a)
  PROVE  Tables' /\ Fewer
<1> USE DEF Tables
<1>1. user' = user /\ acct[a] # NoAcct
  BY DEF ChangePlan, Suspend, Unsuspend, Terminate, Once
<1>2. ASSUME NEW row \in AcctRow, acct' = [acct EXCEPT ![a] = row], row.owner = acct[a].owner,
             acct[a].moved => row.moved,
             site' \in [Sites -> {NoSite} \cup SiteRow], domain' = domain,
             \A s \in Sites : site'[s] = NoSite <=> site[s] = NoSite
      PROVE  Tables' /\ Fewer
  <2>1. /\ acct' \in [Accts -> {NoAcct} \cup AcctRow]
        /\ acct'[a] = row /\ \A b \in Accts \ {a} : acct'[b] = acct[b]
    BY <1>2 DEF AcctsOK
  <2>2. row # NoAcct
    BY RowsAreThere
  <2> HIDE DEF Tables
  <2> QED
    BY <1>1, <1>2, <2>1, <2>2, RowsKept
<1>3. ASSUME NEW status \in {"active", "suspended"}, acct' = [acct EXCEPT ![a].status = status],
             NEW to \in [SitesOf(a) -> {"stopped", "running", "error"}],
             site' = [s \in Sites |->
               IF s \in SitesOf(a) THEN [site[s] EXCEPT !.status = to[s]] ELSE site[s]],
             domain' = domain
      PROVE  Tables' /\ Fewer
  <2> DEFINE row == [acct[a] EXCEPT !.status = status]
  <2>1. row \in AcctRow /\ row.owner = acct[a].owner /\ row.moved = acct[a].moved
    BY <1>1, AccountRows
  <2>2. acct' = [acct EXCEPT ![a] = row]
    BY <1>3
  <2>3. \A s \in SitesOf(a) : [site[s] EXCEPT !.status = to[s]] \in SiteRow
    BY <1>3, SitesOfAccount, SiteStatus
  <2>4. \A s \in Sites : site'[s] = IF s \in SitesOf(a) THEN [site[s] EXCEPT !.status = to[s]]
                                    ELSE site[s]
    BY <1>3
  <2>5. site' \in [Sites -> {NoSite} \cup SiteRow]
    BY <1>3, <2>3 DEF SitesOK
  <2>6. \A s \in Sites : site'[s] = NoSite <=> site[s] = NoSite
    BY <2>3, <2>4, SitesOfAccount, RowsAreThere
  <2> HIDE DEF row
  <2> QED
    BY <1>2, <1>3, <2>1, <2>2, <2>5, <2>6
<1>4. CASE ChangePlan(a)
  <2> DEFINE row == [acct[a] EXCEPT !.moved = TRUE]
  <2>1. row \in AcctRow /\ row.owner = acct[a].owner /\ row.moved
    BY <1>1, AccountRows
  <2>2. acct' = [acct EXCEPT ![a] = row] /\ site' = site /\ domain' = domain
    BY <1>4 DEF ChangePlan
  <2> HIDE DEF row
  <2> QED
    BY <1>2, <2>1, <2>2 DEF SitesOK
<1>5. CASE Suspend(a)
  <2> DEFINE to == [s \in SitesOf(a) |-> "stopped"]
  <2>1. to \in [SitesOf(a) -> {"stopped", "running", "error"}]
    OBVIOUS
  <2>2. site' = [s \in Sites |->
          IF s \in SitesOf(a) THEN [site[s] EXCEPT !.status = to[s]] ELSE site[s]]
    BY <1>5 DEF Suspend
  <2> HIDE DEF to
  <2> QED
    BY <1>3, <1>5, <2>1, <2>2 DEF Suspend
<1>6. CASE Unsuspend(a)
  <2>1. PICK started \in SUBSET SitesOf(a) :
          site' = [s \in Sites |->
            IF s \notin SitesOf(a) THEN site[s]
            ELSE [site[s] EXCEPT !.status = IF s \in started THEN "running" ELSE "error"]]
    BY <1>6 DEF Unsuspend
  <2> DEFINE to == [s \in SitesOf(a) |-> IF s \in started THEN "running" ELSE "error"]
  <2>2. to \in [SitesOf(a) -> {"stopped", "running", "error"}]
    OBVIOUS
  <2>3. site' = [s \in Sites |->
          IF s \in SitesOf(a) THEN [site[s] EXCEPT !.status = to[s]] ELSE site[s]]
    BY <2>1
  <2> HIDE DEF to
  <2> QED
    BY <1>3, <1>6, <2>2, <2>3 DEF Unsuspend
<1>7. CASE Terminate(a)
  <2>1. /\ acct' \in [Accts -> {NoAcct} \cup AcctRow]
        /\ acct'[a] = NoAcct /\ \A b \in Accts \ {a} : acct'[b] = acct[b]
        /\ Without(SitesOf(a))
    BY <1>7 DEF Terminate, AcctsOK
  <2>2. \A s \in Sites \ SitesOf(a) : site[s] # NoSite => acct'[s[1]] # NoAcct
    BY <2>1, SitesOfAccount, SiteParts DEF SitesOK
  <2>3. AcctsOK' /\ UsersOK'
    BY <1>1, <2>1 DEF AcctsOK, UsersOK
  <2> HIDE DEF Tables
  <2> QED
    BY <2>1, <2>2, <2>3, SitesGone, SitesOfAccount DEF Tables
<1> QED
  BY <1>4, <1>5, <1>6, <1>7

\* Changes of a site or a domain that are one statement.
LEMMA SiteChanges ==
  ASSUME Tables,
         \/ \E s \in Sites : StopOrStart(s) \/ DeleteSite(s)
         \/ \E h \in Hosts : RemoveDomain(h)
  PROVE  Tables' /\ Fewer
<1>1. ASSUME NEW s \in Sites, StopOrStart(s)
      PROVE  Tables' /\ Fewer
  <2>1. PICK status \in {"stopped", "running", "error"} :
          site' = [site EXCEPT ![s] = [site[s] EXCEPT !.status = status]]
    BY <1>1 DEF StopOrStart
  <2>2. site[s] \in SiteRow /\ site[s] # NoSite
    BY <1>1 DEF StopOrStart, Tables, SitesOK
  <2>3. [site[s] EXCEPT !.status = status] \in SiteRow
    BY <2>2, SiteStatus
  <2>4. /\ site' \in [Sites -> {NoSite} \cup SiteRow]
        /\ \A t \in Sites : site'[t] = NoSite <=> site[t] = NoSite
    BY <2>1, <2>2, <2>3, RowsAreThere DEF Tables, SitesOK
  <2>5. acct' = acct /\ domain' = domain /\ user' = user
    BY <1>1 DEF StopOrStart, Once
  <2> QED
    BY <2>4, <2>5, RowsKept DEF Tables, AcctsOK
<1>2. ASSUME NEW s \in Sites, DeleteSite(s)
      PROVE  Tables' /\ Fewer
  <2>1. acct' = acct /\ user' = user /\ Without({s})
    BY <1>2 DEF DeleteSite, Once
  <2>2. AcctsOK' /\ UsersOK' /\ \A t \in Sites : site[t] # NoSite => acct'[t[1]] # NoAcct
    BY <2>1 DEF Tables, AcctsOK, UsersOK, SitesOK
  <2> QED
    BY <2>1, <2>2, SitesGone
<1>3. ASSUME NEW h \in Hosts, RemoveDomain(h)
      PROVE  Tables' /\ Fewer
  <2>1. acct' = acct /\ site' = site /\ user' = user /\ domain' = [domain EXCEPT ![h] = Free]
    BY <1>3 DEF RemoveDomain, Once
  <2> QED
    BY <2>1 DEF Tables, AcctsOK, SitesOK, DomainsOK, UsersOK, Fewer
<1> QED
  BY <1>1, <1>2, <1>3

\* A request that goes on without a row of its own changing.
LEMMA RequestChanges ==
  ASSUME Tables, OpsOK, OpInv, NEW p \in Requests,
         \/ CreateOwner(p) \/ PrepareAccount(p) \/ DropAccount(p) \/ DropOwner(p)
         \/ PrepareSite(p) \/ Deploy(p) \/ Abandon(p)
  PROVE  Tables' /\ Fewer
<1>1. CASE CreateOwner(p) \/ DropOwner(p)
  <2>1. UNCHANGED <<acct, site, domain>> /\ UsersOK'
    BY <1>1 DEF CreateOwner, DropOwner, Tables, UsersOK
  <2> QED
    BY <2>1, TablesUnchanged
<1>2. CASE PrepareAccount(p) \/ Abandon(p)
  <2>1. UNCHANGED <<acct, site, domain>> /\ UsersOK'
    BY <1>2 DEF PrepareAccount, Abandon, Tables, UsersOK
  <2> QED
    BY <2>1, TablesUnchanged
<1>3. CASE DropAccount(p)
  <2> DEFINE a == op[p].site[1]
  <2>1. a \in Accts
    <3>1. op[p].at = "dropaccount"
      BY <1>3 DEF DropAccount, Busy
    <3>2. op[p] \in Call
      BY <3>1, RowsAreThere DEF OpsOK, Ops
    <3> QED
      BY <3>2, RowsAreThere, SiteParts
  <2>2. CASE UNCHANGED <<user, acct, site, domain>>
    BY <2>2, TablesUnchanged DEF Tables, UsersOK
  <2>3. CASE /\ acct' = [acct EXCEPT ![a] = NoAcct]
             /\ user' = IF op[p].owner = NoOwner THEN user
                        ELSE [user EXCEPT ![op[p].owner] = "pending"]
             /\ Without(SitesOf(a))
    <3>1. /\ acct' \in [Accts -> {NoAcct} \cup AcctRow]
          /\ acct'[a] = NoAcct /\ \A b \in Accts \ {a} : acct'[b] = acct[b]
      BY <2>1, <2>3 DEF Tables, AcctsOK
    <3>2. UsersOK' /\ AcctsOK'
      BY <2>3, <3>1 DEF Tables, UsersOK, AcctsOK
    <3> HIDE DEF a
    <3>3. \A s \in Sites \ SitesOf(a) : site[s] # NoSite => acct'[s[1]] # NoAcct
      BY <2>1, <3>1, SitesOfAccount, SiteParts DEF Tables, SitesOK
    <3> QED
      BY <2>1, <2>3, <3>1, <3>2, <3>3, SitesGone, SitesOfAccount DEF Tables
  <2> QED
    BY <1>3, <2>2, <2>3 DEF DropAccount
<1>4. CASE PrepareSite(p) \/ Deploy(p)
  <2> DEFINE s == op[p].site
  <2>1. s \in Sites
    <3>1. op[p].at \in {"prepare", "deploy"}
      BY <1>4 DEF PrepareSite, Deploy, Busy
    <3>2. op[p] \in Call
      BY <3>1, RowsAreThere DEF OpsOK, Ops
    <3> QED
      BY <3>2, RowsAreThere
  <2>2. /\ acct' = acct /\ domain' = domain /\ user' = user
        /\ \/ site' = site
           \/ Marked(s, InError(s))
           \/ Marked(s, [status |-> "running", up |-> TRUE])
    BY <1>4 DEF PrepareSite, Deploy
  <2> HIDE DEF s
  <2>3. CASE site' = site \/ site[s] = NoSite
    BY <2>2, <2>3, TablesUnchanged DEF Marked, Tables, UsersOK
  <2>4. CASE site[s] # NoSite
    <3>1. site[s] \in SiteRow
      BY <2>1, <2>4 DEF Tables, SitesOK
    <3>2. InError(s) \in SiteRow /\ [status |-> "running", up |-> TRUE] \in SiteRow
      <4>1. InError(s) \in SiteRow
        BY <3>1, SiteStatus DEF InError
      <4> QED
        BY <4>1 DEF SiteRow
    <3>3. ASSUME NEW row \in SiteRow, Marked(s, row)
          PROVE  Tables' /\ Fewer
      <4>1. site' = [site EXCEPT ![s] = row]
        BY <2>4, <3>3 DEF Marked
      <4>2. /\ site' \in [Sites -> {NoSite} \cup SiteRow]
            /\ \A t \in Sites : site'[t] = NoSite <=> site[t] = NoSite
        BY <2>1, <2>4, <4>1, RowsAreThere DEF Tables, SitesOK
      <4> QED
        BY <2>2, <4>2, RowsKept DEF Tables, AcctsOK
    <3> QED
      BY <2>2, <2>3, <3>2, <3>3
  <2> QED
    BY <2>3, <2>4
<1> QED
  BY <1>1, <1>2, <1>3, <1>4

\* An account that is new, has no sites or domains yet.
LEMMA AccountInserted ==
  ASSUME Tables, OpsOK, NEW p \in Requests, InsertAccount(p)
  PROVE  /\ Tables' /\ site' = site /\ domain' = domain /\ op[p] \in Call
         /\ op[p].site[1] \in Accts
         /\ \A a \in Accts \ {op[p].site[1]} : acct'[a] = acct[a]
         /\ \/ acct' = acct /\ user' = user /\ Undo(p)
            \/ /\ acct[op[p].site[1]] = NoAcct /\ acct'[op[p].site[1]].owner = op[p].owner
               /\ GoTo(p, "dirs")
               /\ user' = IF op[p].owner = NoOwner THEN user
                          ELSE [user EXCEPT ![op[p].owner] = "kept"]
<1> DEFINE a == op[p].site[1]
<1>0. PICK moved \in BOOLEAN :
        /\ site' = site /\ domain' = domain
        /\ \/ acct' = acct /\ user' = user /\ Undo(p)
           \/ /\ acct[a] = NoAcct /\ GoTo(p, "dirs")
              /\ acct' = [acct EXCEPT ![a] =
                   [status |-> "active", owner |-> op[p].owner, moved |-> moved]]
              /\ user' = IF op[p].owner = NoOwner THEN user
                         ELSE [user EXCEPT ![op[p].owner] = "kept"]
  BY DEF InsertAccount
<1> DEFINE row == [status |-> "active", owner |-> op[p].owner, moved |-> moved]
<1>1. op[p] \in Call
  BY RowsAreThere DEF InsertAccount, Busy, OpsOK, Ops
<1>2. a \in Accts /\ op[p].owner \in Owners \cup {NoOwner}
  <2>1. op[p].site \in Sites /\ op[p].owner \in Owners \cup {NoOwner}
    BY <1>1 DEF Call
  <2> QED
    BY <2>1, SiteParts
<1>3. row \in AcctRow /\ row.owner = op[p].owner
  BY <1>2 DEF AcctRow
<1>4. /\ site' = site /\ domain' = domain
      /\ \/ acct' = acct /\ user' = user /\ Undo(p)
         \/ /\ acct[a] = NoAcct /\ GoTo(p, "dirs")
            /\ acct' = [acct EXCEPT ![a] = row]
            /\ user' = IF op[p].owner = NoOwner THEN user
                       ELSE [user EXCEPT ![op[p].owner] = "kept"]
  BY <1>0
<1> HIDE DEF a, row
<1>5. UsersOK'
  BY <1>4 DEF Tables, UsersOK
<1>6. AcctsOK' /\ \A b \in Accts : acct'[b] # acct[b] => b = a /\ acct'[b] = row
  BY <1>2, <1>3, <1>4 DEF Tables, AcctsOK
<1>7. SitesOK' /\ DomainsOK'
  BY <1>3, <1>4, <1>6, RowsAreThere, SiteParts DEF Tables, SitesOK, DomainsOK
<1>8. acct' = [acct EXCEPT ![a] = row] => acct'[a] = row
  BY <1>2, <1>4 DEF Tables, AcctsOK
<1>9. Tables' /\ \A b \in Accts \ {a} : acct'[b] = acct[b]
  BY <1>5, <1>6, <1>7 DEF Tables
<1>10. \/ acct' = acct /\ user' = user /\ Undo(p)
       \/ /\ acct[a] = NoAcct /\ GoTo(p, "dirs") /\ acct'[a].owner = op[p].owner
          /\ user' = IF op[p].owner = NoOwner THEN user
                     ELSE [user EXCEPT ![op[p].owner] = "kept"]
  BY <1>3, <1>4, <1>8
<1> QED
  BY <1>1, <1>2, <1>4, <1>9, <1>10 DEF a

\* A site is inserted into an account that is there.
LEMMA SiteInserted ==
  ASSUME Tables, OpsOK, NEW p \in Requests, InsertSite(p)
  PROVE  /\ Tables' /\ acct' = acct /\ domain' = domain /\ user' = user
         /\ op[p] \in Call /\ Stepped(p)
         /\ \A s \in Sites : site'[s] # NoSite => site[s] # NoSite \/ s = op[p].site
<1> DEFINE s == op[p].site
           row == [status |-> "provisioning", up |-> FALSE]
<1>1. op[p] \in Call /\ op[p].at = "insert"
  BY RowsAreThere DEF InsertSite, Busy, OpsOK, Ops
<1>2. s \in Sites /\ row \in SiteRow
  <2>1. s \in Sites
    BY <1>1 DEF Call
  <2> QED
    BY <2>1 DEF SiteRow
<1>3. /\ acct' = acct /\ domain' = domain /\ user' = user
      /\ \/ site' = site /\ End(p)
         \/ /\ acct[s[1]] # NoAcct /\ GoTo(p, "prepare")
            /\ site' = [site EXCEPT ![s] = row]
  BY DEF InsertSite
<1>4. Stepped(p)
  BY <1>1, <1>3 DEF Stepped, Flow, Stages
<1> HIDE DEF s, row
<1>5. /\ site' \in [Sites -> {NoSite} \cup SiteRow]
      /\ \A t \in Sites : site'[t] # site[t] => t = s /\ acct[t[1]] # NoAcct /\ site'[t] = row
  BY <1>2, <1>3 DEF Tables, SitesOK
<1>6. AcctsOK' /\ SitesOK' /\ UsersOK'
  BY <1>3, <1>5 DEF Tables, AcctsOK, SitesOK, UsersOK
<1>7. DomainsOK'
  <2>1. \A h \in Hosts : domain[h] # Free => domain[h].site \in Sites
    BY DEF Tables, DomainsOK, DomainRow
  <2> QED
    BY <1>2, <1>3, <1>5, <2>1, RowsAreThere DEF Tables, DomainsOK
<1> QED
  BY <1>1, <1>3, <1>4, <1>5, <1>6, <1>7 DEF Tables, s

\* A domain is inserted for a site that is there.
LEMMA DomainInserted ==
  ASSUME Tables, OpsOK, OpInv, NEW p \in Requests, InsertDomain(p)
  PROVE  /\ Tables' /\ acct' = acct /\ site' = site /\ user' = user
         /\ op[p] \in Call /\ op[p].at = "domain" /\ Stepped(p)
         /\ op[p].kind = "domain" => op'[p] = Idle
         /\ \A h \in Hosts : domain'[h] = domain[h] \/
              /\ h = op[p].host /\ domain'[h].site = op[p].site
              /\ domain'[h].kind = "addon" => op[p].kind = "domain"
<1> DEFINE h == op[p].host
           row == [site |-> op[p].site, to |-> op[p].to,
                   kind |-> IF op[p].kind = "domain" THEN "addon" ELSE "primary"]
<1>1. op[p] \in Call /\ op[p].at = "domain"
  BY RowsAreThere DEF InsertDomain, Busy, OpsOK, Ops
<1>2. h \in Hosts /\ op[p].site \in Sites /\ op[p].to \in Targets \cup {NoHost}
  <2>1. h \in Hosts \cup {NoHost} /\ op[p].site \in Sites /\ op[p].to \in Targets \cup {NoHost}
    BY <1>1 DEF Call
  <2> QED
    BY <1>1, <2>1 DEF OpInv
<1>3. /\ row \in DomainRow /\ row.site = op[p].site
      /\ row.kind = "addon" => op[p].kind = "domain"
  BY <1>2 DEF DomainRow
<1>4. /\ acct' = acct /\ site' = site /\ user' = user
      /\ \/ domain' = domain /\ End(p)
         \/ /\ site[op[p].site] # NoSite
            /\ domain' = [domain EXCEPT ![h] = row]
            /\ IF op[p].kind = "domain" THEN End(p) ELSE GoTo(p, "deploy")
  BY DEF InsertDomain
<1>5. Stepped(p) /\ (op[p].kind = "domain" => op'[p] = Idle)
  <2>1. op[p].kind = "domain" => End(p)
    BY <1>4
  <2>2. End(p) \/ GoTo(p, "deploy")
    BY <1>4
  <2>3. End(p) => op'[p] = Idle
    BY DEF End, OpsOK
  <2> QED
    BY <1>1, <2>1, <2>2, <2>3 DEF Stepped, Flow, Stages
<1> HIDE DEF row
<1>6. /\ domain' \in [Hosts -> {Free} \cup DomainRow]
      /\ \A i \in Hosts : domain'[i] # domain[i] =>
           i = h /\ domain'[i] = row /\ site[op[p].site] # NoSite
  BY <1>2, <1>3, <1>4 DEF Tables, DomainsOK
<1>7. DomainsOK'
  BY <1>3, <1>4, <1>6 DEF Tables, DomainsOK
<1>8. AcctsOK' /\ SitesOK' /\ UsersOK'
  BY <1>4 DEF Tables, AcctsOK, SitesOK, UsersOK
<1> QED
  BY <1>1, <1>3, <1>4, <1>5, <1>6, <1>7, <1>8 DEF Tables

-----------------------------------------------------------------------------
(* The limits.                                                             *)

LEMMA Finite ==
  \A a \in Accts :
    /\ IsFiniteSet(SitesOf(a)) /\ IsFiniteSet(SitesOf(a)')
    /\ IsFiniteSet(AddedTo(a)) /\ IsFiniteSet(AddedTo(a)')
    /\ Inserting(a) \in SUBSET Requests /\ Inserting(a)' \in SUBSET Requests
    /\ Adding(a) \in SUBSET Requests /\ Adding(a)' \in SUBSET Requests
<1>1. IsFiniteSet(Sites)
  BY FiniteAssumption, FS_Product DEF Sites
<1>2. \A a \in Accts : SitesOf(a) \in SUBSET Sites /\ SitesOf(a)' \in SUBSET Sites
  BY DEF SitesOf
<1>3. \A a \in Accts : AddedTo(a) \in SUBSET Hosts /\ AddedTo(a)' \in SUBSET Hosts
  BY DEF AddedTo, DomainsOf
<1>4. \A a \in Accts :
        /\ Inserting(a) \in SUBSET Requests /\ Inserting(a)' \in SUBSET Requests
        /\ Adding(a) \in SUBSET Requests /\ Adding(a)' \in SUBSET Requests
  BY DEF Inserting, Adding
<1> QED
  BY <1>1, <1>2, <1>3, <1>4, FiniteAssumption, FS_Subset

\* Rows and the requests that may add one, under a limit.
Under(rows, asked, max) == Cardinality(rows) + Cardinality(asked) < max + Cardinality(Requests)

LEMMA UnderInv ==
  /\ \A a \in Accts : SitesInv(a) <=> Under(SitesOf(a), Inserting(a), MaxSites)
  /\ \A a \in Accts : DomainsInv(a) <=> Under(AddedTo(a), Adding(a), MaxDomains)
  /\ \A a \in Accts : SitesInv(a)' <=> Under(SitesOf(a)', Inserting(a)', MaxSites)
  /\ \A a \in Accts : DomainsInv(a)' <=> Under(AddedTo(a)', Adding(a)', MaxDomains)
  BY DEF SitesInv, DomainsInv, Under

\* Fewer of both.
LEMMA UnderLess ==
  ASSUME NEW rows, IsFiniteSet(rows), NEW asked \in SUBSET Requests, NEW max \in Nat,
         NEW rows2, NEW asked2, rows2 \subseteq rows, asked2 \subseteq asked,
         Under(rows, asked, max)
  PROVE  Under(rows2, asked2, max)
<1>1. IsFiniteSet(asked)
  BY FiniteAssumption, FS_Subset
<1>2. /\ IsFiniteSet(rows2) /\ Cardinality(rows2) <= Cardinality(rows)
      /\ IsFiniteSet(asked2) /\ Cardinality(asked2) <= Cardinality(asked)
  BY <1>1, FS_Subset
<1>3. /\ Cardinality(rows) \in Nat /\ Cardinality(rows2) \in Nat
      /\ Cardinality(asked) \in Nat /\ Cardinality(asked2) \in Nat
      /\ Cardinality(Requests) \in Nat
  BY <1>1, <1>2, FiniteAssumption, FS_CardinalityType
<1> QED
  BY <1>2, <1>3 DEF Under

\* The request that asked has had its row.
LEMMA UnderUsed ==
  ASSUME NEW rows, IsFiniteSet(rows), NEW asked \in SUBSET Requests, NEW max \in Nat,
         NEW rows2, NEW asked2, NEW p \in asked, NEW x,
         rows2 \subseteq rows \cup {x}, asked2 \subseteq asked \ {p}, Under(rows, asked, max)
  PROVE  Under(rows2, asked2, max)
<1> DEFINE more == rows \cup {x}
           left == asked \ {p}
<1>1. IsFiniteSet(asked)
  BY FiniteAssumption, FS_Subset
<1>2. IsFiniteSet(more) /\ Cardinality(more) <= Cardinality(rows) + 1
  <2>1. /\ IsFiniteSet(more)
        /\ Cardinality(more) = IF x \in rows THEN Cardinality(rows) ELSE Cardinality(rows) + 1
    BY FS_AddElement
  <2>2. Cardinality(rows) \in Nat
    BY FS_CardinalityType
  <2> HIDE DEF more
  <2> QED
    BY <2>1, <2>2
<1>3. IsFiniteSet(left) /\ Cardinality(left) = Cardinality(asked) - 1
  BY <1>1, FS_RemoveElement
<1> HIDE DEF more, left
<1>4. /\ Cardinality(rows) \in Nat /\ Cardinality(more) \in Nat
      /\ Cardinality(asked) \in Nat /\ Cardinality(left) \in Nat /\ Cardinality(Requests) \in Nat
  BY <1>1, <1>2, <1>3, FiniteAssumption, FS_CardinalityType
<1>5. Under(more, left, max)
  BY <1>2, <1>3, <1>4 DEF Under
<1>6. left \in SUBSET Requests /\ rows2 \subseteq more /\ asked2 \subseteq left
  BY DEF left, more
<1> QED
  BY <1>2, <1>5, <1>6, UnderLess

\* A check that passed.
LEMMA UnderChecked ==
  ASSUME NEW rows, IsFiniteSet(rows), NEW asked \in SUBSET Requests, NEW max \in Nat,
         Cardinality(rows) < max
  PROVE  Under(rows, asked, max)
<1>1. IsFiniteSet(asked) /\ Cardinality(asked) <= Cardinality(Requests)
  BY FiniteAssumption, FS_Subset
<1>2. Cardinality(rows) \in Nat /\ Cardinality(asked) \in Nat /\ Cardinality(Requests) \in Nat
  BY <1>1, FiniteAssumption, FS_CardinalityType
<1> QED
  BY <1>1, <1>2 DEF Under

\* No rows yet, and a request that has not asked.
LEMMA UnderEmpty ==
  ASSUME NEW rows, rows = {}, NEW asked \in SUBSET Requests, NEW max \in Nat,
         NEW p \in Requests \ asked
  PROVE  Under(rows, asked, max)
<1>1. IsFiniteSet(asked) /\ Cardinality(asked) < Cardinality(Requests)
  <2>1. IsFiniteSet(Requests \ {p}) /\ Cardinality(Requests \ {p}) = Cardinality(Requests) - 1
    BY FiniteAssumption, FS_RemoveElement
  <2>2. asked \subseteq Requests \ {p}
    OBVIOUS
  <2>3. IsFiniteSet(asked) /\ Cardinality(asked) <= Cardinality(Requests \ {p})
    BY <2>1, <2>2, FS_Subset
  <2>4. Cardinality(asked) \in Nat /\ Cardinality(Requests) \in Nat
    BY <2>3, FiniteAssumption, FS_CardinalityType
  <2> QED
    BY <2>1, <2>3, <2>4
<1>2. Cardinality(rows) = 0 /\ Cardinality(asked) \in Nat /\ Cardinality(Requests) \in Nat
  BY <1>1, FiniteAssumption, FS_CardinalityType, FS_EmptySet
<1> QED
  BY <1>1, <1>2 DEF Under

LEMMA FewerRows ==
  ASSUME Fewer, Tables, Tables', NEW a \in Accts
  PROVE  SitesOf(a)' \subseteq SitesOf(a) /\ AddedTo(a)' \subseteq AddedTo(a)
  BY DEF Fewer, SitesOf, AddedTo, DomainsOf

\* No request has passed a check.
NobodyNew(a) == Inserting(a)' \subseteq Inserting(a) /\ Adding(a)' \subseteq Adding(a)

LEMMA LimitsFewer ==
  ASSUME Fewer, Tables, Tables', LimitsInv, \A a \in Accts : NobodyNew(a)
  PROVE  LimitsInv'
<1> SUFFICES ASSUME NEW a \in Accts, acct'[a] # NoAcct, ~acct'[a].moved
             PROVE  SitesInv(a)' /\ DomainsInv(a)'
  BY DEF LimitsInv
<1>1. SitesInv(a) /\ DomainsInv(a)
  <2>1. acct[a] # NoAcct /\ (acct[a].moved => acct'[a].moved)
    BY DEF Fewer
  <2> QED
    BY <2>1 DEF LimitsInv
<1>2. /\ SitesOf(a)' \subseteq SitesOf(a) /\ Inserting(a)' \subseteq Inserting(a)
      /\ AddedTo(a)' \subseteq AddedTo(a) /\ Adding(a)' \subseteq Adding(a)
  BY FewerRows DEF NobodyNew
<1>3. Under(SitesOf(a)', Inserting(a)', MaxSites)
  BY <1>1, <1>2, Finite, UnderLess, UnderInv, LimitsAssumption
<1>4. Under(AddedTo(a)', Adding(a)', MaxDomains)
  BY <1>1, <1>2, Finite, UnderLess, UnderInv, LimitsAssumption
<1> QED
  BY <1>3, <1>4, UnderInv

\* Requests that go on pass no check but PrepareAccount's.
LEMMA NobodyPasses ==
  ASSUME OpInv, NEW p \in Requests, op[p] \in Call, After(p), op'[p].at # "insert" \/ op[p].at # "dirs",
         NEW a \in Accts
  PROVE  NobodyNew(a)
<1>1. op'[p].at # "insert"
  BY RowsAreThere DEF After, Flow
<1>2. ~(op'[p].kind = "domain" /\ op'[p].at = "domain")
  BY RowsAreThere DEF After, Flow, OpInv
<1> QED
  BY <1>1, <1>2 DEF NobodyNew, Inserting, Adding, After

LEMMA Steps ==
  ASSUME OpsOK, OpInv, NEW p \in Requests,
         \/ CreateOwner(p) \/ InsertAccount(p) \/ PrepareAccount(p) \/ DropAccount(p)
         \/ DropOwner(p) \/ PrepareSite(p) \/ Deploy(p) \/ Abandon(p)
  PROVE  Stepped(p)
<1>1. op[p] \in Call
  <2>1. op[p] # Idle
    BY RowsAreThere
       DEF CreateOwner, InsertAccount, PrepareAccount, DropAccount, DropOwner, PrepareSite,
           Deploy, Abandon, Busy
  <2> QED
    BY <2>1 DEF OpsOK, Ops
<1>2. CASE CreateOwner(p)
  <2>1. op[p].at = "owner" /\ (GoTo(p, "account") \/ End(p))
    BY <1>2 DEF CreateOwner, Busy
  <2> QED
    BY <1>1, <2>1 DEF Stepped, Flow, Stages
<1>3. CASE InsertAccount(p)
  <2>1. op[p].at = "account" /\ (GoTo(p, "dirs") \/ Undo(p))
    BY <1>3 DEF InsertAccount, Busy
  <2> QED
    BY <1>1, <2>1 DEF Stepped, Flow, Stages, Undo
<1>4. CASE PrepareAccount(p)
  <2>1. op[p].at = "dirs" /\ (GoTo(p, "dropaccount") \/ GoTo(p, "insert") \/ End(p))
    BY <1>4 DEF PrepareAccount, Busy
  <2> QED
    BY <1>1, <2>1 DEF Stepped, Flow, Stages
<1>5. CASE DropAccount(p)
  <2>1. op[p].at = "dropaccount" /\ Undo(p)
    BY <1>5 DEF DropAccount, Busy
  <2> QED
    BY <1>1, <2>1 DEF Stepped, Flow, Stages, Undo
<1>6. CASE DropOwner(p) \/ Deploy(p) \/ Abandon(p)
  BY <1>1, <1>6 DEF DropOwner, Deploy, Abandon, Stepped
<1>7. CASE PrepareSite(p)
  <2>1. /\ op[p].at = "prepare"
        /\ \/ End(p)
           \/ op[p].host = NoHost /\ GoTo(p, "deploy")
           \/ op[p].host # NoHost /\ GoTo(p, "domain")
    BY <1>7 DEF PrepareSite, Busy
  <2> QED
    BY <1>1, <2>1 DEF Stepped, Flow, Stages
<1> QED
  BY <1>2, <1>3, <1>4, <1>5, <1>6, <1>7

\* A request that has just passed the check of sites.
LEMMA SitesChecked ==
  ASSUME Fewer, Tables, Tables', LimitsInv, NEW b \in Accts, WithinSites(b),
         UNCHANGED <<acct, site, domain>>,
         \A a \in Accts \ {b} : NobodyNew(a), Adding(b)' \subseteq Adding(b)
  PROVE  LimitsInv'
<1> SUFFICES ASSUME NEW a \in Accts, acct'[a] # NoAcct, ~acct'[a].moved
             PROVE  SitesInv(a)' /\ DomainsInv(a)'
  BY DEF LimitsInv
<1>1. SitesInv(a) /\ DomainsInv(a)
  BY DEF LimitsInv
<1>2. SitesOf(a)' \subseteq SitesOf(a) /\ AddedTo(a)' \subseteq AddedTo(a)
  BY FewerRows
<1>3. DomainsInv(a)'
  <2>1. Adding(a)' \subseteq Adding(a)
    BY DEF NobodyNew
  <2> QED
    BY <1>1, <1>2, <2>1, Finite, UnderLess, UnderInv, LimitsAssumption
<1>4. SitesInv(a)'
  <2>1. CASE a = b
    <3>1. Cardinality(SitesOf(a)) < MaxSites /\ SitesOf(a)' = SitesOf(a)
      BY <2>1 DEF WithinSites, SitesOf
    <3> QED
      BY <3>1, Finite, UnderChecked, UnderInv, LimitsAssumption
  <2>2. CASE a # b
    <3>1. Inserting(a)' \subseteq Inserting(a)
      BY <2>2 DEF NobodyNew
    <3> QED
      BY <1>1, <1>2, <3>1, Finite, UnderLess, UnderInv, LimitsAssumption
  <2> QED
    BY <2>1, <2>2
<1> QED
  BY <1>3, <1>4

LEMMA DomainsChecked ==
  ASSUME Fewer, Tables, Tables', LimitsInv, NEW b \in Accts, WithinDomains(b),
         UNCHANGED <<acct, site, domain>>,
         \A a \in Accts \ {b} : NobodyNew(a), Inserting(b)' \subseteq Inserting(b)
  PROVE  LimitsInv'
<1> SUFFICES ASSUME NEW a \in Accts, acct'[a] # NoAcct, ~acct'[a].moved
             PROVE  SitesInv(a)' /\ DomainsInv(a)'
  BY DEF LimitsInv
<1>1. SitesInv(a) /\ DomainsInv(a)
  BY DEF LimitsInv
<1>2. SitesOf(a)' \subseteq SitesOf(a) /\ AddedTo(a)' \subseteq AddedTo(a)
  BY FewerRows
<1>3. SitesInv(a)'
  <2>1. Inserting(a)' \subseteq Inserting(a)
    BY DEF NobodyNew
  <2> QED
    BY <1>1, <1>2, <2>1, Finite, UnderLess, UnderInv, LimitsAssumption
<1>4. DomainsInv(a)'
  <2>1. CASE a = b
    <3>1. Cardinality(DomainsOf(a)) < MaxDomains /\ AddedTo(a)' = AddedTo(a)
      BY <2>1 DEF WithinDomains, AddedTo, DomainsOf
    <3>2. IsFiniteSet(DomainsOf(a)) /\ AddedTo(a) \subseteq DomainsOf(a)
      <4>1. DomainsOf(a) \subseteq Hosts /\ AddedTo(a) \subseteq DomainsOf(a)
        BY DEF DomainsOf, AddedTo
      <4> QED
        BY <4>1, FiniteAssumption, FS_Subset
    <3>3. Cardinality(AddedTo(a)) <= Cardinality(DomainsOf(a))
      BY <3>2, FS_Subset
    <3>4. Cardinality(AddedTo(a)) < MaxDomains
      <4>1. Cardinality(AddedTo(a)) \in Nat /\ Cardinality(DomainsOf(a)) \in Nat
        BY <3>2, Finite, FS_CardinalityType
      <4> QED
        BY <3>1, <3>3, <4>1, LimitsAssumption
    <3> QED
      BY <3>1, <3>4, Finite, UnderChecked, UnderInv, LimitsAssumption
  <2>2. CASE a # b
    <3>1. Adding(a)' \subseteq Adding(a)
      BY <2>2 DEF NobodyNew
    <3> QED
      BY <1>1, <1>2, <3>1, Finite, UnderLess, UnderInv, LimitsAssumption
  <2> QED
    BY <2>1, <2>2
<1> QED
  BY <1>3, <1>4

\* The calls pass the checks of CreateSite and AddDomain, if they do.
LEMMA LimitsCall ==
  ASSUME Tables, OpsOK, OpInv, LimitsInv, NEW p \in Requests, NEW h \in Hosts \cup {NoHost},
         \/ \E a \in Accts, o \in Owners \cup {NoOwner} : CallCreateAccount(p, a, o, h)
         \/ \E s \in Sites : CallCreateSite(p, s, h)
         \/ \E s \in Sites, to \in Targets \cup {NoHost} : h # NoHost /\ CallAddDomain(p, s, h, to)
  PROVE  LimitsInv' /\ Tables' /\ OpsOK' /\ OpInv' /\ Fewer
<1>1. OpsOK' /\ OpInv' /\ UNCHANGED <<user, acct, site, domain>>
  BY Calls DEF CallCreateAccount, CallCreateSite, CallAddDomain, Called
<1>2. Tables' /\ Fewer
  BY <1>1, TablesUnchanged DEF Tables, UsersOK
<1>3. ASSUME NEW a \in Accts, NEW o \in Owners \cup {NoOwner}, CallCreateAccount(p, a, o, h)
      PROVE  LimitsInv'
  <2>1. /\ op'[p].at \in {"owner", "account"} /\ \A q \in Requests \ {p} : op'[q] = op[q]
    BY <1>3, Calls
  <2>2. \A b \in Accts : NobodyNew(b)
    BY <2>1 DEF NobodyNew, Inserting, Adding
  <2> QED
    BY <1>2, <2>2, LimitsFewer
<1>4. ASSUME NEW s \in Sites, CallCreateSite(p, s, h)
      PROVE  LimitsInv'
  <2>1. /\ op'[p].at = "insert" /\ op'[p].site = s /\ \A q \in Requests \ {p} : op'[q] = op[q]
    BY <1>4, Calls
  <2>2. /\ \A b \in Accts \ {s[1]} : NobodyNew(b)
        /\ Adding(s[1])' \subseteq Adding(s[1])
    BY <2>1 DEF NobodyNew, Inserting, Adding
  <2>3. s[1] \in Accts /\ WithinSites(s[1])
    BY <1>4, SiteParts DEF CallCreateSite
  <2> QED
    BY <1>1, <1>2, <2>2, <2>3, SitesChecked
<1>5. ASSUME NEW s \in Sites, NEW to \in Targets \cup {NoHost}, h # NoHost,
             CallAddDomain(p, s, h, to)
      PROVE  LimitsInv'
  <2>1. /\ op'[p].at = "domain" /\ op'[p].site = s /\ \A q \in Requests \ {p} : op'[q] = op[q]
    BY <1>5, Calls
  <2>2. /\ \A b \in Accts \ {s[1]} : NobodyNew(b)
        /\ Inserting(s[1])' \subseteq Inserting(s[1])
    BY <2>1 DEF NobodyNew, Inserting, Adding
  <2>3. s[1] \in Accts /\ WithinDomains(s[1])
    BY <1>5, SiteParts DEF CallAddDomain
  <2> QED
    BY <1>1, <1>2, <2>2, <2>3, DomainsChecked
<1> QED
  BY <1>1, <1>2, <1>3, <1>4, <1>5

LEMMA LimitsRequest ==
  ASSUME Tables, OpsOK, OpInv, LimitsInv, NEW p \in Requests,
         \/ CreateOwner(p) \/ PrepareAccount(p) \/ DropAccount(p) \/ DropOwner(p)
         \/ PrepareSite(p) \/ Deploy(p) \/ Abandon(p)
  PROVE  LimitsInv' /\ Tables' /\ OpsOK' /\ OpInv' /\ Fewer /\ op[p] \in Call /\ After(p)
<1>1. Stepped(p)
  BY Steps
<1>2. OpsOK' /\ OpInv' /\ After(p) /\ op[p] \in Call
  BY <1>1, SteppedOp DEF Stepped
<1>3. Tables' /\ Fewer
  BY RequestChanges
<1>4. CASE op'[p].at # "insert" \/ op[p].at # "dirs"
  BY <1>2, <1>3, <1>4, NobodyPasses, LimitsFewer
<1>5. CASE op'[p].at = "insert" /\ op[p].at = "dirs"
  <2>1. PICK b \in Accts : b = op[p].site[1]
    BY <1>2, RowsAreThere, SiteParts
  <2>2. ~Abandon(p) /\ ~End(p)
    BY <1>2, <1>5, RowsAreThere DEF Abandon, End, OpsOK
  <2>3. PrepareAccount(p)
    BY <1>5, <2>2 DEF CreateOwner, DropAccount, DropOwner, PrepareSite, Deploy, Busy
  <2>4. WithinSites(b) /\ UNCHANGED <<acct, site, domain>>
    <3>1. GoTo(p, "dropaccount") => op'[p].at = "dropaccount"
      BY <1>2 DEF GoTo, OpsOK, Call
    <3> QED
      BY <1>5, <2>1, <2>2, <2>3, <3>1 DEF PrepareAccount
  <2>5. op'[p].site = op[p].site /\ \A q \in Requests \ {p} : op'[q] = op[q]
    BY <1>2, <1>5, RowsAreThere DEF After
  <2>6. /\ \A a \in Accts \ {b} : NobodyNew(a)
        /\ Adding(b)' \subseteq Adding(b)
    BY <1>5, <2>1, <2>5 DEF NobodyNew, Inserting, Adding
  <2>7. LimitsInv'
    BY <1>3, <2>1, <2>4, <2>6, SitesChecked
  <2> QED
    BY <1>2, <1>3, <2>7
<1> QED
  BY <1>2, <1>3, <1>4, <1>5

LEMMA LimitsAccount ==
  ASSUME Tables, OpsOK, OpInv, LimitsInv, NEW p \in Requests, InsertAccount(p)
  PROVE  LimitsInv' /\ Tables' /\ OpsOK' /\ OpInv' /\ op[p] \in Call /\ After(p)
<1> DEFINE b == op[p].site[1]
<1>1. Stepped(p)
  BY Steps
<1>2. OpsOK' /\ OpInv' /\ After(p) /\ op[p] \in Call
  BY <1>1, SteppedOp DEF Stepped
<1>3. /\ Tables' /\ site' = site /\ domain' = domain /\ b \in Accts
      /\ \A a \in Accts \ {b} : acct'[a] = acct[a]
      /\ acct' = acct \/ acct[b] = NoAcct
  BY AccountInserted
<1>4. op[p].at = "account"
  BY DEF InsertAccount, Busy
<1>5. \A a \in Accts : NobodyNew(a)
  BY <1>2, <1>4, NobodyPasses
<1> HIDE DEF b
<1>6. CASE acct' = acct
  <2>1. Fewer
    BY <1>3, <1>6 DEF Fewer
  <2> QED
    BY <1>2, <1>3, <1>5, <2>1, LimitsFewer
<1>7. CASE acct[b] = NoAcct
  <2> SUFFICES ASSUME NEW a \in Accts, acct'[a] # NoAcct, ~acct'[a].moved
               PROVE  SitesInv(a)' /\ DomainsInv(a)'
    BY <1>2, <1>3 DEF LimitsInv
  <2>1. SitesOf(a)' = SitesOf(a) /\ AddedTo(a)' = AddedTo(a)
    BY <1>3 DEF SitesOf, AddedTo, DomainsOf
  <2>2. CASE a # b
    <3>1. SitesInv(a) /\ DomainsInv(a)
      BY <1>3, <2>2 DEF LimitsInv
    <3> QED
      BY <1>5, <2>1, <3>1, Finite, UnderLess, UnderInv, LimitsAssumption DEF NobodyNew
  <2>3. CASE a = b
    <3>1. SitesOf(a) = {} /\ AddedTo(a) = {}
      <4>1. SitesOf(a) = {}
        BY <1>7, <2>3 DEF SitesOf, Tables, SitesOK
      <4>2. \A h \in Hosts : domain[h] # Free => domain[h].site \in Sites /\ domain[h].site[1] # a
        BY <1>7, <2>3 DEF Tables, SitesOK, DomainsOK, DomainRow
      <4> QED
        BY <4>1, <4>2 DEF AddedTo, DomainsOf
    <3>2. p \notin Inserting(a)' /\ p \notin Adding(a)'
      BY <1>4, <1>5 DEF NobodyNew, Inserting, Adding
    <3> QED
      BY <2>1, <3>1, <3>2, Finite, UnderEmpty, UnderInv, LimitsAssumption
  <2> QED
    BY <2>2, <2>3
<1> QED
  BY <1>2, <1>3, <1>6, <1>7

LEMMA LimitsSite ==
  ASSUME Tables, OpsOK, OpInv, LimitsInv, NEW p \in Requests, InsertSite(p)
  PROVE  LimitsInv' /\ Tables' /\ OpsOK' /\ OpInv' /\ op[p] \in Call /\ After(p)
<1> DEFINE b == op[p].site[1]
<1>1. /\ Tables' /\ acct' = acct /\ domain' = domain /\ op[p] \in Call /\ Stepped(p)
      /\ \A s \in Sites : site'[s] # NoSite => site[s] # NoSite \/ s = op[p].site
  BY SiteInserted
<1>2. OpsOK' /\ OpInv' /\ After(p)
  BY <1>1, SteppedOp
<1>3. op[p].at = "insert" /\ b \in Accts
  BY <1>1, RowsAreThere, SiteParts DEF InsertSite, Busy
<1>4. \A a \in Accts : NobodyNew(a)
  BY <1>1, <1>2, <1>3, NobodyPasses
<1>5. LimitsInv'
  <2> SUFFICES ASSUME NEW a \in Accts, acct'[a] # NoAcct, ~acct'[a].moved
               PROVE  SitesInv(a)' /\ DomainsInv(a)'
    BY DEF LimitsInv
  <2>1. SitesInv(a) /\ DomainsInv(a) /\ AddedTo(a)' = AddedTo(a)
    BY <1>1 DEF LimitsInv, AddedTo, DomainsOf
  <2>2. DomainsInv(a)'
    BY <1>4, <2>1, Finite, UnderLess, UnderInv, LimitsAssumption DEF NobodyNew
  <2>3. CASE a # b
    <3>1. SitesOf(a)' \subseteq SitesOf(a)
      BY <1>1, <2>3 DEF SitesOf
    <3> QED
      BY <1>4, <2>1, <2>2, <3>1, Finite, UnderLess, UnderInv, LimitsAssumption DEF NobodyNew
  <2>4. CASE a = b
    <3>1. SitesOf(a)' \subseteq SitesOf(a) \cup {op[p].site}
      BY <1>1 DEF SitesOf
    <3>2. p \in Inserting(a) /\ Inserting(a)' \subseteq Inserting(a) \ {p}
      <4>1. p \in Inserting(a)
        BY <1>3, <2>4 DEF Inserting
      <4>2. op'[p].at # "insert"
        BY <1>2, <1>3, RowsAreThere DEF After, Flow
      <4>3. Inserting(a)' \subseteq Inserting(a)
        BY <1>4 DEF NobodyNew
      <4>4. p \notin Inserting(a)'
        BY <4>2 DEF Inserting
      <4> QED
        BY <4>1, <4>3, <4>4
    <3>3. Under(SitesOf(a)', Inserting(a)', MaxSites)
      BY <2>1, <3>1, <3>2, Finite, UnderUsed, UnderInv, LimitsAssumption
    <3> QED
      BY <2>2, <3>3, UnderInv
  <2> QED
    BY <2>3, <2>4
<1> QED
  BY <1>1, <1>2, <1>5

LEMMA LimitsDomain ==
  ASSUME Tables, OpsOK, OpInv, LimitsInv, NEW p \in Requests, InsertDomain(p)
  PROVE  LimitsInv' /\ Tables' /\ OpsOK' /\ OpInv' /\ op[p] \in Call /\ After(p)
<1> DEFINE b == op[p].site[1]
<1>1. /\ Tables' /\ acct' = acct /\ site' = site /\ op[p] \in Call /\ Stepped(p)
      /\ op[p].at = "domain" /\ (op[p].kind = "domain" => op'[p] = Idle)
      /\ \A h \in Hosts : domain'[h] = domain[h] \/
            /\ h = op[p].host /\ domain'[h].site = op[p].site
            /\ domain'[h].kind = "addon" => op[p].kind = "domain"
  BY DomainInserted
<1>2. OpsOK' /\ OpInv' /\ After(p) /\ b \in Accts
  BY <1>1, SteppedOp, RowsAreThere, SiteParts
<1>4. \A a \in Accts : NobodyNew(a)
  BY <1>1, <1>2, NobodyPasses
<1>5. LimitsInv'
  <2> SUFFICES ASSUME NEW a \in Accts, acct'[a] # NoAcct, ~acct'[a].moved
               PROVE  SitesInv(a)' /\ DomainsInv(a)'
    BY DEF LimitsInv
  <2>1. SitesInv(a) /\ DomainsInv(a) /\ SitesOf(a)' = SitesOf(a)
    BY <1>1 DEF LimitsInv, SitesOf
  <2>2. SitesInv(a)'
    BY <1>4, <2>1, Finite, UnderLess, UnderInv, LimitsAssumption DEF NobodyNew
  <2>3. CASE a # b \/ op[p].kind # "domain"
    <3>1. AddedTo(a)' \subseteq AddedTo(a)
      BY <1>1, <2>3 DEF AddedTo, DomainsOf
    <3> QED
      BY <1>4, <2>1, <2>2, <3>1, Finite, UnderLess, UnderInv, LimitsAssumption DEF NobodyNew
  <2>4. CASE a = b /\ op[p].kind = "domain"
    <3>1. AddedTo(a)' \subseteq AddedTo(a) \cup {op[p].host}
      BY <1>1 DEF AddedTo, DomainsOf
    <3>2. p \in Adding(a) /\ Adding(a)' \subseteq Adding(a) \ {p}
      <4>1. p \in Adding(a)
        BY <1>1, <2>4 DEF Adding
      <4>2. op'[p].at = "idle"
        BY <1>1, <2>4, RowsAreThere
      <4>3. Adding(a)' \subseteq Adding(a)
        BY <1>4 DEF NobodyNew
      <4>4. p \notin Adding(a)'
        BY <4>2 DEF Adding
      <4> QED
        BY <4>1, <4>3, <4>4
    <3>3. Under(AddedTo(a)', Adding(a)', MaxDomains)
      BY <2>1, <3>1, <3>2, Finite, UnderUsed, UnderInv, LimitsAssumption
    <3> QED
      BY <2>2, <3>3, UnderInv
  <2> QED
    BY <2>3, <2>4
<1> QED
  BY <1>1, <1>2, <1>5

-----------------------------------------------------------------------------
(* The owners of accounts that are being created.                          *)

\* The three parts of OwnersInv.
OneEach == \A p, q \in Requests : Past(p) /\ Past(q) /\ op[p].owner = op[q].owner => p = q
Answers(p) ==
  /\ user[op[p].owner] # "none"
  /\ op[p].at \in {"account", "dropowner"} => user[op[p].owner] = "pending"
  /\ op[p].at \in {"dirs", "dropaccount"} =>
       \A a \in Accts : acct[a] # NoAcct /\ acct[a].owner = op[p].owner => a = op[p].site[1]
Waited(o) ==
  user[o] = "pending" =>
    \E p \in Requests : Past(p) /\ op[p].owner = o /\ op[p].at \in {"account", "dropowner"}
Kept(a) == acct[a] # NoAcct /\ acct[a].owner # NoOwner => user[acct[a].owner] = "kept"
Owned ==
  /\ OneEach
  /\ \A p \in Requests : Past(p) => Answers(p)
  /\ \A o \in Owners : Waited(o)
  /\ \A a \in Accts : Kept(a)

LEMMA OwnedInv == OwnersInv <=> (faults = 0 => Owned)
  BY DEF OwnersInv, Owned, OneEach, Answers, Waited, Kept

LEMMA OwnedInvNext == OwnersInv' <=> (faults' = 0 => Owned')
  BY DEF OwnersInv, Owned, OneEach, Answers, Waited, Kept

\* Requests that do not make or drop an owner or an account keep what the
\* others rely on.
Goes(p) ==
  Past(p)' =>
    /\ Past(p) /\ op'[p].owner = op[p].owner /\ op'[p].site = op[p].site
    /\ op'[p].at \in {"account", "dropowner"} => op'[p].at = op[p].at
    /\ op'[p].at \in {"dirs", "dropaccount"} => op[p].at \in {"dirs", "dropaccount"}
Stays(p) == Past(p) /\ op[p].at \in {"account", "dropowner"} => op'[p] = op[p]

\* Accounts that are there were there, and their owners'.
Inherited ==
  \A a \in Accts : acct'[a] # NoAcct => acct[a] # NoAcct /\ acct'[a].owner = acct[a].owner

LEMMA FewerInherited == Fewer => Inherited
  BY DEF Fewer, Inherited

LEMMA OwnersFewer ==
  ASSUME Owned, Inherited, user' = user, \A p \in Requests : Goes(p) /\ Stays(p)
  PROVE  Owned'
<1>1. OneEach'
  BY DEF Owned, OneEach, Goes
<1>2. ASSUME NEW p \in Requests, Past(p)' PROVE Answers(p)'
  <2>1. /\ Past(p) /\ op'[p].owner = op[p].owner /\ op'[p].site = op[p].site
        /\ op'[p].at \in {"account", "dropowner"} => op'[p].at = op[p].at
        /\ op'[p].at \in {"dirs", "dropaccount"} => op[p].at \in {"dirs", "dropaccount"}
    BY <1>2 DEF Goes
  <2>2. Answers(p)
    BY <2>1 DEF Owned
  <2> QED
    BY <2>1, <2>2 DEF Answers, Inherited
<1>3. ASSUME NEW o \in Owners PROVE Waited(o)'
  <2> SUFFICES ASSUME user[o] = "pending"
               PROVE  \E p \in Requests : Past(p)' /\ op'[p].owner = o
                                          /\ op'[p].at \in {"account", "dropowner"}
    BY DEF Waited
  <2>1. PICK p \in Requests : Past(p) /\ op[p].owner = o /\ op[p].at \in {"account", "dropowner"}
    BY DEF Owned, Waited
  <2>2. op'[p] = op[p]
    BY <2>1 DEF Stays
  <2> QED
    BY <2>1, <2>2 DEF Past
<1>4. ASSUME NEW a \in Accts PROVE Kept(a)'
  BY DEF Owned, Kept, Inherited
<1> QED
  BY <1>1, <1>2, <1>3, <1>4 DEF Owned

\* Requests with an owner's name have a name.
LEMMA PastOwner ==
  ASSUME OpsOK, NEW p \in Requests, Past(p)
  PROVE  op[p] \in Call /\ op[p].owner \in Owners /\ op[p].at \in Stages \ {"owner"}
<1>1. op[p] \in Call
  BY RowsAreThere DEF Past, OpsOK, Ops
<1> QED
  BY <1>1 DEF Past, Call

LEMMA OwnersCall ==
  ASSUME OpsOK, OpInv, Owned, Fewer, NEW p \in Requests, NEW h \in Hosts \cup {NoHost},
         \/ \E a \in Accts, o \in Owners \cup {NoOwner} : CallCreateAccount(p, a, o, h)
         \/ \E s \in Sites : CallCreateSite(p, s, h)
         \/ \E s \in Sites, to \in Targets \cup {NoHost} : h # NoHost /\ CallAddDomain(p, s, h, to)
  PROVE  Owned'
<1>1. /\ op[p] = Idle /\ \A q \in Requests \ {p} : op'[q] = op[q]
      /\ op'[p].kind = "account" /\ op'[p].at # "owner" => op'[p].owner = NoOwner
  BY Calls
<1>2. user' = user
  BY DEF CallCreateAccount, CallCreateSite, CallAddDomain, Called
<1>3. \A q \in Requests : Goes(q) /\ Stays(q)
  BY <1>1, RowsAreThere DEF Goes, Stays, Past
<1> QED
  BY <1>2, <1>3, FewerInherited, OwnersFewer

LEMMA OwnersRequest ==
  ASSUME OpsOK, OpInv, Owned, Inherited, NEW p \in Requests, op[p] \in Call, After(p),
         \/ PrepareAccount(p) \/ InsertSite(p) \/ PrepareSite(p) \/ InsertDomain(p) \/ Deploy(p)
  PROVE  Owned'
<1>1. op[p].at \in {"dirs", "insert", "prepare", "domain", "deploy"} /\ user' = user
  BY DEF PrepareAccount, InsertSite, PrepareSite, InsertDomain, Deploy, Busy
<1>2. /\ \A q \in Requests \ {p} : op'[q] = op[q]
      /\ \/ op'[p] = Idle
         \/ /\ op'[p].kind = op[p].kind /\ op'[p].site = op[p].site
            /\ op'[p].owner = op[p].owner /\ <<op[p].at, op'[p].at>> \in Flow
  BY DEF After
<1>3. op'[p] = Idle \/ op'[p].at \in {"dropaccount", "insert", "prepare", "domain", "deploy"}
  BY <1>1, <1>2 DEF Flow
<1>4. Goes(p) /\ Stays(p)
  <2>1. CASE op'[p] = Idle
    BY <1>1, <2>1, RowsAreThere DEF Goes, Stays, Past
  <2>2. CASE op'[p] # Idle
    <3>1. op'[p].at = "dropaccount" => op[p].at = "dirs"
      BY <1>1, <1>2, <2>2 DEF Flow
    <3> QED
      BY <1>1, <1>2, <1>3, <2>2, <3>1 DEF Goes, Stays, Past
  <2> QED
    BY <2>1, <2>2
<1>5. \A q \in Requests : Goes(q) /\ Stays(q)
  BY <1>2, <1>4 DEF Goes, Stays, Past
<1> QED
  BY <1>1, <1>5, OwnersFewer

\* A request under way for an owner, and the others.
LEMMA OthersOwned ==
  ASSUME OpsOK, Owned, NEW p \in Requests, Past(p)
  PROVE  /\ op[p].owner \in Owners /\ op[p].owner # NoOwner /\ Answers(p)
         /\ \A q \in Requests \ {p} : Past(q) => op[q].owner # op[p].owner
         /\ \A q \in Requests : Past(q) => op[q].owner \in Owners /\ Answers(q)
         /\ \A a \in Accts : acct[a] # NoAcct /\ acct[a].owner # NoOwner =>
              user[acct[a].owner] = "kept"
  BY PastOwner DEF Owned, OneEach, Past, Kept

\* Nobody has been working for a name that is free.
LEMMA OwnersCreate ==
  ASSUME Tables, OpsOK, OpInv, Owned, CountersOK, Fewer, NEW p \in Requests, op[p] \in Call,
         After(p), CreateOwner(p), faults' = 0
  PROVE  Owned'
<1> DEFINE o == op[p].owner
<1>1. /\ op[p].at = "owner" /\ acct' = acct
      /\ user' = [user EXCEPT ![o] = IF @ = "none" THEN "pending" ELSE @]
      /\ IF user[o] = "none" THEN GoTo(p, "account") ELSE End(p)
  <2>1. ~Fault
    BY LimitsAssumption DEF Fault, CountersOK
  <2> QED
    BY <2>1 DEF CreateOwner, Busy
<1>2. o \in Owners /\ op[p].kind = "account" /\ o # NoOwner /\ ~Past(p)
  <2>1. o \in Owners \cup {NoOwner}
    BY DEF Call
  <2> QED
    BY <1>1, <2>1 DEF OpInv, Past
<1>3. \A q \in Requests \ {p} : op'[q] = op[q]
  BY DEF After
<1>4. CASE user[o] # "none"
  <2>1. user' = user /\ op'[p] = Idle
    BY <1>1, <1>4 DEF End, OpsOK, Tables, UsersOK
  <2>2. \A q \in Requests : Goes(q) /\ Stays(q)
    BY <1>2, <1>3, <2>1, RowsAreThere DEF Goes, Stays, Past
  <2> QED
    BY <2>1, <2>2, FewerInherited, OwnersFewer
<1>5. CASE user[o] = "none"
  <2>1. /\ user' \in [Owners -> {"none", "pending", "kept"}] /\ user'[o] = "pending"
        /\ \A x \in Owners \ {o} : user'[x] = user[x]
    BY <1>1, <1>2, <1>5 DEF Tables, UsersOK
  <2>2. op'[p].at = "account" /\ op'[p].kind = "account" /\ op'[p].owner = o
    <3>1. op'[p].at = "account"
      BY <1>1, <1>5 DEF GoTo, OpsOK, Call
    <3> QED
      BY <1>2, <3>1, RowsAreThere DEF After
  <2>3. Past(p)'
    BY <1>2, <2>2 DEF Past
  <2>4. \A q \in Requests \ {p} : Past(q)' <=> Past(q)
    BY <1>3 DEF Past
  <2>5. \A q \in Requests : Past(q) => op[q].owner \in Owners \ {o} /\ Answers(q)
    BY <1>5, PastOwner DEF Owned, Answers
  <2>6. OneEach'
    BY <1>3, <2>2, <2>4, <2>5 DEF OneEach, Owned
  <2>7. \A q \in Requests : Past(q)' => Answers(q)'
    <3>1. Answers(p)'
      BY <2>1, <2>2 DEF Answers
    <3>2. ASSUME NEW q \in Requests \ {p}, Past(q)' PROVE Answers(q)'
      <4>1. op[q].owner \in Owners \ {o} /\ Answers(q) /\ op'[q] = op[q]
        BY <1>3, <2>4, <2>5, <3>2
      <4>2. user'[op[q].owner] = user[op[q].owner]
        BY <2>1, <4>1
      <4> QED
        BY <1>1, <4>1, <4>2 DEF Answers
    <3> QED
      BY <3>1, <3>2
  <2>8. \A x \in Owners : Waited(x)'
    <3>1. ASSUME NEW x \in Owners, x = o
          PROVE  \E q \in Requests : Past(q)' /\ op'[q].owner = x
                                     /\ op'[q].at \in {"account", "dropowner"}
      BY <2>2, <2>3, <3>1
    <3>2. ASSUME NEW x \in Owners \ {o}, user[x] = "pending"
          PROVE  \E q \in Requests : Past(q)' /\ op'[q].owner = x
                                     /\ op'[q].at \in {"account", "dropowner"}
      <4>1. PICK q \in Requests : Past(q) /\ op[q].owner = x /\ op[q].at \in {"account", "dropowner"}
        BY <3>2 DEF Owned, Waited
      <4> QED
        BY <1>2, <1>3, <2>4, <4>1
    <3> QED
      BY <2>1, <3>1, <3>2 DEF Waited
  <2>9. \A a \in Accts : Kept(a)'
    <3> SUFFICES ASSUME NEW a \in Accts, acct[a] # NoAcct, acct[a].owner # NoOwner
                 PROVE  user'[acct[a].owner] = "kept"
      BY <1>1 DEF Kept
    <3>1. acct[a].owner \in Owners /\ user[acct[a].owner] = "kept"
      BY DEF Owned, Kept, Tables, AcctsOK, AcctRow
    <3>2. acct[a].owner # o
      BY <1>5, <3>1
    <3> QED
      BY <2>1, <3>1, <3>2
  <2> QED
    BY <2>6, <2>7, <2>8, <2>9 DEF Owned
<1> QED
  BY <1>4, <1>5

\* One request gives the user away: to the account, or to the next stage of
\* its own.
LEMMA OwnersNext ==
  ASSUME Tables, OpsOK, Owned, NEW p \in Requests, op[p] \in Call, Past(p), After(p),
         op'[p].kind = "account", op'[p].owner = op[p].owner, op'[p].site = op[p].site,
         op'[p].at \in {"dropowner", "dirs"},
         NEW value \in {"pending", "kept"},
         value = "pending" <=> op'[p].at = "dropowner",
         user' = [user EXCEPT ![op[p].owner] = value],
         \A a \in Accts \ {op[p].site[1]} : acct'[a] = acct[a],
         value = "kept" => acct'[op[p].site[1]].owner = op[p].owner,
         value = "pending" => acct'[op[p].site[1]] \in {acct[op[p].site[1]], NoAcct},
         \A a \in Accts : acct'[a] # NoAcct /\ acct'[a].owner = op[p].owner =>
           value = "kept" /\ a = op[p].site[1]
  PROVE  Owned'
<1> DEFINE o == op[p].owner
           b == op[p].site[1]
<1>1. \A q \in Requests \ {p} : op'[q] = op[q]
  BY DEF After
<1>2. Past(p)' /\ \A q \in Requests \ {p} : Past(q)' <=> Past(q)
  BY <1>1 DEF Past
<1>3. /\ o \in Owners /\ o # NoOwner
      /\ \A q \in Requests \ {p} : Past(q) => op[q].owner \in Owners \ {o} /\ Answers(q)
  BY OthersOwned
<1>4. /\ user'[o] = value /\ \A x \in Owners \ {o} : user'[x] = user[x]
  BY <1>3 DEF Tables, UsersOK
<1>5. OneEach'
  BY <1>1, <1>2, <1>3 DEF OneEach, Owned
<1>6. \A q \in Requests : Past(q)' => Answers(q)'
  <2>1. Answers(p)'
    BY <1>4 DEF Answers
  <2>2. ASSUME NEW q \in Requests \ {p}, Past(q)' PROVE Answers(q)'
    <3>1. op[q].owner \in Owners \ {o} /\ Answers(q) /\ op'[q] = op[q]
      BY <1>1, <1>2, <1>3, <2>2
    <3>2. user'[op[q].owner] = user[op[q].owner]
      BY <1>4, <3>1
    <3>3. \A a \in Accts : acct'[a] # NoAcct /\ acct'[a].owner = op[q].owner =>
            acct[a] # NoAcct /\ acct[a].owner = op[q].owner
      BY <3>1
    <3> QED
      BY <3>1, <3>2, <3>3 DEF Answers
  <2> QED
    BY <2>1, <2>2
<1>7. \A x \in Owners : Waited(x)'
  <2>1. Waited(o)'
    BY <1>2, <1>4 DEF Waited
  <2>2. ASSUME NEW x \in Owners \ {o}, user[x] = "pending"
        PROVE  \E q \in Requests : Past(q)' /\ op'[q].owner = x
                                   /\ op'[q].at \in {"account", "dropowner"}
    <3>1. PICK q \in Requests : Past(q) /\ op[q].owner = x /\ op[q].at \in {"account", "dropowner"}
      BY <2>2 DEF Owned, Waited
    <3> QED
      BY <1>1, <1>2, <3>1
  <2> QED
    BY <1>4, <2>1, <2>2 DEF Waited
<1>8. \A a \in Accts : Kept(a)'
  <2> SUFFICES ASSUME NEW a \in Accts, acct'[a] # NoAcct, acct'[a].owner # NoOwner
               PROVE  user'[acct'[a].owner] = "kept"
    BY DEF Kept
  <2>1. CASE acct'[a].owner = o
    BY <1>4, <2>1
  <2>2. CASE acct'[a].owner # o
    <3>1. acct'[a] = acct[a]
      BY <2>2
    <3>2. acct[a].owner \in Owners \ {o} /\ user[acct[a].owner] = "kept"
      BY <2>2, <3>1 DEF Owned, Kept, Tables, AcctsOK, AcctRow
    <3> QED
      BY <1>4, <3>1, <3>2
  <2> QED
    BY <2>1, <2>2
<1> QED
  BY <1>5, <1>6, <1>7, <1>8 DEF Owned

LEMMA OwnersAccount ==
  ASSUME Tables, OpsOK, OpInv, Owned, NEW p \in Requests, op[p] \in Call, After(p),
         InsertAccount(p)
  PROVE  Owned'
<1> DEFINE o == op[p].owner
           b == op[p].site[1]
<1>1. /\ site' = site /\ domain' = domain /\ b \in Accts
      /\ \A a \in Accts \ {b} : acct'[a] = acct[a]
      /\ \/ acct' = acct /\ user' = user /\ Undo(p)
         \/ /\ acct[b] = NoAcct /\ acct'[b].owner = o
            /\ GoTo(p, "dirs")
            /\ user' = IF o = NoOwner THEN user ELSE [user EXCEPT ![o] = "kept"]
  BY AccountInserted
<1>2. op[p].at = "account" /\ op[p].kind = "account"
  BY DEF InsertAccount, Busy, OpInv
<1>3. \A q \in Requests \ {p} : op'[q] = op[q]
  BY DEF After
<1>4. CASE o = NoOwner
  <2>1. ~Past(p) /\ ~Past(p)'
    BY <1>2, <1>4, RowsAreThere DEF Past, After
  <2>2. user' = user /\ \A q \in Requests : Past(q)' <=> Past(q)
    BY <1>1, <1>3, <1>4, <2>1 DEF Past
  <2>3. OneEach' /\ \A x \in Owners : Waited(x)'
    BY <1>3, <2>1, <2>2 DEF Owned, OneEach, Waited
  <2>4. ASSUME NEW q \in Requests, Past(q)' PROVE Answers(q)'
    <3>1. Past(q) /\ op'[q] = op[q] /\ op[q].owner # NoOwner /\ Answers(q)
      BY <1>3, <2>1, <2>2, <2>4 DEF Past, Owned
    <3>2. \A a \in Accts : acct'[a] # NoAcct /\ acct'[a].owner = op[q].owner =>
            acct[a] # NoAcct /\ acct[a].owner = op[q].owner
      BY <1>1, <1>4, <3>1
    <3> QED
      BY <2>2, <3>1, <3>2 DEF Answers
  <2>5. \A a \in Accts : Kept(a)'
    BY <1>1, <1>4, <2>2 DEF Owned, Kept
  <2> QED
    BY <2>3, <2>4, <2>5 DEF Owned
<1>5. CASE o # NoOwner
  <2>1. Past(p)
    BY <1>2, <1>5 DEF Past
  <2>2. user[o] = "pending" /\ o \in Owners
    BY <1>2, <2>1, OthersOwned DEF Answers
  <2>3. \A a \in Accts : acct[a] # NoAcct => acct[a].owner # o
    BY <1>5, <2>1, <2>2, OthersOwned
  <2>4. CASE acct' = acct /\ user' = user /\ Undo(p)
    <3>1. op'[p].at = "dropowner" /\ user' = [user EXCEPT ![o] = "pending"]
      BY <1>5, <2>2, <2>4 DEF Undo, GoTo, OpsOK, Call, Tables, UsersOK
    <3>2. op'[p].kind = "account" /\ op'[p].owner = o /\ op'[p].site = op[p].site
      BY <1>2, <3>1, RowsAreThere DEF After
    <3> QED
      BY <1>1, <2>1, <2>3, <2>4, <3>1, <3>2, OwnersNext
  <2>5. CASE /\ acct[b] = NoAcct /\ acct'[b].owner = o /\ GoTo(p, "dirs")
             /\ user' = IF o = NoOwner THEN user ELSE [user EXCEPT ![o] = "kept"]
    <3>1. op'[p].at = "dirs" /\ user' = [user EXCEPT ![o] = "kept"]
      BY <1>5, <2>5 DEF GoTo, OpsOK, Call
    <3>2. op'[p].kind = "account" /\ op'[p].owner = o /\ op'[p].site = op[p].site
      BY <1>2, <3>1, RowsAreThere DEF After
    <3>3. \A a \in Accts : acct'[a] # NoAcct /\ acct'[a].owner = o => a = b
      BY <1>1, <2>3
    <3> QED
      BY <1>1, <2>1, <2>5, <3>1, <3>2, <3>3, OwnersNext
  <2> QED
    BY <1>1, <2>4, <2>5
<1> QED
  BY <1>4, <1>5

LEMMA OwnersDrop ==
  ASSUME Tables, OpsOK, OpInv, Owned, CountersOK, Fewer, NEW p \in Requests, op[p] \in Call,
         After(p), DropAccount(p), faults' = 0
  PROVE  Owned'
<1> DEFINE o == op[p].owner
           b == op[p].site[1]
<1>1. /\ acct' = [acct EXCEPT ![b] = NoAcct]
      /\ user' = IF o = NoOwner THEN user ELSE [user EXCEPT ![o] = "pending"]
      /\ Undo(p) /\ op[p].at = "dropaccount" /\ op[p].kind = "account"
  <2>1. ~Fault
    BY LimitsAssumption DEF Fault, CountersOK
  <2> QED
    BY <2>1 DEF DropAccount, Busy, OpInv
<1>2. b \in Accts
  BY RowsAreThere, SiteParts
<1>3. acct'[b] = NoAcct /\ \A a \in Accts \ {b} : acct'[a] = acct[a]
  BY <1>1, <1>2 DEF Tables, AcctsOK
<1>4. CASE o = NoOwner
  <2>1. user' = user /\ op'[p] = Idle
    BY <1>1, <1>4 DEF Undo, End, OpsOK
  <2>2. \A q \in Requests \ {p} : op'[q] = op[q]
    BY DEF After
  <2>3. ~Past(p) /\ ~Past(p)'
    BY <1>4, <2>1, RowsAreThere DEF Past
  <2>4. \A q \in Requests : Goes(q) /\ Stays(q)
    BY <2>2, <2>3 DEF Goes, Stays, Past
  <2> QED
    BY <2>1, <2>4, FewerInherited, OwnersFewer
<1>5. CASE o # NoOwner
  <2>1. Past(p)
    BY <1>1, <1>5 DEF Past
  <2>2. op'[p].at = "dropowner" /\ user' = [user EXCEPT ![o] = "pending"]
    BY <1>1, <1>5 DEF Undo, GoTo, OpsOK, Call
  <2>3. op'[p].kind = "account" /\ op'[p].owner = o /\ op'[p].site = op[p].site
    BY <1>1, <2>2, RowsAreThere DEF After
  <2>4. \A a \in Accts : ~(acct'[a] # NoAcct /\ acct'[a].owner = o)
    <3>1. \A a \in Accts : acct[a] # NoAcct /\ acct[a].owner = o => a = b
      BY <1>1, <2>1, OthersOwned DEF Answers
    <3> QED
      BY <1>3, <3>1
  <2> QED
    BY <1>3, <2>1, <2>2, <2>3, <2>4, OwnersNext
<1> QED
  BY <1>4, <1>5

LEMMA OwnersGone ==
  ASSUME Tables, OpsOK, OpInv, Owned, CountersOK, NEW p \in Requests, op[p] \in Call,
         After(p), DropOwner(p), faults' = 0
  PROVE  Owned'
<1> DEFINE o == op[p].owner
<1>1. /\ user' = [user EXCEPT ![o] = IF Owns(o) THEN @ ELSE "none"]
      /\ End(p) /\ op[p].at = "dropowner" /\ acct' = acct
  <2>1. ~Fault
    BY LimitsAssumption DEF Fault, CountersOK
  <2> QED
    BY <2>1 DEF DropOwner, Busy
<1>2. Past(p)
  BY <1>1 DEF Past, OpInv
<1>3. /\ o \in Owners /\ user[o] = "pending"
      /\ \A q \in Requests \ {p} : Past(q) => op[q].owner \in Owners \ {o} /\ Answers(q)
  BY <1>1, <1>2, OthersOwned DEF Answers
<1>4. \A a \in Accts : acct[a] # NoAcct => acct[a].owner # o
  BY <1>2, <1>3, OthersOwned
<1>5. /\ user'[o] = "none" /\ \A x \in Owners \ {o} : user'[x] = user[x]
  BY <1>1, <1>3, <1>4 DEF Owns, Tables, UsersOK
<1>6. /\ op'[p] = Idle /\ \A q \in Requests \ {p} : op'[q] = op[q]
  BY <1>1 DEF End, OpsOK
<1>7. ~Past(p)' /\ \A q \in Requests \ {p} : Past(q)' <=> Past(q)
  BY <1>6, RowsAreThere DEF Past
<1>8. OneEach'
  BY <1>6, <1>7 DEF OneEach, Owned
<1>9. ASSUME NEW q \in Requests, Past(q)' PROVE Answers(q)'
  <2>1. q # p /\ op'[q] = op[q] /\ op[q].owner \in Owners \ {o} /\ Answers(q)
    BY <1>3, <1>6, <1>7, <1>9
  <2>2. user'[op[q].owner] = user[op[q].owner]
    BY <1>5, <2>1
  <2> QED
    BY <1>1, <2>1, <2>2 DEF Answers
<1>10. ASSUME NEW x \in Owners PROVE Waited(x)'
  <2> SUFFICES ASSUME user'[x] = "pending"
               PROVE  \E q \in Requests : Past(q)' /\ op'[q].owner = x
                                          /\ op'[q].at \in {"account", "dropowner"}
    BY DEF Waited
  <2>1. x # o /\ user[x] = "pending"
    BY <1>5
  <2>2. PICK q \in Requests : Past(q) /\ op[q].owner = x /\ op[q].at \in {"account", "dropowner"}
    BY <2>1 DEF Owned, Waited
  <2> QED
    BY <1>6, <1>7, <2>1, <2>2
<1>11. ASSUME NEW a \in Accts PROVE Kept(a)'
  <2> SUFFICES ASSUME acct[a] # NoAcct, acct[a].owner # NoOwner
               PROVE  user'[acct[a].owner] = "kept"
    BY <1>1 DEF Kept
  <2>1. acct[a].owner \in Owners \ {o} /\ user[acct[a].owner] = "kept"
    BY <1>4 DEF Owned, Kept, Tables, AcctsOK, AcctRow
  <2> QED
    BY <1>5, <2>1
<1> QED
  BY <1>8, <1>9, <1>10, <1>11 DEF Owned

-----------------------------------------------------------------------------
(* The invariant.                                                          *)

LEMMA CountersStep ==
  ASSUME CountersOK, Next
  PROVE  CountersOK' /\ (faults' = 0 => faults = 0)
<1> DEFINE Counted == /\ calls' = calls \/ (calls < MaxCalls /\ calls' = calls + 1)
                      /\ Works \/ Fault
<1>1. ASSUME \/ EditPlan
             \/ \E a \in Accts : ChangePlan(a) \/ Suspend(a) \/ Unsuspend(a) \/ Terminate(a)
             \/ \E s \in Sites : StopOrStart(s) \/ DeleteSite(s)
             \/ \E h \in Hosts : RemoveDomain(h)
      PROVE  Counted
  BY <1>1 DEF EditPlan, ChangePlan, Suspend, Unsuspend, Terminate, StopOrStart, DeleteSite,
              RemoveDomain, Once, Works
<1>2. ASSUME NEW p \in Requests,
             \/ \E a \in Accts, o \in Owners \cup {NoOwner}, h \in Hosts \cup {NoHost} :
                  CallCreateAccount(p, a, o, h)
             \/ \E s \in Sites, h \in Hosts \cup {NoHost} :
                  \/ CallCreateSite(p, s, h)
                  \/ h # NoHost /\ \E to \in Targets \cup {NoHost} : CallAddDomain(p, s, h, to)
      PROVE  Counted
  BY <1>2 DEF CallCreateAccount, CallCreateSite, CallAddDomain, Called, Works
<1>3. ASSUME NEW p \in Requests,
             \/ CreateOwner(p) \/ InsertAccount(p) \/ PrepareAccount(p)
             \/ DropAccount(p) \/ DropOwner(p)
      PROVE  Counted
  BY <1>3 DEF CreateOwner, InsertAccount, PrepareAccount, DropAccount, DropOwner, Works
<1>4. ASSUME NEW p \in Requests,
             InsertSite(p) \/ PrepareSite(p) \/ InsertDomain(p) \/ Deploy(p) \/ Abandon(p)
      PROVE  Counted
  BY <1>4 DEF InsertSite, PrepareSite, InsertDomain, Deploy, Abandon, Works
<1>5. Counted
  <2> HIDE DEF Counted
  <2> QED
    BY <1>1, <1>2, <1>3, <1>4 DEF Next
<1> QED
  BY <1>5, LimitsAssumption DEF CountersOK, Works, Fault

LEMMA Invariance == IInv /\ [Next]_vars => IInv'
<1> SUFFICES ASSUME IInv, [Next]_vars PROVE IInv'
  OBVIOUS
<1>1. Tables /\ OpsOK /\ CountersOK /\ OpInv /\ LimitsInv /\ (faults = 0 => Owned)
  BY TypeParts, OwnedInv DEF IInv, Tables
<1>2. CASE UNCHANGED vars
  <2>1. TypeOK' /\ OpInv'
    BY <1>2 DEF vars, IInv, TypeOK, OpInv
  <2>2. OwnersInv'
    BY <1>2 DEF vars, IInv, OwnersInv, Past
  <2>3. \A a \in Accts : (SitesInv(a)' <=> SitesInv(a)) /\ (DomainsInv(a)' <=> DomainsInv(a))
    BY <1>2 DEF vars, SitesInv, DomainsInv, SitesOf, DomainsOf, AddedTo, Inserting, Adding
  <2>4. LimitsInv'
    BY <1>2, <2>3 DEF vars, IInv, LimitsInv
  <2> QED
    BY <2>1, <2>2, <2>4 DEF IInv
<1>3. CASE Next
  <2>1. CountersOK' /\ (faults' = 0 => faults = 0)
    BY <1>1, <1>3, CountersStep
  <2>2. Tables' /\ OpsOK' /\ OpInv' /\ LimitsInv' /\ (faults' = 0 => Owned')
    <3>1. CASE \/ EditPlan
               \/ \E a \in Accts : ChangePlan(a) \/ Suspend(a) \/ Unsuspend(a) \/ Terminate(a)
               \/ \E s \in Sites : StopOrStart(s) \/ DeleteSite(s)
               \/ \E h \in Hosts : RemoveDomain(h)
      <4>1. Tables' /\ Fewer
        BY <1>1, <3>1, AccountChanges, SiteChanges, PlanEdited
      <4>2. op' = op /\ user' = user
        BY <3>1 DEF EditPlan, ChangePlan, Suspend, Unsuspend, Terminate, StopOrStart, DeleteSite,
                    RemoveDomain, Once
      <4>3. /\ \A a \in Accts : NobodyNew(a)
            /\ \A p \in Requests : Goes(p) /\ Stays(p)
        BY <4>2 DEF NobodyNew, Inserting, Adding, Goes, Stays, Past
      <4>4. OpsOK' /\ OpInv'
        BY <1>1, <4>2 DEF OpsOK, OpInv
      <4> QED
        BY <1>1, <2>1, <4>1, <4>2, <4>3, <4>4, LimitsFewer, FewerInherited, OwnersFewer
    <3>2. ASSUME NEW p \in Requests, NEW h \in Hosts \cup {NoHost},
                 \/ \E a \in Accts, o \in Owners \cup {NoOwner} : CallCreateAccount(p, a, o, h)
                 \/ \E s \in Sites : CallCreateSite(p, s, h)
                 \/ \E s \in Sites, to \in Targets \cup {NoHost} :
                      h # NoHost /\ CallAddDomain(p, s, h, to)
          PROVE  Tables' /\ OpsOK' /\ OpInv' /\ LimitsInv' /\ (faults' = 0 => Owned')
      <4>1. Tables' /\ OpsOK' /\ OpInv' /\ LimitsInv' /\ Fewer
        BY <1>1, <3>2, LimitsCall
      <4>2. Owned => Owned'
        BY <1>1, <3>2, <4>1, OwnersCall
      <4> QED
        BY <1>1, <2>1, <4>1, <4>2
    <3>3. ASSUME NEW p \in Requests,
                 \/ CreateOwner(p) \/ PrepareAccount(p) \/ DropAccount(p) \/ DropOwner(p)
                 \/ PrepareSite(p) \/ Deploy(p) \/ Abandon(p)
          PROVE  Tables' /\ OpsOK' /\ OpInv' /\ LimitsInv' /\ (faults' = 0 => Owned')
      <4>1. Tables' /\ OpsOK' /\ OpInv' /\ LimitsInv' /\ Fewer /\ op[p] \in Call /\ After(p)
        BY <1>1, <3>3, LimitsRequest
      <4>2. ASSUME faults' = 0 PROVE Owned'
        <5>1. Owned
          BY <1>1, <2>1, <4>2
        <5>2. ~Abandon(p)
          BY <1>1, <4>2, LimitsAssumption DEF Abandon, Fault, CountersOK
        <5> QED
          BY <1>1, <3>3, <4>1, <4>2, <5>1, <5>2, OwnersCreate, FewerInherited,
             OwnersRequest, OwnersDrop, OwnersGone
      <4> QED
        BY <4>1, <4>2
    <3>4. ASSUME NEW p \in Requests, InsertAccount(p)
          PROVE  Tables' /\ OpsOK' /\ OpInv' /\ LimitsInv' /\ (faults' = 0 => Owned')
      <4>1. Tables' /\ OpsOK' /\ OpInv' /\ LimitsInv' /\ op[p] \in Call /\ After(p)
        BY <1>1, <3>4, LimitsAccount
      <4>2. Owned => Owned'
        BY <1>1, <3>4, <4>1, OwnersAccount
      <4> QED
        BY <1>1, <2>1, <4>1, <4>2
    <3>5. ASSUME NEW p \in Requests, InsertSite(p) \/ InsertDomain(p)
          PROVE  Tables' /\ OpsOK' /\ OpInv' /\ LimitsInv' /\ (faults' = 0 => Owned')
      <4>1. Tables' /\ OpsOK' /\ OpInv' /\ LimitsInv' /\ op[p] \in Call /\ After(p)
        BY <1>1, <3>5, LimitsSite, LimitsDomain
      <4>2. Inherited
        BY <3>5 DEF InsertSite, InsertDomain, Inherited
      <4>3. Owned => Owned'
        BY <1>1, <3>5, <4>1, <4>2, OwnersRequest
      <4> QED
        BY <1>1, <2>1, <4>1, <4>3
    <3> QED
      BY <1>3, <3>1, <3>2, <3>3, <3>4, <3>5 DEF Next
  <2> QED
    BY <2>1, <2>2, TypePartsNext, OwnedInvNext DEF IInv, Tables
<1> QED
  BY <1>2, <1>3

LEMMA Initially == Init => IInv
<1> SUFFICES ASSUME Init PROVE IInv
  OBVIOUS
<1>1. AcctsOK /\ UsersOK /\ OpsOK /\ CountersOK
  <2>1. [status |-> "active", owner |-> NoOwner, moved |-> FALSE] \in AcctRow
    BY DEF AcctRow
  <2> QED
    BY <2>1, LimitsAssumption DEF Init, AcctsOK, UsersOK, OpsOK, Ops, CountersOK
<1>2. SitesOK
  <2>1. [status |-> "running", up |-> TRUE] \in SiteRow
    BY DEF SiteRow
  <2>2. site \in [Sites -> {NoSite} \cup SiteRow]
    BY <2>1 DEF Init
  <2>3. \A s \in Sites : site[s] # NoSite => s[1] \in Old
    BY DEF Init
  <2>4. \A a \in Old : acct[a] # NoAcct
    <3>1. [status |-> "active", owner |-> NoOwner, moved |-> FALSE] # NoAcct
      <4>1. NoAcct.status = "none"
        BY DEF NoAcct
      <4> QED
        BY <4>1
    <3> QED
      BY <3>1, OwnersAssumption DEF Init
  <2> QED
    BY <2>2, <2>3, <2>4 DEF SitesOK
<1>3. DomainsOK
  BY DEF Init, DomainsOK
<1>4. OpInv
  BY RowsAreThere DEF Init, OpInv
<1>5. OwnersInv
  <2>1. \A p \in Requests : ~Past(p)
    BY RowsAreThere DEF Init, Past
  <2>2. \A a \in Accts : acct[a].owner = NoOwner
    BY DEF Init, NoAcct
  <2>3. \A o \in Owners : user[o] # "pending"
    BY DEF Init
  <2> QED
    BY <2>1, <2>2, <2>3 DEF OwnersInv
<1>6. LimitsInv
  <2> SUFFICES ASSUME NEW a \in Accts, acct[a] # NoAcct
               PROVE  SitesInv(a) /\ DomainsInv(a)
    BY DEF LimitsInv
  <2>1. Inserting(a) = {} /\ Adding(a) = {} /\ AddedTo(a) = {}
    BY RowsAreThere DEF Init, Inserting, Adding, AddedTo, DomainsOf
  <2>2. PICK p \in Requests : TRUE
    BY FiniteAssumption
  <2>3. DomainsInv(a)
    BY <2>1, <2>2, UnderEmpty, UnderInv, LimitsAssumption
  <2>4. a \in Old /\ MaxSites >= 1
    BY LimitsAssumption DEF Init
  <2>5. SitesOf(a) \subseteq {} \cup {<<a, Principal>>}
    BY DEF Init, SitesOf, Sites
  <2>6. Under({}, {p}, MaxSites)
    <3>1. Cardinality({}) = 0 /\ IsFiniteSet({})
      BY FS_EmptySet
    <3> QED
      BY <2>4, <3>1, UnderChecked, LimitsAssumption
  <2>7. Under(SitesOf(a), Inserting(a), MaxSites)
    <3>1. IsFiniteSet({})
      BY FS_EmptySet
    <3> QED
      BY <2>1, <2>5, <2>6, <3>1, UnderUsed, LimitsAssumption
  <2> QED
    BY <2>3, <2>7, UnderInv
<1> QED
  BY <1>1, <1>2, <1>3, <1>4, <1>5, <1>6, TypeParts DEF IInv

-----------------------------------------------------------------------------
(* The plan.                                                               *)

\* The sites of an account, and the domains added to it, as PlanLimit sees
\* them.
SitePlan(a) == INSTANCE PlanLimit WITH
  Things <- Sites, Clients <- Requests, Limit <- MaxSites,
  taken <- SitesOf(a), inside <- Inserting(a), lifted <- acct[a].moved
DomainPlan(a) == INSTANCE PlanLimit WITH
  Things <- Hosts, Clients <- Requests, Limit <- MaxDomains,
  taken <- AddedTo(a), inside <- Adding(a), lifted <- acct[a].moved

SiteStep(a) == [SitePlan(a)!Next]_(SitePlan(a)!vars)
DomainStep(a) == [DomainPlan(a)!Next]_(DomainPlan(a)!vars)

\* Nobody asks, and rows only go.
LEMMA PlanGives ==
  ASSUME NEW a \in Accts, acct'[a].moved = acct[a].moved,
         SitesOf(a)' \subseteq SitesOf(a), AddedTo(a)' \subseteq AddedTo(a),
         Inserting(a)' = Inserting(a), Adding(a)' = Adding(a)
  PROVE  SiteStep(a) /\ DomainStep(a)
<1>1. SiteStep(a)
  <2> DEFINE S == SitesOf(a) \ SitesOf(a)'
  <2>1. S \in SUBSET Sites /\ SitesOf(a)' = SitesOf(a) \ S
    BY DEF SitesOf
  <2> HIDE DEF S
  <2>2. SitePlan(a)!Give(S)
    BY <2>1 DEF SitePlan!Give
  <2> QED
    BY <2>1, <2>2 DEF SitePlan!Next, SiteStep
<1>2. DomainStep(a)
  <2> DEFINE S == AddedTo(a) \ AddedTo(a)'
  <2>1. S \in SUBSET Hosts /\ AddedTo(a)' = AddedTo(a) \ S
    BY DEF AddedTo, DomainsOf
  <2> HIDE DEF S
  <2>2. DomainPlan(a)!Give(S)
    BY <2>1 DEF DomainPlan!Give
  <2> QED
    BY <2>1, <2>2 DEF DomainPlan!Next, DomainStep
<1> QED
  BY <1>1, <1>2

\* The rows are as they were, and p is done asking if it had.
LEMMA SiteLeaves ==
  ASSUME NEW a \in Accts, NEW p \in Requests, acct'[a].moved = acct[a].moved,
         SitesOf(a)' = SitesOf(a), Inserting(a)' \in {Inserting(a), Inserting(a) \ {p}}
  PROVE  SiteStep(a)
<1>1. CASE Inserting(a)' = Inserting(a)
  BY <1>1 DEF SiteStep, SitePlan!vars
<1>2. CASE p \in Inserting(a) /\ Inserting(a)' = Inserting(a) \ {p}
  <2>1. SitePlan(a)!Leave(p)
    BY <1>2 DEF SitePlan!Leave
  <2> QED
    BY <2>1 DEF SiteStep, SitePlan!Next
<1> QED
  BY <1>1, <1>2

LEMMA DomainLeaves ==
  ASSUME NEW a \in Accts, NEW p \in Requests, acct'[a].moved = acct[a].moved,
         AddedTo(a)' = AddedTo(a), Adding(a)' \in {Adding(a), Adding(a) \ {p}}
  PROVE  DomainStep(a)
<1>1. CASE Adding(a)' = Adding(a)
  BY <1>1 DEF DomainStep, DomainPlan!vars
<1>2. CASE p \in Adding(a) /\ Adding(a)' = Adding(a) \ {p}
  <2>1. DomainPlan(a)!Leave(p)
    BY <1>2 DEF DomainPlan!Leave
  <2> QED
    BY <2>1 DEF DomainStep, DomainPlan!Next
<1> QED
  BY <1>1, <1>2

\* The plan is another's.
LEMMA PlanLifts ==
  ASSUME NEW a \in Accts, acct'[a].moved = TRUE,
         SitesOf(a)' = SitesOf(a), AddedTo(a)' = AddedTo(a),
         Inserting(a)' = Inserting(a), Adding(a)' = Adding(a)
  PROVE  SiteStep(a) /\ DomainStep(a)
<1>1. SitePlan(a)!Lift /\ DomainPlan(a)!Lift
  BY DEF SitePlan!Lift, DomainPlan!Lift
<1> QED
  BY <1>1 DEF SiteStep, DomainStep, SitePlan!Next, DomainPlan!Next

\* The account is gone, with its sites and their domains.
LEMMA PlanRenews ==
  ASSUME Tables', NEW a \in Accts, acct'[a] = NoAcct,
         Inserting(a)' = Inserting(a), Adding(a)' = Adding(a)
  PROVE  SiteStep(a) /\ DomainStep(a)
<1>1. SitesOf(a)' = {}
  BY DEF SitesOf, Tables, SitesOK
<1>2. AddedTo(a)' = {}
  <2>1. \A h \in Hosts : domain'[h] # Free => domain'[h].site \in Sites /\ domain'[h].site[1] # a
    BY DEF Tables, SitesOK, DomainsOK, DomainRow
  <2> QED
    BY <2>1 DEF AddedTo, DomainsOf
<1>3. acct'[a].moved = FALSE
  BY DEF NoAcct
<1>4. SitePlan(a)!Renew /\ DomainPlan(a)!Renew
  BY <1>1, <1>2, <1>3 DEF SitePlan!Renew, DomainPlan!Renew
<1> QED
  BY <1>4 DEF SiteStep, DomainStep, SitePlan!Next, DomainPlan!Next

LEMMA PlanStatement ==
  ASSUME Tables, NEW a \in Accts,
         \/ EditPlan
         \/ \E b \in Accts : ChangePlan(b) \/ Suspend(b) \/ Unsuspend(b) \/ Terminate(b)
         \/ \E s \in Sites : StopOrStart(s) \/ DeleteSite(s)
         \/ \E h \in Hosts : RemoveDomain(h)
  PROVE  SiteStep(a) /\ DomainStep(a)
<1>1. Tables' /\ Fewer
  BY AccountChanges, SiteChanges, PlanEdited
<1>2. op' = op
  BY DEF EditPlan, ChangePlan, Suspend, Unsuspend, Terminate, StopOrStart, DeleteSite, RemoveDomain, Once
<1>3. Inserting(a)' = Inserting(a) /\ Adding(a)' = Adding(a)
  BY <1>2 DEF Inserting, Adding
<1>4. CASE acct'[a].moved = acct[a].moved
  BY <1>1, <1>3, <1>4, FewerRows, PlanGives
<1>5. CASE Terminate(a)
  <2>1. acct'[a] = NoAcct
    BY <1>5 DEF Terminate, Tables, AcctsOK
  <2> QED
    BY <1>1, <1>3, <2>1, PlanRenews
<1>6. CASE ChangePlan(a)
  <2>1. acct'[a] = [acct[a] EXCEPT !.moved = TRUE] /\ site' = site /\ domain' = domain
    BY <1>6 DEF ChangePlan, Tables, AcctsOK
  <2>2. acct[a] # NoAcct
    BY <1>6 DEF ChangePlan
  <2>3. acct'[a].moved = TRUE
    BY <2>1, <2>2 DEF Tables, AcctsOK, AcctRow
  <2>4. SitesOf(a)' = SitesOf(a) /\ AddedTo(a)' = AddedTo(a)
    BY <2>1 DEF SitesOf, AddedTo, DomainsOf
  <2> QED
    BY <1>3, <2>3, <2>4, PlanLifts
<1>7. CASE EditPlan
  <2>1. /\ site' = site /\ domain' = domain
        /\ acct'[a] = acct[a] \/ acct'[a].moved = TRUE
    BY <1>7, PlanEdited
  <2>2. SitesOf(a)' = SitesOf(a) /\ AddedTo(a)' = AddedTo(a)
    BY <2>1 DEF SitesOf, AddedTo, DomainsOf
  <2> QED
    BY <1>3, <1>4, <2>1, <2>2, PlanLifts
<1>8. CASE ~EditPlan /\ ~ChangePlan(a) /\ ~Terminate(a)
  <2>1. \/ acct' = acct \/ Suspend(a) \/ Unsuspend(a)
        \/ \E b \in Accts \ {a} : ChangePlan(b) \/ Suspend(b) \/ Unsuspend(b) \/ Terminate(b)
    BY <1>8 DEF StopOrStart, DeleteSite, RemoveDomain
  <2>2. CASE \E b \in Accts \ {a} : ChangePlan(b) \/ Suspend(b) \/ Unsuspend(b) \/ Terminate(b)
    <3>1. acct'[a] = acct[a]
      BY <2>2 DEF ChangePlan, Suspend, Unsuspend, Terminate, Tables, AcctsOK
    <3> QED
      BY <1>4, <3>1
  <2>3. CASE Suspend(a) \/ Unsuspend(a)
    <3>1. PICK status \in {"active", "suspended"} : acct' = [acct EXCEPT ![a].status = status]
      BY <2>3 DEF Suspend, Unsuspend
    <3>2. acct'[a] = [acct[a] EXCEPT !.status = status] /\ acct[a] # NoAcct
      BY <2>3, <3>1 DEF Suspend, Unsuspend, Tables, AcctsOK
    <3>3. acct'[a].moved = acct[a].moved
      BY <3>2, AccountRows DEF Tables
    <3> QED
      BY <1>4, <3>3
  <2> QED
    BY <1>4, <2>1, <2>2, <2>3
<1> QED
  BY <1>5, <1>6, <1>7, <1>8

\* What a step of p does to those that ask.
LEMMA AskedAfter ==
  ASSUME NEW p \in Requests, \A q \in Requests \ {p} : op'[q] = op[q], NEW a \in Accts
  PROVE  /\ Inserting(a)' = IF op'[p].at = "insert" /\ op'[p].site[1] = a
                            THEN Inserting(a) \cup {p} ELSE Inserting(a) \ {p}
         /\ Adding(a)' = IF op'[p].kind = "domain" /\ op'[p].at = "domain" /\ op'[p].site[1] = a
                         THEN Adding(a) \cup {p} ELSE Adding(a) \ {p}
<1>1. Inserting(a)' = IF op'[p].at = "insert" /\ op'[p].site[1] = a
                      THEN Inserting(a) \cup {p} ELSE Inserting(a) \ {p}
  BY DEF Inserting
<1>2. Adding(a)' = IF op'[p].kind = "domain" /\ op'[p].at = "domain" /\ op'[p].site[1] = a
                   THEN Adding(a) \cup {p} ELSE Adding(a) \ {p}
  BY DEF Adding
<1> QED
  BY <1>1, <1>2

\* p asks for a site of s's account, or for a domain, and is let in.
LEMMA SiteAsked ==
  ASSUME NEW a \in Accts, NEW p \in Requests, p \notin Inserting(a), WithinSites(a),
         acct' = acct, site' = site, Inserting(a)' = Inserting(a) \cup {p}
  PROVE  SiteStep(a)
<1>1. acct[a].moved \/ SitePlan(a)!Cardinality(SitesOf(a)) < MaxSites
  BY DEF WithinSites, SitePlan!Cardinality, Cardinality
<1>2. SitesOf(a)' = SitesOf(a) /\ acct'[a].moved = acct[a].moved
  BY DEF SitesOf
<1>3. SitePlan(a)!LetIn(p)
  BY <1>1, <1>2 DEF SitePlan!LetIn
<1> QED
  BY <1>3 DEF SiteStep, SitePlan!Next

LEMMA DomainAsked ==
  ASSUME NEW a \in Accts, NEW p \in Requests, p \notin Adding(a), WithinDomains(a),
         acct' = acct, domain' = domain, Adding(a)' = Adding(a) \cup {p}
  PROVE  DomainStep(a)
<1>1. acct[a].moved \/ Cardinality(AddedTo(a)) < MaxDomains
  <2>1. AddedTo(a) \subseteq DomainsOf(a) /\ DomainsOf(a) \subseteq Hosts
    BY DEF AddedTo, DomainsOf
  <2>2. /\ Cardinality(AddedTo(a)) <= Cardinality(DomainsOf(a))
        /\ Cardinality(AddedTo(a)) \in Nat /\ Cardinality(DomainsOf(a)) \in Nat
    BY <2>1, FiniteAssumption, FS_Subset, FS_CardinalityType
  <2>3. CASE ~acct[a].moved
    <3>1. Cardinality(DomainsOf(a)) < MaxDomains
      BY <2>3 DEF WithinDomains
    <3> QED
      BY <2>2, <3>1, LimitsAssumption
  <2> QED
    BY <2>3
<1>2. acct[a].moved \/ DomainPlan(a)!Cardinality(AddedTo(a)) < MaxDomains
  BY <1>1 DEF DomainPlan!Cardinality, Cardinality
<1>3. AddedTo(a)' = AddedTo(a) /\ acct'[a].moved = acct[a].moved
  BY DEF AddedTo, DomainsOf
<1>4. DomainPlan(a)!LetIn(p)
  BY <1>2, <1>3 DEF DomainPlan!LetIn
<1> QED
  BY <1>4 DEF DomainStep, DomainPlan!Next

LEMMA PlanCall ==
  ASSUME OpsOK, OpInv, NEW a \in Accts, NEW p \in Requests, NEW h \in Hosts \cup {NoHost},
         \/ \E b \in Accts, o \in Owners \cup {NoOwner} : CallCreateAccount(p, b, o, h)
         \/ \E s \in Sites : CallCreateSite(p, s, h)
         \/ \E s \in Sites, to \in Targets \cup {NoHost} : h # NoHost /\ CallAddDomain(p, s, h, to)
  PROVE  SiteStep(a) /\ DomainStep(a)
<1>1. UNCHANGED <<acct, site, domain>>
  BY DEF CallCreateAccount, CallCreateSite, CallAddDomain, Called
<1>2. SitesOf(a)' = SitesOf(a) /\ AddedTo(a)' = AddedTo(a) /\ acct'[a].moved = acct[a].moved
  BY <1>1 DEF SitesOf, AddedTo, DomainsOf
<1>3. op[p] = Idle /\ \A q \in Requests \ {p} : op'[q] = op[q]
  BY Calls
<1>4. p \notin Inserting(a) /\ p \notin Adding(a)
  BY <1>3, RowsAreThere DEF Inserting, Adding
<1>5. ASSUME Inserting(a)' = Inserting(a) \ {p} PROVE SiteStep(a)
  BY <1>2, <1>5, SiteLeaves
<1>6. ASSUME Adding(a)' = Adding(a) \ {p} PROVE DomainStep(a)
  BY <1>2, <1>6, DomainLeaves
<1>7. ASSUME NEW b \in Accts, NEW o \in Owners \cup {NoOwner}, CallCreateAccount(p, b, o, h)
      PROVE  SiteStep(a) /\ DomainStep(a)
  <2>1. op'[p].at \in {"owner", "account"}
    BY <1>7, Calls
  <2> QED
    BY <1>3, <1>5, <1>6, <2>1, AskedAfter
<1>8. ASSUME NEW s \in Sites, CallCreateSite(p, s, h)
      PROVE  SiteStep(a) /\ DomainStep(a)
  <2>1. op'[p].at = "insert" /\ op'[p].site = s /\ op'[p].kind = "site"
    BY <1>8, Calls
  <2>2. DomainStep(a)
    <3>1. Adding(a)' = Adding(a) \ {p}
      BY <1>3, <2>1, AskedAfter
    <3> QED
      BY <1>6, <3>1
  <2>3. CASE a # s[1]
    <3>1. Inserting(a)' = Inserting(a) \ {p}
      BY <1>3, <2>1, <2>3, AskedAfter
    <3> QED
      BY <1>5, <2>2, <3>1
  <2>4. CASE a = s[1]
    <3>1. WithinSites(a)
      BY <1>8, <2>4 DEF CallCreateSite
    <3>2. Inserting(a)' = Inserting(a) \cup {p}
      BY <1>3, <2>1, <2>4, AskedAfter
    <3> QED
      BY <1>1, <1>4, <2>2, <3>1, <3>2, SiteAsked
  <2> QED
    BY <2>3, <2>4
<1>9. ASSUME NEW s \in Sites, NEW to \in Targets \cup {NoHost}, h # NoHost,
             CallAddDomain(p, s, h, to)
      PROVE  SiteStep(a) /\ DomainStep(a)
  <2>1. op'[p].at = "domain" /\ op'[p].site = s /\ op'[p].kind = "domain"
    BY <1>9, Calls
  <2>2. SiteStep(a)
    BY <1>3, <1>5, <2>1, AskedAfter
  <2>3. CASE a # s[1]
    BY <1>3, <1>6, <2>1, <2>2, <2>3, AskedAfter
  <2>4. CASE a = s[1]
    <3>1. WithinDomains(a)
      BY <1>9, <2>4 DEF CallAddDomain
    <3>2. Adding(a)' = Adding(a) \cup {p}
      BY <1>3, <2>1, <2>4, AskedAfter
    <3> QED
      BY <1>1, <1>4, <2>2, <3>1, <3>2, DomainAsked
  <2> QED
    BY <2>3, <2>4
<1> QED
  BY <1>7, <1>8, <1>9

\* Requests on their way, but for the two that insert what they asked for.
LEMMA PlanRequest ==
  ASSUME Tables, OpsOK, OpInv, NEW a \in Accts, NEW p \in Requests,
         \/ CreateOwner(p) \/ InsertAccount(p) \/ PrepareAccount(p) \/ DropAccount(p)
         \/ DropOwner(p) \/ PrepareSite(p) \/ Deploy(p) \/ Abandon(p)
  PROVE  SiteStep(a) /\ DomainStep(a)
<1>1. After(p) /\ op[p] \in Call /\ op[p].at \in Stages
  BY Steps, SteppedOp, RowsAreThere DEF Stepped
<1>2. /\ Adding(a)' = Adding(a) \ {p}
      /\ op'[p].at # "insert" => Inserting(a)' = Inserting(a) \ {p}
  <2>1. ~(op'[p].kind = "domain" /\ op'[p].at = "domain")
    BY <1>1, RowsAreThere DEF After, Flow, OpInv
  <2>2. \A q \in Requests \ {p} : op'[q] = op[q]
    BY <1>1 DEF After
  <2> QED
    BY <2>1, <2>2, AskedAfter
<1>3. op[p].at \notin {"insert", "domain"} => p \notin Inserting(a) /\ p \notin Adding(a)
  BY DEF Inserting, Adding
<1>4. CASE Abandon(p) \/ CreateOwner(p) \/ DropOwner(p)
  <2>1. UNCHANGED <<acct, site, domain>>
    BY <1>4 DEF Abandon, CreateOwner, DropOwner
  <2>2. op'[p].at # "insert"
    <3>1. End(p) \/ op[p].at # "dirs"
      BY <1>4 DEF Abandon, CreateOwner, DropOwner, Busy
    <3>2. End(p) => op'[p] = Idle
      BY DEF End, OpsOK
    <3> QED
      BY <1>1, <3>1, <3>2, RowsAreThere DEF After, Flow
  <2>3. SitesOf(a)' = SitesOf(a) /\ AddedTo(a)' = AddedTo(a) /\ acct'[a].moved = acct[a].moved
    BY <2>1 DEF SitesOf, AddedTo, DomainsOf
  <2> QED
    BY <1>2, <2>2, <2>3, SiteLeaves, DomainLeaves
<1>5. CASE InsertAccount(p)
  <2>1. op[p].at = "account" /\ site' = site /\ domain' = domain
    BY <1>5 DEF InsertAccount, Busy
  <2>2. op'[p].at # "insert"
    BY <1>1, <2>1, RowsAreThere DEF After, Flow
  <2>3. acct'[a].moved = acct[a].moved \/ acct'[a].moved = TRUE
    <3> DEFINE b == op[p].site[1]
    <3>1. PICK moved \in BOOLEAN :
            \/ acct' = acct
            \/ /\ acct[b] = NoAcct
               /\ acct' = [acct EXCEPT ![b] =
                    [status |-> "active", owner |-> op[p].owner, moved |-> moved]]
      BY <1>5 DEF InsertAccount
    <3> DEFINE row == [status |-> "active", owner |-> op[p].owner, moved |-> moved]
    <3>2. row.moved \in BOOLEAN /\ NoAcct.moved = FALSE
      BY DEF NoAcct
    <3>3. acct' = acct \/ (acct[b] = NoAcct /\ acct' = [acct EXCEPT ![b] = row])
      BY <3>1
    <3> HIDE DEF b, row
    <3>4. acct'[a] = acct[a] \/ (acct[a] = NoAcct /\ acct'[a] = row)
      BY <3>3 DEF Tables, AcctsOK
    <3> QED
      BY <3>2, <3>4
  <2>4. SitesOf(a)' = SitesOf(a) /\ AddedTo(a)' = AddedTo(a)
    BY <2>1 DEF SitesOf, AddedTo, DomainsOf
  <2>5. CASE acct'[a].moved = acct[a].moved
    BY <1>2, <2>2, <2>4, <2>5, SiteLeaves, DomainLeaves
  <2>6. CASE acct'[a].moved = TRUE
    <3>1. Inserting(a)' = Inserting(a) /\ Adding(a)' = Adding(a)
      BY <1>2, <1>3, <2>1, <2>2
    <3> QED
      BY <2>4, <2>6, <3>1, PlanLifts
  <2> QED
    BY <2>3, <2>5, <2>6
<1>6. CASE PrepareAccount(p)
  <2>1. UNCHANGED <<acct, site, domain>> /\ op[p].at = "dirs"
    BY <1>6 DEF PrepareAccount, Busy
  <2>2. SitesOf(a)' = SitesOf(a) /\ AddedTo(a)' = AddedTo(a) /\ acct'[a].moved = acct[a].moved
    BY <2>1 DEF SitesOf, AddedTo, DomainsOf
  <2>3. DomainStep(a)
    BY <1>2, <2>2, DomainLeaves
  <2>4. CASE op'[p].at # "insert"
    BY <1>2, <2>2, <2>3, <2>4, SiteLeaves
  <2>5. CASE op'[p].at = "insert"
    <3>1. WithinSites(op[p].site[1]) /\ op'[p].site = op[p].site
      <4>1. \/ GoTo(p, "dropaccount") \/ End(p)
            \/ WithinSites(op[p].site[1])
        BY <1>6 DEF PrepareAccount
      <4>2. GoTo(p, "dropaccount") => op'[p] = [op[p] EXCEPT !.at = "dropaccount"]
        BY DEF GoTo, OpsOK
      <4>3. [op[p] EXCEPT !.at = "dropaccount"].at = "dropaccount"
        BY <1>1 DEF Call
      <4>4. End(p) => op'[p] = Idle
        BY DEF End, OpsOK
      <4> QED
        BY <1>1, <2>5, <4>1, <4>2, <4>3, <4>4, RowsAreThere DEF After
    <3>2. \A q \in Requests \ {p} : op'[q] = op[q]
      BY <1>1 DEF After
    <3>3. CASE a # op[p].site[1]
      <4>1. Inserting(a)' = Inserting(a) \ {p}
        BY <3>1, <3>2, <3>3, AskedAfter
      <4> QED
        BY <2>2, <2>3, <4>1, SiteLeaves
    <3>4. CASE a = op[p].site[1]
      <4>1. Inserting(a)' = Inserting(a) \cup {p}
        BY <2>5, <3>1, <3>2, <3>4, AskedAfter
      <4> QED
        BY <1>3, <2>1, <2>3, <3>1, <3>4, <4>1, SiteAsked
    <3> QED
      BY <3>3, <3>4
  <2> QED
    BY <2>4, <2>5
<1>7. CASE DropAccount(p) \/ PrepareSite(p) \/ Deploy(p)
  <2>1. Tables' /\ Fewer
    BY <1>7, RequestChanges
  <2>2. op[p].at \in {"dropaccount", "prepare", "deploy"}
    BY <1>7 DEF DropAccount, PrepareSite, Deploy, Busy
  <2>3. op'[p].at # "insert"
    BY <1>1, <2>2, RowsAreThere DEF After, Flow
  <2>4. Inserting(a)' = Inserting(a) /\ Adding(a)' = Adding(a)
    BY <1>2, <1>3, <2>2, <2>3
  <2>5. acct'[a] = acct[a] \/ acct'[a] = NoAcct
    BY <1>7 DEF DropAccount, PrepareSite, Deploy, Tables, AcctsOK
  <2>6. CASE acct'[a] = NoAcct
    BY <2>1, <2>4, <2>6, PlanRenews
  <2>7. CASE acct'[a] = acct[a]
    BY <2>1, <2>4, <2>7, FewerRows, PlanGives
  <2> QED
    BY <2>5, <2>6, <2>7
<1> QED
  BY <1>4, <1>5, <1>6, <1>7

LEMMA PlanSiteInserted ==
  ASSUME Tables, OpsOK, OpInv, NEW a \in Accts, NEW p \in Requests, InsertSite(p)
  PROVE  SiteStep(a) /\ DomainStep(a)
<1> DEFINE s == op[p].site
<1>1. acct' = acct /\ domain' = domain /\ op[p] \in Call /\ Stepped(p)
  BY SiteInserted
<1>2. op[p].at = "insert" /\ s \in Sites
  BY <1>1, RowsAreThere DEF InsertSite, Busy
<1>3. After(p)
  BY <1>1, SteppedOp
<1>4. op'[p].at \notin {"insert", "domain"}
  BY <1>2, <1>3, RowsAreThere DEF After, Flow
<1>5. Inserting(a)' = Inserting(a) \ {p} /\ Adding(a)' = Adding(a) \ {p}
  BY <1>3, <1>4, AskedAfter DEF After
<1>6. acct'[a].moved = acct[a].moved /\ AddedTo(a)' = AddedTo(a)
  BY <1>1 DEF AddedTo, DomainsOf
<1>7. DomainStep(a)
  BY <1>5, <1>6, DomainLeaves
<1>8. CASE SitesOf(a)' = SitesOf(a)
  BY <1>5, <1>6, <1>7, <1>8, SiteLeaves
<1>9. CASE /\ s[1] = a /\ site[s] = NoSite
           /\ site' = [site EXCEPT ![s] = [status |-> "provisioning", up |-> FALSE]]
  <2> DEFINE row == [status |-> "provisioning", up |-> FALSE]
  <2>1. row # NoSite
    <3>1. row \in SiteRow
      BY DEF SiteRow
    <3> QED
      BY <3>1, RowsAreThere
  <2>2. site'[s] = row /\ \A t \in Sites \ {s} : site'[t] = site[t]
    BY <1>2, <1>9 DEF Tables, SitesOK
  <2> HIDE DEF row
  <2>3. s \notin SitesOf(a) /\ SitesOf(a)' = SitesOf(a) \cup {s}
    BY <1>2, <1>9, <2>1, <2>2 DEF SitesOf
  <2>4. p \in Inserting(a)
    BY <1>2, <1>9 DEF Inserting
  <2>5. SitePlan(a)!Take(p, s)
    BY <1>5, <1>6, <2>3, <2>4 DEF SitePlan!Take
  <2>6. SiteStep(a)
    BY <1>2, <2>5 DEF SiteStep, SitePlan!Next
  <2> QED
    BY <1>7, <2>6
<1>10. CASE site' = site
  BY <1>8, <1>10 DEF SitesOf
<1>11. CASE s[1] # a /\ site' = [site EXCEPT ![s] = [status |-> "provisioning", up |-> FALSE]]
  <2>1. \A t \in Sites : t[1] = a => site'[t] = site[t]
    BY <1>2, <1>11 DEF Tables, SitesOK
  <2>2. SitesOf(a)' = SitesOf(a)
    BY <2>1 DEF SitesOf
  <2> QED
    BY <1>8, <2>2
<1> QED
  BY <1>9, <1>10, <1>11 DEF InsertSite

LEMMA PlanDomainInserted ==
  ASSUME Tables, OpsOK, OpInv, NEW a \in Accts, NEW p \in Requests, InsertDomain(p)
  PROVE  SiteStep(a) /\ DomainStep(a)
<1> DEFINE s == op[p].site
           h == op[p].host
           row == [site |-> s, to |-> op[p].to,
                   kind |-> IF op[p].kind = "domain" THEN "addon" ELSE "primary"]
<1>1. /\ acct' = acct /\ site' = site /\ op[p] \in Call /\ Stepped(p)
      /\ op[p].at = "domain" /\ (op[p].kind = "domain" => op'[p] = Idle)
  BY DomainInserted
<1>2. After(p)
  BY <1>1, SteppedOp
<1>3. h \in Hosts
  BY <1>1 DEF OpInv, Call
<1>4. op'[p].at # "insert" /\ ~(op'[p].kind = "domain" /\ op'[p].at = "domain")
  BY <1>1, <1>2, RowsAreThere DEF After, Flow
<1>5. Inserting(a)' = Inserting(a) \ {p} /\ Adding(a)' = Adding(a) \ {p}
  BY <1>2, <1>4, AskedAfter DEF After
<1>6. acct'[a].moved = acct[a].moved /\ SitesOf(a)' = SitesOf(a)
  BY <1>1 DEF SitesOf
<1>7. SiteStep(a)
  BY <1>5, <1>6, SiteLeaves
<1>8. CASE AddedTo(a)' = AddedTo(a)
  BY <1>5, <1>6, <1>7, <1>8, DomainLeaves
<1>9. domain' = domain \/ (domain[h] = Free /\ domain' = [domain EXCEPT ![h] = row])
  BY DEF InsertDomain
<1>10. CASE domain' = domain
  BY <1>8, <1>10 DEF AddedTo, DomainsOf
<1>11. CASE domain[h] = Free /\ domain' = [domain EXCEPT ![h] = row]
  <2>1. row.site = s /\ row.kind = (IF op[p].kind = "domain" THEN "addon" ELSE "primary")
    OBVIOUS
  <2>2. row # Free
    <3>1. Free.kind = "none"
      BY DEF Free
    <3> QED
      BY <2>1, <3>1
  <2>3. domain'[h] = row /\ \A g \in Hosts \ {h} : domain'[g] = domain[g]
    BY <1>3, <1>11 DEF Tables, DomainsOK
  <2> HIDE DEF row
  <2>4. h \notin AddedTo(a)
    BY <1>11 DEF AddedTo, DomainsOf
  <2>5. CASE op[p].kind # "domain" \/ s[1] # a
    <3>1. AddedTo(a)' = AddedTo(a)
      BY <2>1, <2>3, <2>4, <2>5 DEF AddedTo, DomainsOf
    <3> QED
      BY <1>8, <3>1
  <2>6. CASE op[p].kind = "domain" /\ s[1] = a
    <3>1. AddedTo(a)' = AddedTo(a) \cup {h}
      BY <1>3, <2>1, <2>2, <2>3, <2>4, <2>6 DEF AddedTo, DomainsOf
    <3>2. p \in Adding(a)
      BY <1>1, <2>6 DEF Adding
    <3>3. DomainPlan(a)!Take(p, h)
      BY <1>5, <1>6, <2>4, <3>1, <3>2 DEF DomainPlan!Take
    <3>4. DomainStep(a)
      BY <1>3, <3>3 DEF DomainStep, DomainPlan!Next
    <3> QED
      BY <1>7, <3>4
  <2> QED
    BY <2>5, <2>6
<1> QED
  BY <1>9, <1>10, <1>11

LEMMA PlanStep ==
  ASSUME IInv, [Next]_vars, NEW a \in Accts
  PROVE  SiteStep(a) /\ DomainStep(a)
<1>1. Tables /\ OpsOK /\ OpInv
  BY TypeParts DEF IInv, Tables
<1>2. CASE UNCHANGED vars
  <2>1. /\ acct'[a].moved = acct[a].moved
        /\ SitesOf(a)' = SitesOf(a) /\ AddedTo(a)' = AddedTo(a)
        /\ Inserting(a)' = Inserting(a) /\ Adding(a)' = Adding(a)
    BY <1>2 DEF vars, SitesOf, AddedTo, DomainsOf, Inserting, Adding
  <2> QED
    BY <2>1, PlanGives
<1>3. CASE Next
  <2>1. CASE \/ EditPlan
             \/ \E b \in Accts : ChangePlan(b) \/ Suspend(b) \/ Unsuspend(b) \/ Terminate(b)
             \/ \E s \in Sites : StopOrStart(s) \/ DeleteSite(s)
             \/ \E h \in Hosts : RemoveDomain(h)
    BY <1>1, <2>1, PlanStatement
  <2>2. ASSUME NEW p \in Requests, NEW h \in Hosts \cup {NoHost},
               \/ \E b \in Accts, o \in Owners \cup {NoOwner} : CallCreateAccount(p, b, o, h)
               \/ \E s \in Sites : CallCreateSite(p, s, h)
               \/ \E s \in Sites, to \in Targets \cup {NoHost} :
                    h # NoHost /\ CallAddDomain(p, s, h, to)
        PROVE  SiteStep(a) /\ DomainStep(a)
    BY <1>1, <2>2, PlanCall
  <2>3. ASSUME NEW p \in Requests,
               \/ CreateOwner(p) \/ InsertAccount(p) \/ PrepareAccount(p) \/ DropAccount(p)
               \/ DropOwner(p) \/ PrepareSite(p) \/ Deploy(p) \/ Abandon(p)
        PROVE  SiteStep(a) /\ DomainStep(a)
    BY <1>1, <2>3, PlanRequest
  <2>4. ASSUME NEW p \in Requests, InsertSite(p) \/ InsertDomain(p)
        PROVE  SiteStep(a) /\ DomainStep(a)
    BY <1>1, <2>4, PlanSiteInserted, PlanDomainInserted
  <2> QED
    BY <1>3, <2>1, <2>2, <2>3, <2>4 DEF Next
<1> QED
  BY <1>2, <1>3

LEMMA PlanInit ==
  ASSUME Init, NEW a \in Accts
  PROVE  SitePlan(a)!Init /\ DomainPlan(a)!Init
<1>1. Inserting(a) = {} /\ Adding(a) = {} /\ AddedTo(a) = {}
  BY RowsAreThere DEF Init, Inserting, Adding, AddedTo, DomainsOf
<1>2. acct[a].moved = FALSE
  BY DEF Init, NoAcct
<1>3. IsFiniteSet({}) /\ Cardinality({}) = 0
  BY FS_EmptySet
<1>4. DomainPlan(a)!IsFiniteSet({}) /\ DomainPlan(a)!Cardinality({}) = 0
  BY <1>3 DEF DomainPlan!IsFiniteSet, DomainPlan!Cardinality, IsFiniteSet, Cardinality
<1>5. DomainPlan(a)!Init
  BY <1>1, <1>2, <1>4, LimitsAssumption DEF DomainPlan!Init
<1>6. IsFiniteSet(SitesOf(a)) /\ Cardinality(SitesOf(a)) <= MaxSites
  <2>1. CASE a \notin Old
    <3>1. SitesOf(a) = {}
      BY <2>1 DEF Init, SitesOf
    <3> QED
      BY <1>3, <3>1, LimitsAssumption
  <2>2. CASE a \in Old
    <3>1. SitesOf(a) \subseteq {<<a, Principal>>}
      BY DEF Init, SitesOf, Sites
    <3>2. IsFiniteSet({<<a, Principal>>}) /\ Cardinality({<<a, Principal>>}) = 1
      BY FS_Singleton
    <3>3. IsFiniteSet(SitesOf(a)) /\ Cardinality(SitesOf(a)) <= 1 /\ Cardinality(SitesOf(a)) \in Nat
      BY <3>1, <3>2, FS_Subset, FS_CardinalityType
    <3> QED
      BY <2>2, <3>3, LimitsAssumption
  <2> QED
    BY <2>1, <2>2
<1>7. SitePlan(a)!IsFiniteSet(SitesOf(a)) /\ SitePlan(a)!Cardinality(SitesOf(a)) <= MaxSites
  BY <1>6 DEF SitePlan!IsFiniteSet, SitePlan!Cardinality, IsFiniteSet, Cardinality
<1>8. SitesOf(a) \subseteq Sites
  BY DEF SitesOf
<1> QED
  BY <1>1, <1>2, <1>5, <1>7, <1>8 DEF SitePlan!Init

-----------------------------------------------------------------------------
(* Lists.                                                                  *)

\* s is a list of m members of S.
IsList(s, S, m) == m \in Nat /\ s \in [1 .. m -> S]

\* u is s and then t.
Continues(u, s, p, t, q) ==
  (\A i \in 1 .. p : u[i] = s[i]) /\ (\A i \in 1 .. q : u[p + i] = t[i])

\* What is in a list that two make, and where.
LEMMA Concatenated ==
  ASSUME NEW S, NEW p, NEW q, NEW s, NEW t, IsList(s, S, p), IsList(t, S, q)
  PROVE  /\ IsList(s \o t, S, p + q)
         /\ Continues(s \o t, s, p, t, q)
         /\ \A x : x \in ToSet(s \o t) <=> x \in ToSet(s) \/ x \in ToSet(t)
<1>0. p \in Nat /\ q \in Nat /\ s \in [1 .. p -> S] /\ t \in [1 .. q -> S]
  BY DEF IsList
<1>1. s \in Seq(S) /\ t \in Seq(S) /\ Len(s) = p /\ Len(t) = q
  <2>1. s \in Seq(S) /\ t \in Seq(S)
    BY <1>0, SeqDef
  <2>2. (DOMAIN s = 1 .. Len(s) /\ Len(s) \in Nat) /\ DOMAIN t = 1 .. Len(t) /\ Len(t) \in Nat
    BY <2>1, LenProperties
  <2>3. DOMAIN s = 1 .. p /\ DOMAIN t = 1 .. q
    BY <1>0
  <2> QED
    BY <1>0, <2>1, <2>2, <2>3
<1>2. /\ s \o t \in Seq(S) /\ Len(s \o t) = p + q
      /\ \A i \in 1 .. p + q : (s \o t)[i] = IF i <= p THEN s[i] ELSE t[i - p]
  BY <1>1, ConcatProperties, Zenon
<1>3. s \o t \in [1 .. p + q -> S]
  BY <1>2, LenProperties
<1>4. \A i \in 1 .. p : (s \o t)[i] = s[i]
  BY <1>0, <1>2
<1>5. \A i \in 1 .. q : (s \o t)[p + i] = t[i]
  <2> SUFFICES ASSUME NEW i \in 1 .. q PROVE (s \o t)[p + i] = t[i]
    OBVIOUS
  <2>1. p + i \in 1 .. p + q /\ ~(p + i <= p) /\ (p + i) - p = i
    BY <1>0
  <2> QED
    BY <1>2, <2>1
<1>6. \A x : x \in ToSet(s \o t) <=> x \in ToSet(s) \/ x \in ToSet(t)
  <2>1. DOMAIN s = 1 .. p /\ DOMAIN t = 1 .. q /\ DOMAIN (s \o t) = 1 .. p + q
    BY <1>0, <1>3
  <2>2. \A i \in 1 .. p + q : i \in 1 .. p \/ \E j \in 1 .. q : i = p + j
    <3> SUFFICES ASSUME NEW i \in 1 .. p + q, i \notin 1 .. p PROVE \E j \in 1 .. q : i = p + j
      OBVIOUS
    <3>1. i - p \in 1 .. q /\ i = p + (i - p)
      BY <1>0
    <3> QED
      BY <3>1
  <2>3. (\A i \in 1 .. p : i \in 1 .. p + q) /\ \A j \in 1 .. q : p + j \in 1 .. p + q
    BY <1>0
  <2>4. ASSUME NEW x \in ToSet(s \o t) PROVE x \in ToSet(s) \/ x \in ToSet(t)
    <3>1. PICK i \in 1 .. p + q : x = (s \o t)[i]
      BY <2>1, <2>4 DEF ToSet
    <3>2. CASE i \in 1 .. p
      BY <1>4, <2>1, <3>1, <3>2 DEF ToSet
    <3>3. ASSUME NEW j \in 1 .. q, i = p + j PROVE x \in ToSet(t)
      BY <1>5, <2>1, <3>1, <3>3 DEF ToSet
    <3> QED
      BY <2>2, <3>2, <3>3
  <2>5. ASSUME NEW x \in ToSet(s) \cup ToSet(t) PROVE x \in ToSet(s \o t)
    BY <1>4, <1>5, <2>1, <2>3, <2>5 DEF ToSet
  <2> QED
    BY <2>4, <2>5
<1> QED
  BY <1>0, <1>3, <1>4, <1>5, <1>6 DEF IsList, Continues

\* The same of a list that is known to be the two.
LEMMA Joined ==
  ASSUME NEW S, NEW p, NEW q, NEW s, NEW t, IsList(s, S, p), IsList(t, S, q),
         NEW u, u = s \o t
  PROVE  /\ IsList(u, S, p + q)
         /\ Continues(u, s, p, t, q)
         /\ \A x : x \in ToSet(u) <=> x \in ToSet(s) \/ x \in ToSet(t)
<1>1. /\ IsList(s \o t, S, p + q)
      /\ Continues(s \o t, s, p, t, q)
      /\ \A x : x \in ToSet(s \o t) <=> x \in ToSet(s) \/ x \in ToSet(t)
  BY Concatenated
<1> QED
  BY <1>1

\* A set of numbers that is not empty has a least one.
LEMMA LeastExists ==
  ASSUME NEW S \in SUBSET Nat, S # {}
  PROVE  \E i \in S : \A k \in S : i <= k
<1>1. PICK i \in S : \A k \in S : ~(<<k, i>> \in OpToRel(<, Nat))
  BY WFMin, NatLessThanWellFounded
<1>2. ASSUME NEW k \in S PROVE i <= k
  <2>1. k \in Nat /\ i \in Nat /\ <<k, i>> \notin OpToRel(<, Nat)
    BY <1>1, <1>2
  <2>2. k < i => <<k, i>> \in OpToRel(<, Nat)
    BY <2>1 DEF OpToRel
  <2>3. ~(k < i)
    BY <2>1, <2>2, Zenon
  <2>4. k \in Nat /\ i \in Nat
    BY <2>1
  <2> QED
    BY <2>3, <2>4
<1> QED
  BY <1>2

\* A list of lists laid end to end has what they have.
LEMMA Flattened ==
  ASSUME NEW S, NEW n \in Nat, NEW seqs \in [1 .. n -> Seq(S)]
  PROVE  /\ FlattenSeq(seqs) \in Seq(S)
         /\ \A x : x \in ToSet(FlattenSeq(seqs)) <=> \E i \in 1 .. n : x \in ToSet(seqs[i])
<1> DEFINE Step(f, i) == IF i = 1 THEN seqs[i] ELSE f[i - 1] \o seqs[i]
<1>1. Len(seqs) = n
  <2>1. seqs \in Seq(Seq(S))
    BY SeqDef
  <2>2. Len(seqs) \in Nat /\ DOMAIN seqs = 1 .. Len(seqs)
    BY <2>1, LenProperties
  <2>3. DOMAIN seqs = 1 .. n
    OBVIOUS
  <2> QED
    BY <2>2, <2>3
<1>0. ASSUME NEW p, NEW q, NEW s, NEW t, IsList(s, S, p), IsList(t, S, q)
      PROVE  \A x : x \in ToSet(s \o t) <=> x \in ToSet(s) \/ x \in ToSet(t)
  BY <1>0, Concatenated
<1>2. \A s, t \in Seq(S) : /\ s \o t \in Seq(S)
                         /\ \A x : x \in ToSet(s \o t) <=> x \in ToSet(s) \/ x \in ToSet(t)
  <2> SUFFICES ASSUME NEW s \in Seq(S), NEW t \in Seq(S)
               PROVE  /\ s \o t \in Seq(S)
                      /\ \A x : x \in ToSet(s \o t) <=> x \in ToSet(s) \/ x \in ToSet(t)
    OBVIOUS
  <2>1. /\ s \in [1 .. Len(s) -> S] /\ Len(s) \in Nat
        /\ t \in [1 .. Len(t) -> S] /\ Len(t) \in Nat
    BY LenProperties
  <2>2. IsList(s, S, Len(s)) /\ IsList(t, S, Len(t))
    BY <2>1 DEF IsList
  <2>3. \A x : x \in ToSet(s \o t) <=> x \in ToSet(s) \/ x \in ToSet(t)
    BY <1>0, <2>2
  <2> QED
    BY <2>3, ConcatProperties
<1>3. CASE n = 0
  <2>1. FlattenSeq(seqs) = seqs
    BY <1>1, <1>3 DEF FlattenSeq
  <2>2. DOMAIN seqs = {} /\ seqs \in [1 .. 0 -> S]
    BY <1>3
  <2>3. seqs \in Seq(S)
    BY <2>2, SeqDef
  <2>4. ToSet(seqs) = {}
    BY <2>2 DEF ToSet
  <2> QED
    BY <1>3, <2>1, <2>3, <2>4
<1>4. CASE n # 0
  <2> DEFINE Run(m) == \E f \in [1 .. m -> Seq(S)] : \A i \in 1 .. m : f[i] = Step(f, i)
  <2>1. \A m \in 0 .. n : Run(m)
    <3> DEFINE bad == {m \in 0 .. n : ~Run(m)}
    <3> SUFFICES ASSUME bad # {} PROVE FALSE
      OBVIOUS
    <3>0. bad \subseteq 0 .. n /\ bad \in SUBSET Nat
      <4> HIDE DEF Run
      <4> QED
        OBVIOUS
    <3>1. PICK m \in bad : \A k \in bad : m <= k
      <4> HIDE DEF bad
      <4> QED
        BY <3>0, LeastExists
    <3>2. m # 0
      <4>1. [i \in 1 .. 0 |-> <<>>] \in [1 .. 0 -> Seq(S)]
        OBVIOUS
      <4>2. \A i \in 1 .. 0 : FALSE
        OBVIOUS
      <4>3. Run(0)
        BY <4>1, <4>2
      <4> HIDE DEF Run
      <4> QED
        BY <3>1, <4>3
    <3>3. m - 1 \in 0 .. n /\ m \in 1 .. n
      <4> HIDE DEF Run
      <4> QED
        BY <3>1, <3>2
    <3>4. Run(m - 1)
      <4> HIDE DEF Run
      <4> QED
        BY <3>1, <3>3
    <3>5. PICK g \in [1 .. m - 1 -> Seq(S)] : \A i \in 1 .. m - 1 : g[i] = Step(g, i)
      BY <3>4
    <3> DEFINE f == [i \in 1 .. m |-> IF i = m THEN Step(g, m) ELSE g[i]]
    <3>6. Step(g, m) \in Seq(S)
      <4>1. CASE m = 1
        BY <3>3, <4>1
      <4>2. CASE m # 1
        <5>1. m - 1 \in 1 .. m - 1
          BY <3>3, <4>2
        <5>2. g[m - 1] \in Seq(S) /\ seqs[m] \in Seq(S)
          BY <3>3, <5>1
        <5> QED
          BY <1>2, <4>2, <5>2
      <4> QED
        BY <4>1, <4>2
    <3>7. f \in [1 .. m -> Seq(S)]
      <4>1. ASSUME NEW i \in 1 .. m, i # m PROVE g[i] \in Seq(S)
        <5>1. i \in 1 .. m - 1
          BY <3>3, <4>1
        <5> QED
          BY <5>1
      <4> QED
        BY <3>6, <4>1
    <3>8. ASSUME NEW i \in 1 .. m PROVE f[i] = Step(f, i)
      <4>1. i # 1 => i - 1 \in 1 .. m /\ i - 1 # m
        BY <3>3
      <4>2. i # 1 => f[i - 1] = g[i - 1]
        BY <4>1
      <4>3. Step(f, i) = Step(g, i)
        BY <4>2
      <4>4. CASE i = m
        BY <4>3, <4>4
      <4>5. CASE i # m
        <5>1. i \in 1 .. m - 1
          BY <3>3, <4>5
        <5>2. f[i] = g[i]
          BY <4>5
        <5> QED
          BY <3>5, <4>3, <5>1, <5>2
      <4> QED
        BY <4>4, <4>5
    <3>9. Run(m)
      BY <3>7, <3>8, Zenon
    <3> HIDE DEF Run
    <3> QED
      BY <3>1, <3>9
  <2>2. PICK e \in [1 .. n -> Seq(S)] : \A i \in 1 .. n : e[i] = Step(e, i)
    <3>1. Run(n)
      <4> HIDE DEF Run
      <4> QED
        BY <2>1
    <3> QED
      BY <3>1
  <2>3. e = [i \in 1 .. n |-> IF i = 1 THEN seqs[i] ELSE e[i - 1] \o seqs[i]]
    BY <2>2, Zenon
  <2> DEFINE flatten ==
               CHOOSE f : f = [i \in 1 .. n |-> IF i = 1 THEN seqs[i] ELSE f[i - 1] \o seqs[i]]
  <2>4. flatten = [i \in 1 .. n |-> IF i = 1 THEN seqs[i] ELSE flatten[i - 1] \o seqs[i]]
    BY <2>3, Zenon
  <2>5. FlattenSeq(seqs) = flatten[n]
    BY <1>1, <1>4 DEF FlattenSeq
  <2> HIDE DEF flatten
  <2> DEFINE Listed(m) == /\ flatten[m] \in Seq(S)
                          /\ \A x : x \in ToSet(flatten[m]) <=> \E i \in 1 .. m : x \in ToSet(seqs[i])
  <2>6. \A m \in 1 .. n : Listed(m)
    <3> DEFINE bad == {m \in 1 .. n : ~Listed(m)}
    <3> SUFFICES ASSUME bad # {} PROVE FALSE
      OBVIOUS
    <3>0. bad \subseteq 1 .. n /\ bad \in SUBSET Nat
      <4> HIDE DEF Listed
      <4> QED
        OBVIOUS
    <3>1. PICK m \in bad : \A k \in bad : m <= k
      <4> HIDE DEF bad
      <4> QED
        BY <3>0, LeastExists
    <3>2. CASE m = 1
      <4>1. flatten[1] = seqs[1] /\ seqs[1] \in Seq(S)
        BY <2>4, <3>1, <3>2
      <4>2. \A i \in 1 .. 1 : i = 1
        OBVIOUS
      <4>3. Listed(1)
        BY <4>1, <4>2
      <4> HIDE DEF Listed
      <4> QED
        BY <3>1, <3>2, <4>3
    <3>3. CASE m # 1
      <4>0. m \in 1 .. n
        BY <3>1
      <4>1. m - 1 \in 1 .. n /\ m - 1 < m
        BY <4>0, <3>3
      <4>2. Listed(m - 1)
        <5> HIDE DEF Listed
        <5> QED
          BY <3>1, <4>1
      <4>3. flatten[m] = flatten[m - 1] \o seqs[m] /\ seqs[m] \in Seq(S)
        BY <2>4, <3>3, <4>0
      <4>4. /\ flatten[m] \in Seq(S)
            /\ \A x : x \in ToSet(flatten[m]) <=> x \in ToSet(flatten[m - 1]) \/ x \in ToSet(seqs[m])
        BY <1>2, <4>2, <4>3
      <4>5. \A i : i \in 1 .. m <=> i \in 1 .. m - 1 \/ i = m
        BY <4>0
      <4>6. Listed(m)
        BY <4>2, <4>4, <4>5
      <4> HIDE DEF Listed
      <4> QED
        BY <3>1, <4>6
    <3> QED
      BY <3>2, <3>3
  <2>7. Listed(n)
    <3> HIDE DEF Listed
    <3> QED
      BY <1>4, <2>6
  <2> QED
    BY <2>5, <2>7
<1> QED
  BY <1>3, <1>4

\* What EdgeConfig takes from the library is what is taken from it here.
LEMMA SameLibrary ==
  /\ \A S : Edge!Cardinality(S) = Cardinality(S)
  /\ \A s : Edge!ToSet(s) = ToSet(s)
  /\ \A s : Edge!FlattenSeq(s) = FlattenSeq(s)
<1>1. \A S : Edge!Cardinality(S) = Cardinality(S)
  BY DEF Edge!Cardinality, Cardinality
<1>2. \A s : Edge!ToSet(s) = ToSet(s)
  BY DEF Edge!ToSet, ToSet
<1>3. \A s : Edge!FlattenSeq(s) = FlattenSeq(s)
  BY DEF Edge!FlattenSeq, FlattenSeq
<1> QED
  BY <1>1, <1>2, <1>3

\* What is counted to place x among the numbers of S.
Below(x, S) == {y \in S : y < x}

\* Ranks are positions, and in the order of the numbers.
LEMMA Ranks ==
  ASSUME NEW S \in SUBSET Nat, IsFiniteSet(S), NEW x \in S
  PROVE  /\ Edge!Rank(x, S) = Cardinality(Below(x, S))
         /\ Edge!Rank(x, S) \in 0 .. Cardinality(S) - 1
         /\ \A y \in S : x < y => Edge!Rank(x, S) < Edge!Rank(y, S)
<1>1. \A y : Edge!Rank(y, S) = Cardinality(Below(y, S))
  BY SameLibrary, Zenon DEF Edge!Rank, Below
<1>2. ASSUME NEW T, IsFiniteSet(T), NEW U \in SUBSET T, U # T
      PROVE  Cardinality(U) \in Nat /\ Cardinality(U) < Cardinality(T) /\ IsFiniteSet(U)
  <2>1. IsFiniteSet(U) /\ Cardinality(U) <= Cardinality(T) /\ Cardinality(U) # Cardinality(T)
    BY <1>2, FS_Subset, Zenon
  <2>2. Cardinality(U) \in Nat /\ Cardinality(T) \in Nat
    BY <1>2, <2>1, FS_CardinalityType
  <2> QED
    BY <2>1, <2>2
<1>3. \A y \in S : Below(y, S) \in SUBSET S /\ Below(y, S) # S /\ IsFiniteSet(Below(y, S))
  <2> SUFFICES ASSUME NEW y \in S
               PROVE  Below(y, S) \in SUBSET S /\ Below(y, S) # S /\ IsFiniteSet(Below(y, S))
    OBVIOUS
  <2>1. Below(y, S) \in SUBSET S
    BY DEF Below
  <2>2. y \notin Below(y, S)
    BY DEF Below
  <2> QED
    BY <2>1, <2>2, FS_Subset
<1>4. Cardinality(S) \in Nat
  BY FS_CardinalityType
<1>5. Edge!Rank(x, S) \in 0 .. Cardinality(S) - 1
  <2>1. Cardinality(Below(x, S)) \in Nat /\ Cardinality(Below(x, S)) < Cardinality(S)
    BY <1>2, <1>3
  <2> QED
    BY <1>1, <1>4, <2>1
<1>6. ASSUME NEW y \in S, x < y PROVE Edge!Rank(x, S) < Edge!Rank(y, S)
  <2>1. Below(x, S) \in SUBSET Below(y, S) /\ x \in Below(y, S) /\ x \notin Below(x, S)
    <3>1. \A z \in S : z \in Nat
      OBVIOUS
    <3>2. \A z \in S : z < x => z < y
      BY <1>6, <3>1
    <3>3. Below(x, S) \in SUBSET Below(y, S)
      BY <3>2, Zenon DEF Below
    <3>4. x \in Below(y, S)
      BY <1>6 DEF Below
    <3>5. x \notin Below(x, S)
      BY <3>1 DEF Below
    <3> QED
      BY <3>3, <3>4, <3>5
  <2>2. Below(x, S) # Below(y, S) /\ IsFiniteSet(Below(y, S))
    BY <1>3, <2>1
  <2>3. Cardinality(Below(x, S)) < Cardinality(Below(y, S))
    BY <1>2, <2>1, <2>2
  <2> QED
    BY <1>1, <2>3
<1> QED
  BY <1>1, <1>5, <1>6

\* Ascending lists a finite set: each element once, smaller ones first.
LEMMA AscendingFacts ==
  ASSUME NEW S \in SUBSET Nat, IsFiniteSet(S)
  PROVE  /\ Cardinality(S) \in Nat
         /\ Edge!Ascending(S) \in [1 .. Cardinality(S) -> S]
         /\ \A x \in S : \E i \in 1 .. Cardinality(S) : Edge!Ascending(S)[i] = x
         /\ \A i, j \in 1 .. Cardinality(S) : i < j => Edge!Ascending(S)[i] < Edge!Ascending(S)[j]
<1> DEFINE n == Cardinality(S)
           a == Edge!Ascending(S)
           R(x) == Edge!Rank(x, S)
<1>1. n \in Nat
  BY FS_CardinalityType
<1>2. \A x \in S : R(x) \in 0 .. n - 1
  BY Ranks
<1>3. \A x, y \in S : x < y => R(x) < R(y)
  BY Ranks
<1>4. \A x, y \in S : R(x) = R(y) => x = y
  <2> SUFFICES ASSUME NEW x \in S, NEW y \in S, R(x) = R(y), x # y PROVE FALSE
    OBVIOUS
  <2>1. x < y \/ y < x
    OBVIOUS
  <2>2. R(x) \in Int /\ R(y) \in Int
    BY <1>1, <1>2
  <2>3. R(x) < R(y) \/ R(y) < R(x)
    BY <1>3, <2>1
  <2> HIDE DEF R, n, a
  <2> QED
    BY <2>2, <2>3
<1>5. \A r \in 0 .. n - 1 : \E x \in S : R(x) = r
  <2> DEFINE f == [x \in S |-> R(x)]
             T == 0 .. n - 1
  <2>1. f \in Injection(S, T)
    <3>1. f \in [S -> T]
      BY <1>2
    <3>2. \A x, y \in S : f[x] = f[y] => x = y
      <4> HIDE DEF R
      <4> QED
        BY <1>4
    <3> HIDE DEF f
    <3> QED
      BY <3>1, <3>2 DEF Injection, IsInjective
  <2>2. IsFiniteSet(T) /\ Cardinality(T) = n
    <3>1. n - 1 \in Int /\ 0 \in Int /\ (0 > n - 1 => n = 0) /\ (n - 1) - 0 + 1 = n
      BY <1>1
    <3>2. IsFiniteSet(T) /\ Cardinality(T) = IF 0 > n - 1 THEN 0 ELSE (n - 1) - 0 + 1
      BY <3>1, FS_Interval
    <3> QED
      BY <3>1, <3>2
  <2>3. f \in Surjection(S, T)
    <3> HIDE DEF f, T
    <3> QED
      BY <2>1, <2>2, FS_Injection
  <2> QED
    BY <2>3 DEF Surjection
<1>6. a = [i \in 1 .. n |-> CHOOSE x \in S : R(x) = i - 1]
  BY SameLibrary, Zenon DEF Edge!Ascending
<1>7. \A i \in 1 .. n : a[i] \in S /\ R(a[i]) = i - 1
  <2> SUFFICES ASSUME NEW i \in 1 .. n PROVE a[i] \in S /\ R(a[i]) = i - 1
    OBVIOUS
  <2>1. i - 1 \in 0 .. n - 1
    BY <1>1
  <2> HIDE DEF R, a, n
  <2>2. \E x \in S : R(x) = i - 1
    BY <1>5, <2>1
  <2>3. a[i] = CHOOSE x \in S : R(x) = i - 1
    BY <1>6
  <2> QED
    BY <2>2, <2>3
<1>8. a \in [1 .. n -> S]
  <2> HIDE DEF R, n
  <2>1. DOMAIN a = 1 .. n /\ a = [i \in 1 .. n |-> a[i]]
    <3> HIDE DEF a
    <3> QED
      BY <1>6
  <2> HIDE DEF a
  <2> QED
    BY <1>7, <2>1
<1>9. \A x \in S : \E i \in 1 .. n : a[i] = x
  <2> SUFFICES ASSUME NEW x \in S PROVE \E i \in 1 .. n : a[i] = x
    OBVIOUS
  <2>1. R(x) + 1 \in 1 .. n /\ (R(x) + 1) - 1 = R(x)
    <3> HIDE DEF R, n
    <3> QED
      BY <1>1, <1>2
  <2> HIDE DEF R, a, n
  <2>2. a[R(x) + 1] = x
    BY <1>4, <1>7, <2>1
  <2> QED
    BY <2>1, <2>2
<1>10. \A i, j \in 1 .. n : i < j => a[i] < a[j]
  <2> SUFFICES ASSUME NEW i \in 1 .. n, NEW j \in 1 .. n, i < j, ~(a[i] < a[j]) PROVE FALSE
    OBVIOUS
  <2>1. a[i] \in S /\ a[j] \in S /\ R(a[i]) = i - 1 /\ R(a[j]) = j - 1
    <3> HIDE DEF R, a, n
    <3> QED
      BY <1>7
  <2> HIDE DEF R, a, n
  <2>2. a[j] < a[i] \/ a[j] = a[i]
    <3>1. a[i] \in Nat /\ a[j] \in Nat
      BY <2>1
    <3> QED
      BY <3>1
  <2>3. R(a[j]) < R(a[i]) \/ R(a[j]) = R(a[i])
    BY <1>3, <2>1, <2>2
  <2> QED
    BY <2>1, <2>3
<1> QED
  BY <1>1, <1>8, <1>9, <1>10

\* Its first element is the least.
LEMMA LeastFirst ==
  ASSUME NEW S \in SUBSET Nat, IsFiniteSet(S), S # {}
  PROVE  Edge!Ascending(S)[1] \in S /\ \A x \in S : Edge!Ascending(S)[1] <= x
<1> DEFINE n == Cardinality(S)
           a == Edge!Ascending(S)
<1>1. /\ n \in Nat /\ a \in [1 .. n -> S]
      /\ \A x \in S : \E i \in 1 .. n : a[i] = x
      /\ \A i, j \in 1 .. n : i < j => a[i] < a[j]
  BY AscendingFacts
<1> HIDE DEF n, a
<1>2. 1 \in 1 .. n
  <2>1. PICK x \in S : TRUE
    OBVIOUS
  <2>2. PICK i \in 1 .. n : a[i] = x
    BY <1>1
  <2> QED
    BY <1>1
<1>3. ASSUME NEW x \in S PROVE a[1] <= x
  <2>1. PICK i \in 1 .. n : a[i] = x
    BY <1>1
  <2>2. i = 1 \/ 1 < i
    BY <1>1
  <2>3. a[1] \in Nat
    BY <1>1, <1>2
  <2> QED
    BY <1>1, <1>2, <2>1, <2>2, <2>3
<1> QED
  BY <1>1, <1>2, <1>3 DEF a

\* at goes through the indexes I of s one by one, and t holds what it finds.
Walks(t, s, I, m, at) ==
  /\ m \in Nat /\ at \in [1 .. m -> I]
  /\ t = [k \in 1 .. m |-> s[at[k]]]
  /\ \A i \in I : \E k \in 1 .. m : at[k] = i
  /\ \A k, l \in 1 .. m : at[k] = at[l] => k = l

\* What is taken of a list is an element for each index, once.
LEMMA TakenFacts ==
  ASSUME NEW s, NEW n \in Nat, NEW I \in SUBSET (1 .. n)
  PROVE  \E m, at : Walks(Edge!Taken(s, I), s, I, m, at)
<1> DEFINE m == Cardinality(I)
           at == Edge!Ascending(I)
<1>1. I \in SUBSET Nat /\ IsFiniteSet(I)
  <2>1. IsFiniteSet(1 .. n)
    BY FS_Interval
  <2>2. IsFiniteSet(I)
    BY <2>1, FS_Subset, Zenon
  <2> QED
    BY <2>2
<1>2. /\ m \in Nat /\ at \in [1 .. m -> I]
      /\ \A x \in I : \E i \in 1 .. m : at[i] = x
      /\ \A i, j \in 1 .. m : i < j => at[i] < at[j]
  BY <1>1, AscendingFacts
<1>3. Edge!Taken(s, I) = [k \in 1 .. m |-> s[at[k]]]
  <2>1. Edge!Taken(s, I) = [k \in DOMAIN at |-> s[at[k]]]
    BY DEF Edge!Taken
  <2>2. DOMAIN at = 1 .. m
    BY <1>2
  <2> HIDE DEF m, at
  <2> QED
    BY <2>1, <2>2
<1>4. \A k, l \in 1 .. m : at[k] = at[l] => k = l
  <2> SUFFICES ASSUME NEW k \in 1 .. m, NEW l \in 1 .. m, at[k] = at[l], k # l PROVE FALSE
    OBVIOUS
  <2> HIDE DEF m, at
  <2>1. k < l \/ l < k
    BY <1>2
  <2>2. at[k] \in Nat /\ at[l] \in Nat
    BY <1>1, <1>2
  <2> QED
    BY <1>2, <2>1, <2>2
<1> QED
  <2> HIDE DEF m, at
  <2>1. Walks(Edge!Taken(s, I), s, I, m, at)
    BY <1>2, <1>3, <1>4 DEF Walks
  <2> QED
    BY <2>1

-----------------------------------------------------------------------------
(* The routes SyncCaddy makes of a routing table.                          *)

\* Rows of the routing table, and routes SyncCaddy hands to Build.
TableRow ==
  [fqdn : Hosts, site : Sites, to : Targets \cup {NoHost}, up : BOOLEAN, running : BOOLEAN]
EdgeRoute == [hosts : Seq(Hosts), to : Targets \cup {NoHost}, up : BOOLEAN, offline : BOOLEAN,
              site : Sites]

\* A routing table: one row for each host, and one site behind all the rows of a site.
IsTable(rows, n) ==
  /\ n \in Nat /\ rows \in [1 .. n -> TableRow]
  /\ \A i, j \in 1 .. n : rows[i].fqdn = rows[j].fqdn => i = j
  /\ \A i, j \in 1 .. n : rows[i].site = rows[j].site =>
       rows[i].up = rows[j].up /\ rows[i].running = rows[j].running

\* Rows i and j of one site that are served by it.
Together(rows, i, j) == rows[j].site = rows[i].site /\ rows[j].to = NoHost

\* What the operators on sequences say of a list.
LEMMA SequenceIs ==
  ASSUME NEW S, NEW m, NEW s, IsList(s, S, m)
  PROVE  /\ m \in Nat
         /\ s \in Seq(S) /\ Len(s) = m /\ DOMAIN s = 1 .. m
         /\ \A x : x \in ToSet(s) <=> \E i \in 1 .. m : s[i] = x
<1>1. m \in Nat /\ s \in Seq(S) /\ DOMAIN s = 1 .. m
  BY SeqDef DEF IsList
<1>2. Len(s) \in Nat /\ DOMAIN s = 1 .. Len(s)
  BY <1>1, LenProperties
<1>3. Len(s) = m
  BY <1>1, <1>2
<1> QED
  BY <1>1, <1>3 DEF ToSet

\* r is the route of the site of row i.
IsSiteRoute(r, rows, n, i) ==
  /\ r \in EdgeRoute
  /\ r.to = NoHost /\ r.up = rows[i].up /\ r.offline = ~rows[i].running
  /\ r.site = rows[i].site
  /\ \A h : h \in ToSet(r.hosts) <=> \E j \in 1 .. n : Together(rows, i, j) /\ rows[j].fqdn = h
  /\ Len(r.hosts) > 0 <=> \E j \in 1 .. n : Together(rows, i, j)

\* A site is one route, with the hosts of its rows that do not redirect.
LEMMA SiteRouteFacts ==
  ASSUME NEW rows, NEW n, IsTable(rows, n), NEW i \in 1 .. n
  PROVE  IsSiteRoute(Edge!SiteRoute(rows, i), rows, n, i)
<1> DEFINE mine == {j \in 1 .. n : Together(rows, i, j)}
           r == Edge!SiteRoute(rows, i)
           fqdns == Edge!Fqdns(rows)
<1>1. /\ n \in Nat /\ rows \in [1 .. n -> TableRow] /\ DOMAIN rows = 1 .. n
      /\ \A j \in 1 .. n : rows[j] \in TableRow
  BY DEF IsTable
<1>2. r = [hosts |-> Edge!Taken(fqdns, mine), to |-> NoHost, up |-> rows[i].up,
           offline |-> ~rows[i].running, site |-> rows[i].site]
  BY <1>1, Zenon DEF Edge!SiteRoute, Together
<1>3. \A j \in 1 .. n : fqdns[j] = rows[j].fqdn /\ rows[j].fqdn \in Hosts
  BY <1>1 DEF Edge!Fqdns, TableRow
<1>4. mine \in SUBSET (1 .. n)
  OBVIOUS
<1> HIDE DEF fqdns, r
<1>5. PICK m, at : Walks(Edge!Taken(fqdns, mine), fqdns, mine, m, at)
  <2> HIDE DEF mine
  <2> QED
    BY <1>1, <1>4, TakenFacts
<1>6. /\ m \in Nat /\ at \in [1 .. m -> mine]
      /\ Edge!Taken(fqdns, mine) = [k \in 1 .. m |-> fqdns[at[k]]]
      /\ \A j \in mine : \E k \in 1 .. m : at[k] = j
  <2> HIDE DEF mine
  <2> QED
    BY <1>5 DEF Walks
<1> DEFINE hosts == r.hosts
<1>7. \A k \in 1 .. m : at[k] \in 1 .. n /\ Together(rows, i, at[k])
  BY <1>6
<1>8. hosts \in [1 .. m -> Hosts] /\ \A k \in 1 .. m : hosts[k] = rows[at[k]].fqdn
  <2>1. hosts = [k \in 1 .. m |-> fqdns[at[k]]]
    <3> HIDE DEF mine
    <3> QED
      BY <1>2, <1>6
  <2> HIDE DEF hosts, mine
  <2> QED
    BY <1>3, <1>7, <2>1
<1>9. /\ hosts \in Seq(Hosts) /\ Len(hosts) = m
      /\ \A x : x \in ToSet(hosts) <=> \E k \in 1 .. m : hosts[k] = x
  <2>1. IsList(hosts, Hosts, m)
    BY <1>6, <1>8 DEF IsList
  <2> HIDE DEF hosts
  <2> QED
    BY <2>1, SequenceIs
<1>10. \A h : h \in ToSet(hosts) <=> \E j \in 1 .. n : Together(rows, i, j) /\ rows[j].fqdn = h
  <2> SUFFICES ASSUME NEW h
               PROVE  h \in ToSet(hosts) <=> \E j \in 1 .. n : Together(rows, i, j) /\ rows[j].fqdn = h
    OBVIOUS
  <2>1. ASSUME h \in ToSet(hosts) PROVE \E j \in 1 .. n : Together(rows, i, j) /\ rows[j].fqdn = h
    <3>1. PICK k \in 1 .. m : hosts[k] = h
      BY <1>9, <2>1
    <3> HIDE DEF hosts
    <3> QED
      BY <1>7, <1>8, <3>1
  <2>2. ASSUME NEW j \in 1 .. n, Together(rows, i, j), rows[j].fqdn = h PROVE h \in ToSet(hosts)
    <3>1. j \in mine
      BY <2>2
    <3>2. PICK k \in 1 .. m : at[k] = j
      BY <1>6, <3>1
    <3> HIDE DEF hosts
    <3> QED
      BY <1>8, <1>9, <2>2, <3>2
  <2> QED
    BY <2>1, <2>2
<1>11. Len(hosts) > 0 <=> \E j \in 1 .. n : Together(rows, i, j)
  <2>1. ASSUME m > 0 PROVE \E j \in 1 .. n : Together(rows, i, j)
    <3>1. 1 \in 1 .. m
      BY <1>6, <2>1
    <3> QED
      BY <1>7, <3>1
  <2>2. ASSUME NEW j \in 1 .. n, Together(rows, i, j) PROVE m > 0
    <3>1. j \in mine
      BY <2>2
    <3>2. PICK k \in 1 .. m : at[k] = j
      BY <1>6, <3>1
    <3> QED
      BY <1>6, <3>2
  <2> HIDE DEF hosts
  <2> QED
    BY <1>9, <2>1, <2>2
<1>12. r \in EdgeRoute
  <2>1. rows[i] \in TableRow /\ hosts \in Seq(Hosts)
    BY <1>1, <1>9
  <2>2. r = [hosts |-> hosts, to |-> NoHost, up |-> rows[i].up,
             offline |-> ~rows[i].running, site |-> rows[i].site]
    BY <1>2
  <2> HIDE DEF hosts
  <2> QED
    BY <2>1, <2>2 DEF EdgeRoute, TableRow
<1>13. r.to = NoHost /\ r.up = rows[i].up /\ r.offline = ~rows[i].running /\ r.site = rows[i].site
  BY <1>2
<1> QED
  BY <1>10, <1>11, <1>12, <1>13, Zenon DEF r, IsSiteRoute

\* A row that redirects is a route of its own.
LEMMA RedirectRouteFacts ==
  ASSUME NEW row \in TableRow
  PROVE  LET r == Edge!RedirectRoute(row)
         IN  /\ r \in EdgeRoute
             /\ r.to = row.to
             /\ \A h : h \in ToSet(r.hosts) <=> h = row.fqdn
             /\ Len(r.hosts) > 0
<1> DEFINE r == Edge!RedirectRoute(row)
<1>1. r = [hosts |-> <<row.fqdn>>, to |-> row.to, up |-> FALSE, offline |-> FALSE, site |-> row.site]
  BY DEF Edge!RedirectRoute
<1>2. row.fqdn \in Hosts /\ row.to \in Targets \cup {NoHost} /\ row.site \in Sites
  BY DEF TableRow
<1>3. <<row.fqdn>> \in [1 .. 1 -> Hosts] /\ <<row.fqdn>>[1] = row.fqdn
  BY <1>2
<1>4. r.hosts \in Seq(Hosts) /\ Len(r.hosts) = 1
  BY <1>1, <1>2
<1>5. \A h : h \in ToSet(<<row.fqdn>>) <=> h = row.fqdn
  <2> DEFINE one == <<row.fqdn>>
  <2>1. one \in [1 .. 1 -> Hosts] /\ one[1] = row.fqdn
    BY <1>3
  <2> HIDE DEF one
  <2>2. DOMAIN one = {1}
    BY <2>1
  <2>3. \A h : h \in ToSet(one) <=> h = row.fqdn
    BY <2>1, <2>2 DEF ToSet
  <2> QED
    BY <2>3 DEF one
<1>6. r \in EdgeRoute
  BY <1>1, <1>2, <1>4 DEF EdgeRoute
<1> HIDE DEF r
<1>7. \A h : h \in ToSet(r.hosts) <=> h = row.fqdn
  BY <1>1, <1>5
<1>8. r.to = row.to
  BY <1>1
<1> QED
  BY <1>4, <1>6, <1>7, <1>8 DEF r

\* One row stands for each site, in the order they come.
LEMMA Firsts ==
  ASSUME NEW rows, NEW n, IsTable(rows, n)
  PROVE  \E m \in Nat : \E first \in [1 .. m -> 1 .. n] :
           /\ Edge!Order(rows) = first
           /\ \A k, l \in 1 .. m : rows[first[k]].site = rows[first[l]].site => k = l
           /\ \A i \in 1 .. n : \E k \in 1 .. m : rows[first[k]].site = rows[i].site
<1> DEFINE F == {i \in 1 .. n : \A j \in 1 .. i - 1 : rows[j].site # rows[i].site}
           m == Cardinality(F)
           a == Edge!Ascending(F)
<1>1. n \in Nat /\ DOMAIN rows = 1 .. n
  BY DEF IsTable
<1>2. Edge!Order(rows) = a
  BY <1>1, Zenon DEF Edge!Order
<1>3. F \in SUBSET (1 .. n) /\ F \in SUBSET Nat
  BY <1>1
<1>4. IsFiniteSet(F)
  <2>1. IsFiniteSet(1 .. n)
    BY <1>1, FS_Interval
  <2> HIDE DEF F
  <2> QED
    BY <1>3, <2>1, FS_Subset, Zenon
<1>5. \A i \in 1 .. n : \E f \in F : rows[f].site = rows[i].site
  <2> SUFFICES ASSUME NEW i \in 1 .. n PROVE \E f \in F : rows[f].site = rows[i].site
    OBVIOUS
  <2> DEFINE same == {j \in 1 .. n : rows[j].site = rows[i].site}
  <2>1. same \in SUBSET Nat /\ same # {}
    BY <1>1
  <2>2. PICK f \in same : \A j \in same : f <= j
    <3> HIDE DEF same
    <3> QED
      BY <2>1, LeastExists
  <2>3. f \in 1 .. n /\ rows[f].site = rows[i].site
    BY <2>2
  <2>4. ASSUME NEW j \in 1 .. f - 1 PROVE rows[j].site # rows[f].site
    <3>1. j \in 1 .. n /\ ~(f <= j)
      BY <1>1, <2>3, <2>4
    <3>2. j \notin same
      <4> HIDE DEF same
      <4> QED
        BY <2>2, <3>1
    <3> QED
      BY <2>3, <3>1, <3>2
  <2>5. f \in F
    BY <2>3, <2>4
  <2> QED
    BY <2>3, <2>5
<1>6. \A f, g \in F : rows[f].site = rows[g].site => f = g
  <2> SUFFICES ASSUME NEW f \in F, NEW g \in F, rows[f].site = rows[g].site, f # g PROVE FALSE
    OBVIOUS
  <2>1. f \in 1 .. n /\ g \in 1 .. n
    OBVIOUS
  <2>2. f \in 1 .. g - 1 \/ g \in 1 .. f - 1
    BY <1>1, <2>1
  <2> QED
    BY <2>2
<1> HIDE DEF F
<1>7. /\ m \in Nat /\ a \in [1 .. m -> F]
      /\ \A x \in F : \E i \in 1 .. m : a[i] = x
      /\ \A i, j \in 1 .. m : i < j => a[i] < a[j]
  BY <1>3, <1>4, AscendingFacts
<1> HIDE DEF m, a
<1>8. a \in [1 .. m -> 1 .. n]
  BY <1>3, <1>7
<1>9. \A k, l \in 1 .. m : a[k] = a[l] => k = l
  <2> SUFFICES ASSUME NEW k \in 1 .. m, NEW l \in 1 .. m, a[k] = a[l], k # l PROVE FALSE
    OBVIOUS
  <2>1. k < l \/ l < k
    BY <1>7
  <2>2. a[k] \in Nat /\ a[l] \in Nat
    BY <1>3, <1>7
  <2> QED
    BY <1>7, <2>1, <2>2
<1>10. \A k, l \in 1 .. m : rows[a[k]].site = rows[a[l]].site => k = l
  BY <1>6, <1>7, <1>9
<1>11. \A i \in 1 .. n : \E k \in 1 .. m : rows[a[k]].site = rows[i].site
  <2> SUFFICES ASSUME NEW i \in 1 .. n PROVE \E k \in 1 .. m : rows[a[k]].site = rows[i].site
    OBVIOUS
  <2>1. PICK f \in F : rows[f].site = rows[i].site
    BY <1>5
  <2> QED
    BY <1>7, <2>1
<1> QED
  BY <1>2, <1>7, <1>8, <1>10, <1>11, ZenonT(40)

\* Routes, none without a host, and no host in two of them.
AreRoutes(routes, n) ==
  /\ n \in Nat /\ routes \in [1 .. n -> EdgeRoute]
  /\ \A k \in 1 .. n : Len(routes[k].hosts) > 0
  /\ \A k, l \in 1 .. n : \A h :
       h \in ToSet(routes[k].hosts) /\ h \in ToSet(routes[l].hosts) => k = l

\* A route and a row say the same of where a host is.
Says(r, row) ==
  /\ r.to = row.to
  /\ row.to = NoHost => r.site = row.site /\ r.up = row.up /\ r.offline = ~row.running

\* The routes are those of sites, behind the rows in first, and those of the
\* redirections, the rows in moved.
Laid(routes, rows, n, p, q, first, moved) ==
  /\ p \in Nat /\ q \in Nat /\ first \in [1 .. p -> 1 .. n] /\ moved \in [1 .. q -> 1 .. n]
  /\ routes \in [1 .. p + q -> EdgeRoute]
  /\ \A k \in 1 .. p : routes[k] = Edge!SiteRoute(rows, first[k]) /\ Len(routes[k].hosts) > 0
  /\ \A k \in 1 .. q : /\ routes[p + k] = Edge!RedirectRoute(rows[moved[k]])
                       /\ rows[moved[k]].to # NoHost
  /\ \A k, l \in 1 .. p : rows[first[k]].site = rows[first[l]].site => k = l
  /\ \A k, l \in 1 .. q : moved[k] = moved[l] => k = l
  /\ \A i \in 1 .. n : rows[i].to = NoHost => \E k \in 1 .. p : rows[first[k]].site = rows[i].site
  /\ \A i \in 1 .. n : rows[i].to # NoHost => \E k \in 1 .. q : moved[k] = i

\* SyncCaddy lays routes out so, whatever the table.
LEMMA LayingOut ==
  ASSUME NEW rows, NEW n, IsTable(rows, n)
  PROVE  \E p, q, first, moved : Laid(Edge!SiteRoutes(rows), rows, n, p, q, first, moved)
<1>1. n \in Nat /\ rows \in [1 .. n -> TableRow] /\ DOMAIN rows = 1 .. n
  BY DEF IsTable
<1> DEFINE order == Edge!Order(rows)
           sites == [k \in DOMAIN order |-> Edge!SiteRoute(rows, order[k])]
           K == {k \in DOMAIN sites : Len(sites[k].hosts) > 0}
           kept == Edge!Taken(sites, K)
           R == {i \in DOMAIN rows : rows[i].to # NoHost}
           redirected == Edge!Taken(rows, R)
           reds == [k \in DOMAIN redirected |-> Edge!RedirectRoute(redirected[k])]
           joined == kept \o reds
<1>2. Edge!SiteRoutes(rows) = joined
  BY DEF Edge!SiteRoutes
<1>3. PICK m \in Nat :
        /\ order \in [1 .. m -> 1 .. n]
        /\ \A k, l \in 1 .. m : rows[order[k]].site = rows[order[l]].site => k = l
        /\ \A i \in 1 .. n : \E k \in 1 .. m : rows[order[k]].site = rows[i].site
  <2> HIDE DEF order
  <2> QED
    BY Firsts DEF order
<1> HIDE DEF order
<1>4. /\ DOMAIN sites = 1 .. m
      /\ \A k \in 1 .. m : sites[k] = Edge!SiteRoute(rows, order[k]) /\ order[k] \in 1 .. n
  BY <1>3
<1> HIDE DEF sites
<1>5. K \in SUBSET (1 .. m) /\ \A k \in 1 .. m : k \in K <=> Len(sites[k].hosts) > 0
  BY <1>4
<1>6. R \in SUBSET (1 .. n) /\ \A i \in 1 .. n : i \in R <=> rows[i].to # NoHost
  BY <1>1
<1> HIDE DEF K, R
<1>7. PICK p, at : Walks(kept, sites, K, p, at)
  BY <1>3, <1>5, TakenFacts
<1>8. PICK q, moved : Walks(redirected, rows, R, q, moved)
  BY <1>1, <1>6, TakenFacts
<1> HIDE DEF kept, redirected
<1>9. /\ p \in Nat /\ at \in [1 .. p -> K] /\ kept = [k \in 1 .. p |-> sites[at[k]]]
      /\ \A k \in K : \E l \in 1 .. p : at[l] = k
      /\ \A k, l \in 1 .. p : at[k] = at[l] => k = l
  BY <1>7 DEF Walks
<1>10. /\ q \in Nat /\ moved \in [1 .. q -> R] /\ redirected = [k \in 1 .. q |-> rows[moved[k]]]
       /\ \A i \in R : \E k \in 1 .. q : moved[k] = i
       /\ \A k, l \in 1 .. q : moved[k] = moved[l] => k = l
  BY <1>8 DEF Walks
<1> DEFINE first == [k \in 1 .. p |-> order[at[k]]]
           routes == Edge!SiteRoutes(rows)
<1>11. \A k \in 1 .. p : at[k] \in 1 .. m /\ at[k] \in K
  BY <1>5, <1>9
<1>12. first \in [1 .. p -> 1 .. n] /\ \A k \in 1 .. p : first[k] = order[at[k]]
  BY <1>4, <1>11
<1> HIDE DEF first
<1>13. \A k \in 1 .. p : /\ kept[k] = Edge!SiteRoute(rows, first[k])
                         /\ Len(kept[k].hosts) > 0
                         /\ kept[k] \in EdgeRoute
  <2> SUFFICES ASSUME NEW k \in 1 .. p
               PROVE  /\ kept[k] = Edge!SiteRoute(rows, first[k])
                      /\ Len(kept[k].hosts) > 0
                      /\ kept[k] \in EdgeRoute
    OBVIOUS
  <2>1. kept[k] = sites[at[k]] /\ at[k] \in 1 .. m /\ Len(sites[at[k]].hosts) > 0
    BY <1>5, <1>9, <1>11
  <2>2. kept[k] = Edge!SiteRoute(rows, first[k]) /\ first[k] \in 1 .. n
    BY <1>4, <1>12, <2>1
  <2>3. Edge!SiteRoute(rows, first[k]) \in EdgeRoute
    BY <2>2, SiteRouteFacts DEF IsSiteRoute
  <2> QED
    BY <2>1, <2>2, <2>3
<1>14. kept \in [1 .. p -> EdgeRoute]
  BY <1>9, <1>13
<1>15. \A k \in 1 .. q : moved[k] \in 1 .. n /\ rows[moved[k]].to # NoHost /\ rows[moved[k]] \in TableRow
  BY <1>1, <1>6, <1>10
<1>16. /\ reds \in [1 .. q -> EdgeRoute]
       /\ \A k \in 1 .. q : reds[k] = Edge!RedirectRoute(rows[moved[k]])
  <2>1. DOMAIN redirected = 1 .. q /\ \A k \in 1 .. q : redirected[k] = rows[moved[k]]
    BY <1>10
  <2>2. \A k \in 1 .. q : Edge!RedirectRoute(rows[moved[k]]) \in EdgeRoute
    BY <1>15, RedirectRouteFacts
  <2> QED
    BY <2>1, <2>2
<1> HIDE DEF reds
<1>17. /\ routes \in [1 .. p + q -> EdgeRoute]
       /\ \A k \in 1 .. p : routes[k] = kept[k]
       /\ \A k \in 1 .. q : routes[p + k] = reds[k]
  <2>1. IsList(kept, EdgeRoute, p) /\ IsList(reds, EdgeRoute, q)
    BY <1>9, <1>10, <1>14, <1>16 DEF IsList
  <2>2. /\ IsList(joined, EdgeRoute, p + q)
        /\ Continues(joined, kept, p, reds, q)
    <3>1. joined = kept \o reds
      OBVIOUS
    <3> HIDE DEF joined
    <3> QED
      BY <2>1, <3>1, Joined
  <2>3. routes = joined
    BY <1>2
  <2> HIDE DEF joined, routes
  <2> QED
    BY <2>2, <2>3 DEF IsList, Continues
<1> HIDE DEF routes
<1>18. \A k, l \in 1 .. p : rows[first[k]].site = rows[first[l]].site => k = l
  <2> SUFFICES ASSUME NEW k \in 1 .. p, NEW l \in 1 .. p, rows[first[k]].site = rows[first[l]].site
               PROVE  k = l
    OBVIOUS
  <2>1. at[k] \in 1 .. m /\ at[l] \in 1 .. m
    BY <1>11
  <2>2. rows[order[at[k]]].site = rows[order[at[l]]].site
    BY <1>12
  <2>3. at[k] = at[l]
    BY <1>3, <2>1, <2>2
  <2> QED
    BY <1>9, <2>3
<1>19. ASSUME NEW i \in 1 .. n, rows[i].to = NoHost
       PROVE  \E k \in 1 .. p : rows[first[k]].site = rows[i].site
  <2>1. PICK l \in 1 .. m : rows[order[l]].site = rows[i].site
    BY <1>3
  <2>2. Together(rows, order[l], i)
    BY <1>19, <2>1 DEF Together
  <2>3. Len(sites[l].hosts) > 0
    BY <1>4, <2>2, SiteRouteFacts DEF IsSiteRoute
  <2>4. PICK k \in 1 .. p : at[k] = l
    BY <1>5, <1>9, <2>3
  <2> QED
    BY <1>12, <2>1, <2>4
<1>20. moved \in [1 .. q -> 1 .. n]
  BY <1>6, <1>10
<1>21. \A i \in 1 .. n : rows[i].to # NoHost => \E k \in 1 .. q : moved[k] = i
  BY <1>6, <1>10
<1>22. Laid(routes, rows, n, p, q, first, moved)
  BY <1>9, <1>10, <1>12, <1>13, <1>15, <1>16, <1>17, <1>18, <1>19, <1>20, <1>21,
     ZenonT(40) DEF Laid
<1> QED
  BY <1>22 DEF routes

\* SyncCaddy makes routes of a table: every row is in one route, which says what it says.
LEMMA RoutesFacts ==
  ASSUME NEW rows, NEW n, IsTable(rows, n)
  PROVE  \E t : /\ AreRoutes(Edge!SiteRoutes(rows), t)
                /\ \A k \in 1 .. t : \A h \in ToSet(Edge!SiteRoutes(rows)[k].hosts) :
                     \E i \in 1 .. n : rows[i].fqdn = h /\ Says(Edge!SiteRoutes(rows)[k], rows[i])
                /\ \A i \in 1 .. n : \E k \in 1 .. t :
                     rows[i].fqdn \in ToSet(Edge!SiteRoutes(rows)[k].hosts)
<1> DEFINE routes == Edge!SiteRoutes(rows)
<1>1. PICK p, q, first, moved : Laid(routes, rows, n, p, q, first, moved)
  BY LayingOut
<1> HIDE DEF routes
<1>2. /\ n \in Nat /\ rows \in [1 .. n -> TableRow]
      /\ \A i, j \in 1 .. n : rows[i].fqdn = rows[j].fqdn => i = j
      /\ \A i, j \in 1 .. n : rows[i].site = rows[j].site =>
           rows[i].up = rows[j].up /\ rows[i].running = rows[j].running
  BY DEF IsTable
<1>3. /\ p \in Nat /\ q \in Nat /\ first \in [1 .. p -> 1 .. n] /\ moved \in [1 .. q -> 1 .. n]
      /\ routes \in [1 .. p + q -> EdgeRoute]
  BY <1>1 DEF Laid
<1>4. /\ \A k \in 1 .. p : routes[k] = Edge!SiteRoute(rows, first[k]) /\ Len(routes[k].hosts) > 0
      /\ \A k, l \in 1 .. p : rows[first[k]].site = rows[first[l]].site => k = l
      /\ \A i \in 1 .. n : rows[i].to = NoHost => \E k \in 1 .. p : rows[first[k]].site = rows[i].site
  BY <1>1, Zenon DEF Laid
<1>5. /\ \A k \in 1 .. q : /\ routes[p + k] = Edge!RedirectRoute(rows[moved[k]])
                           /\ rows[moved[k]].to # NoHost
      /\ \A k, l \in 1 .. q : moved[k] = moved[l] => k = l
      /\ \A i \in 1 .. n : rows[i].to # NoHost => \E k \in 1 .. q : moved[k] = i
  BY <1>1, Zenon DEF Laid
<1>6. ASSUME NEW k \in 1 .. p
      PROVE  /\ first[k] \in 1 .. n
             /\ routes[k].to = NoHost /\ routes[k].up = rows[first[k]].up
             /\ routes[k].offline = ~rows[first[k]].running /\ routes[k].site = rows[first[k]].site
             /\ \A h : h \in ToSet(routes[k].hosts) <=>
                         \E j \in 1 .. n : Together(rows, first[k], j) /\ rows[j].fqdn = h
  <2>1. first[k] \in 1 .. n /\ routes[k] = Edge!SiteRoute(rows, first[k])
    BY <1>3, <1>4
  <2>2. IsSiteRoute(routes[k], rows, n, first[k])
    BY <2>1, SiteRouteFacts
  <2> QED
    BY <2>1, <2>2, Zenon DEF IsSiteRoute
<1>7. ASSUME NEW k \in 1 .. q
      PROVE  /\ moved[k] \in 1 .. n
             /\ Len(routes[p + k].hosts) > 0 /\ routes[p + k].to = rows[moved[k]].to
             /\ \A h : h \in ToSet(routes[p + k].hosts) <=> h = rows[moved[k]].fqdn
  <2>1. moved[k] \in 1 .. n /\ rows[moved[k]] \in TableRow
    BY <1>2, <1>3
  <2>2. routes[p + k] = Edge!RedirectRoute(rows[moved[k]])
    BY <1>5
  <2> QED
    BY <2>1, <2>2, RedirectRouteFacts
<1>8. \A k \in 1 .. p + q : k \in 1 .. p \/ \E l \in 1 .. q : k = p + l
  <2> SUFFICES ASSUME NEW k \in 1 .. p + q, k \notin 1 .. p PROVE \E l \in 1 .. q : k = p + l
    OBVIOUS
  <2>1. k - p \in 1 .. q /\ k = p + (k - p)
    BY <1>3
  <2> QED
    BY <2>1
<1>9. \A k \in 1 .. p + q : Len(routes[k].hosts) > 0
  BY <1>4, <1>7, <1>8
\* The row behind a host of a route.
<1>10. ASSUME NEW k \in 1 .. p + q, NEW h \in ToSet(routes[k].hosts)
       PROVE  \E i \in 1 .. n : /\ rows[i].fqdn = h /\ Says(routes[k], rows[i])
                                /\ k \in 1 .. p => rows[i].to = NoHost /\ rows[i].site = rows[first[k]].site
                                /\ \A l \in 1 .. q : k = p + l => i = moved[l]
  <2>1. CASE k \in 1 .. p
    <3>1. PICK j \in 1 .. n : Together(rows, first[k], j) /\ rows[j].fqdn = h
      BY <1>6, <2>1
    <3>2. rows[j].site = rows[first[k]].site /\ rows[j].to = NoHost
      BY <3>1 DEF Together
    <3>3. rows[j].up = rows[first[k]].up /\ rows[j].running = rows[first[k]].running
      BY <1>2, <1>6, <2>1, <3>2
    <3>4. Says(routes[k], rows[j])
      BY <1>6, <2>1, <3>2, <3>3 DEF Says
    <3>5. \A l \in 1 .. q : k # p + l
      BY <1>3, <2>1
    <3> QED
      BY <3>1, <3>2, <3>4, <3>5
  <2>2. CASE \E l \in 1 .. q : k = p + l
    <3>1. PICK l \in 1 .. q : k = p + l
      BY <2>2
    <3>2. moved[l] \in 1 .. n /\ h = rows[moved[l]].fqdn /\ routes[k].to = rows[moved[l]].to
      BY <1>7, <3>1
    <3>3. Says(routes[k], rows[moved[l]])
      BY <1>5, <3>2 DEF Says
    <3>4. k \notin 1 .. p /\ \A o \in 1 .. q : k = p + o => o = l
      BY <1>3, <3>1
    <3> QED
      BY <3>2, <3>3, <3>4
  <2> QED
    BY <1>8, <2>1, <2>2
<1>11. ASSUME NEW k \in 1 .. p + q, NEW l \in 1 .. p + q, NEW h,
              h \in ToSet(routes[k].hosts), h \in ToSet(routes[l].hosts)
       PROVE  k = l
  <2>1. PICK i \in 1 .. n :
           /\ rows[i].fqdn = h /\ Says(routes[k], rows[i])
           /\ k \in 1 .. p => rows[i].to = NoHost /\ rows[i].site = rows[first[k]].site
           /\ \A o \in 1 .. q : k = p + o => i = moved[o]
    BY <1>10, <1>11
  <2>2. PICK j \in 1 .. n :
           /\ rows[j].fqdn = h /\ Says(routes[l], rows[j])
           /\ l \in 1 .. p => rows[j].to = NoHost /\ rows[j].site = rows[first[l]].site
           /\ \A o \in 1 .. q : l = p + o => j = moved[o]
    BY <1>10, <1>11
  <2>3. i = j
    BY <1>2, <2>1, <2>2
  <2>4. CASE k \in 1 .. p /\ l \in 1 .. p
    BY <1>4, <2>1, <2>2, <2>3, <2>4
  <2>5. ASSUME NEW a \in 1 .. q, k = p + a, l \in 1 .. p PROVE FALSE
    BY <1>5, <2>1, <2>2, <2>3, <2>5
  <2>6. ASSUME NEW a \in 1 .. q, l = p + a, k \in 1 .. p PROVE FALSE
    BY <1>5, <2>1, <2>2, <2>3, <2>6
  <2>7. ASSUME NEW a \in 1 .. q, NEW b \in 1 .. q, k = p + a, l = p + b PROVE k = l
    BY <1>5, <2>1, <2>2, <2>3, <2>7
  <2> QED
    BY <1>8, <2>4, <2>5, <2>6, <2>7
<1>12. ASSUME NEW i \in 1 .. n PROVE \E k \in 1 .. p + q : rows[i].fqdn \in ToSet(routes[k].hosts)
  <2>1. CASE rows[i].to = NoHost
    <3>1. PICK k \in 1 .. p : rows[first[k]].site = rows[i].site
      BY <1>4, <2>1
    <3>2. Together(rows, first[k], i)
      BY <2>1, <3>1 DEF Together
    <3>3. rows[i].fqdn \in ToSet(routes[k].hosts)
      BY <1>6, <3>2
    <3>4. k \in 1 .. p + q
      BY <1>3
    <3> QED
      BY <3>3, <3>4
  <2>2. CASE rows[i].to # NoHost
    <3>1. PICK k \in 1 .. q : moved[k] = i
      BY <1>5, <2>2
    <3>2. rows[i].fqdn \in ToSet(routes[p + k].hosts)
      BY <1>7, <3>1
    <3>3. p + k \in 1 .. p + q
      BY <1>3
    <3> QED
      BY <3>2, <3>3
  <2> QED
    BY <2>1, <2>2
<1>13. AreRoutes(routes, p + q)
  BY <1>3, <1>9, <1>11 DEF AreRoutes
<1>14. \A k \in 1 .. p + q : \A h \in ToSet(routes[k].hosts) :
         \E i \in 1 .. n : rows[i].fqdn = h /\ Says(routes[k], rows[i])
  BY <1>10
<1> QED
  BY <1>12, <1>13, <1>14 DEF routes

-----------------------------------------------------------------------------
(* The routes Build sorts, and what the edge then answers.                 *)

\* The hosts routes are sorted by.
Heads(routes, n) == {routes[k].hosts[1] : k \in 1 .. n}

\* The first hosts tell routes apart, and there are as many.
LEMMA HeadsFacts ==
  ASSUME NEW routes, NEW n, AreRoutes(routes, n)
  PROVE  /\ n \in Nat /\ DOMAIN routes = 1 .. n
         /\ \A k, l \in 1 .. n : routes[k].hosts[1] = routes[l].hosts[1] => k = l
         /\ Heads(routes, n) \in SUBSET Hosts /\ Heads(routes, n) \in SUBSET Nat
         /\ IsFiniteSet(Heads(routes, n)) /\ Cardinality(Heads(routes, n)) = n
<1>1. n \in Nat /\ routes \in [1 .. n -> EdgeRoute] /\ DOMAIN routes = 1 .. n
  BY DEF AreRoutes
<1>2. \A k \in 1 .. n : routes[k].hosts[1] \in Hosts /\ routes[k].hosts[1] \in ToSet(routes[k].hosts)
  <2> SUFFICES ASSUME NEW k \in 1 .. n
               PROVE  routes[k].hosts[1] \in Hosts /\ routes[k].hosts[1] \in ToSet(routes[k].hosts)
    OBVIOUS
  <2>1. routes[k].hosts \in Seq(Hosts) /\ Len(routes[k].hosts) > 0
    BY <1>1 DEF AreRoutes, EdgeRoute
  <2> DEFINE s == routes[k].hosts
  <2> HIDE DEF s
  <2>2. s \in Seq(Hosts) /\ Len(s) > 0
    BY <2>1 DEF s
  <2>3. Len(s) \in Nat /\ s \in [1 .. Len(s) -> Hosts]
    BY <2>2, LenProperties
  <2>4. 1 \in DOMAIN s /\ s[1] \in Hosts
    BY <2>2, <2>3
  <2> QED
    BY <2>4 DEF s, ToSet
<1>3. \A k, l \in 1 .. n : routes[k].hosts[1] = routes[l].hosts[1] => k = l
  BY <1>2, Zenon DEF AreRoutes
<1> DEFINE F == Heads(routes, n)
           f == [k \in 1 .. n |-> routes[k].hosts[1]]
<1>4. f \in Bijection(1 .. n, F)
  <2>1. f \in [1 .. n -> F]
    BY DEF Heads
  <2>2. \A k, l \in 1 .. n : f[k] = f[l] => k = l
    BY <1>3
  <2>3. \A h \in F : \E k \in 1 .. n : f[k] = h
    BY DEF Heads
  <2> HIDE DEF F, f
  <2> QED
    BY <2>1, <2>2, <2>3 DEF Bijection, Injection, Surjection, IsInjective
<1>5. IsFiniteSet(1 .. n) /\ Cardinality(1 .. n) = n
  <2>1. IsFiniteSet(1 .. n) /\ Cardinality(1 .. n) = IF 1 > n THEN 0 ELSE n - 1 + 1
    BY <1>1, FS_Interval
  <2> QED
    BY <1>1, <2>1
<1>6. IsFiniteSet(F) /\ Cardinality(F) = n
  <2>1. ExistsBijection(1 .. n, F)
    BY <1>4 DEF ExistsBijection
  <2> HIDE DEF F
  <2> QED
    BY <1>5, <2>1, FS_Bijection
<1>7. F \in SUBSET Hosts
  BY <1>2 DEF Heads
<1>8. F \in SUBSET Nat
  BY <1>7, HostsAssumption
<1> QED
  BY <1>1, <1>3, <1>6, <1>7, <1>8

\* Sorting keeps every route, and puts them in the order of their first hosts.
LEMMA SortedFacts ==
  ASSUME NEW routes, NEW n, AreRoutes(routes, n)
  PROVE  /\ IsList(Edge!Sorted(routes), EdgeRoute, n)
         /\ \A i \in 1 .. n : /\ \E k \in 1 .. n : Edge!Sorted(routes)[i] = routes[k]
                              /\ Edge!Sorted(routes)[i].hosts[1] = Edge!Ascending(Heads(routes, n))[i]
         /\ \A k \in 1 .. n : \E i \in 1 .. n : Edge!Sorted(routes)[i] = routes[k]
<1> DEFINE F == {routes[k].hosts[1] : k \in DOMAIN routes}
           a == Edge!Ascending(F)
           sorted == Edge!Sorted(routes)
           at(i) == CHOOSE k \in DOMAIN routes : routes[k].hosts[1] = a[i]
<1>0. F = Heads(routes, n)
  BY HeadsFacts DEF Heads
<1>1. /\ n \in Nat /\ DOMAIN routes = 1 .. n
      /\ \A k, l \in 1 .. n : routes[k].hosts[1] = routes[l].hosts[1] => k = l
      /\ F \in SUBSET Nat /\ IsFiniteSet(F) /\ Cardinality(F) = n
  <2> DEFINE G == Heads(routes, n)
  <2>1. /\ n \in Nat /\ DOMAIN routes = 1 .. n
        /\ \A k, l \in 1 .. n : routes[k].hosts[1] = routes[l].hosts[1] => k = l
        /\ G \in SUBSET Nat /\ IsFiniteSet(G) /\ Cardinality(G) = n
    BY HeadsFacts
  <2>2. F = G
    BY <1>0
  <2> HIDE DEF F, G
  <2> QED
    BY <2>1, <2>2
<1>2. routes \in [1 .. n -> EdgeRoute]
  BY DEF AreRoutes
<1>3. a \in [1 .. n -> F] /\ \A x \in F : \E i \in 1 .. n : a[i] = x
  <2> HIDE DEF F
  <2> QED
    BY <1>1, AscendingFacts
<1>4. \A k \in 1 .. n : routes[k].hosts[1] \in F
  BY <1>1
<1>5. sorted = [i \in 1 .. n |-> routes[at(i)]]
  <2>1. sorted = [i \in DOMAIN routes |-> routes[at(i)]]
    BY DEF Edge!Sorted
  <2> HIDE DEF sorted, at
  <2> QED
    BY <1>1, <2>1
<1>6. \A i \in 1 .. n : at(i) \in 1 .. n /\ routes[at(i)].hosts[1] = a[i]
  <2> SUFFICES ASSUME NEW i \in 1 .. n PROVE at(i) \in 1 .. n /\ routes[at(i)].hosts[1] = a[i]
    OBVIOUS
  <2>1. \E k \in 1 .. n : routes[k].hosts[1] = a[i]
    <3>1. a[i] \in F
      <4> HIDE DEF F, a
      <4> QED
        BY <1>3
    <3> HIDE DEF a
    <3> QED
      BY <1>1, <3>1
  <2> HIDE DEF a
  <2> QED
    BY <1>1, <2>1
<1> HIDE DEF at, sorted, a, F
<1>7. IsList(sorted, EdgeRoute, n)
  BY <1>1, <1>2, <1>5, <1>6 DEF IsList
<1>8. \A i \in 1 .. n : (\E k \in 1 .. n : sorted[i] = routes[k]) /\ sorted[i].hosts[1] = a[i]
  BY <1>5, <1>6
<1>9. \A k \in 1 .. n : \E i \in 1 .. n : sorted[i] = routes[k]
  <2> SUFFICES ASSUME NEW k \in 1 .. n PROVE \E i \in 1 .. n : sorted[i] = routes[k]
    OBVIOUS
  <2>1. PICK i \in 1 .. n : a[i] = routes[k].hosts[1]
    BY <1>3, <1>4
  <2>2. at(i) = k
    BY <1>1, <1>6, <2>1
  <2> QED
    BY <1>5, <2>2
<1> QED
  BY <1>0, <1>7, <1>8, <1>9 DEF sorted, a

\* Sorting does not see the order that routes come in.
LEMMA SortedAgain ==
  ASSUME NEW routes, NEW n, AreRoutes(routes, n),
         NEW f \in [1 .. n -> 1 .. n], \A i, j \in 1 .. n : f[i] = f[j] => i = j
  PROVE  Edge!Sorted([i \in 1 .. n |-> routes[f[i]]]) = Edge!Sorted(routes)
<1> DEFINE others == [i \in 1 .. n |-> routes[f[i]]]
           S == 1 .. n
<1>1. /\ n \in Nat /\ DOMAIN routes = 1 .. n
      /\ \A k, l \in 1 .. n : routes[k].hosts[1] = routes[l].hosts[1] => k = l
  BY HeadsFacts
<1>2. \A k \in 1 .. n : \E i \in 1 .. n : f[i] = k
  <2>1. IsFiniteSet(S)
    BY <1>1, FS_Interval
  <2>2. f \in Injection(S, S)
    BY DEF Injection, IsInjective
  <2>3. f \in Surjection(S, S)
    <3> HIDE DEF S
    <3> QED
      BY <2>1, <2>2, FS_Injection
  <2> QED
    BY <2>3 DEF Surjection
<1>3. \A i \in 1 .. n : others[i] = routes[f[i]] /\ f[i] \in 1 .. n
  OBVIOUS
<1>4. AreRoutes(others, n)
  <2>1. routes \in [1 .. n -> EdgeRoute] /\ \A k \in 1 .. n : Len(routes[k].hosts) > 0
    BY DEF AreRoutes
  <2>2. others \in [1 .. n -> EdgeRoute] /\ \A k \in 1 .. n : Len(others[k].hosts) > 0
    BY <2>1
  <2>3. ASSUME NEW k \in 1 .. n, NEW l \in 1 .. n, NEW h,
               h \in ToSet(others[k].hosts), h \in ToSet(others[l].hosts)
        PROVE  k = l
    <3>1. h \in ToSet(routes[f[k]].hosts) /\ h \in ToSet(routes[f[l]].hosts)
      BY <1>3, <2>3
    <3>2. f[k] = f[l]
      BY <1>3, <3>1 DEF AreRoutes
    <3> QED
      BY <3>2
  <2> HIDE DEF others
  <2> QED
    BY <1>1, <2>2, <2>3 DEF AreRoutes
<1> HIDE DEF others
<1>5. Heads(others, n) = Heads(routes, n)
  <2>1. ASSUME NEW h \in Heads(others, n) PROVE h \in Heads(routes, n)
    BY <1>3, <2>1 DEF Heads
  <2>2. ASSUME NEW h \in Heads(routes, n) PROVE h \in Heads(others, n)
    <3>1. PICK k \in 1 .. n : h = routes[k].hosts[1]
      BY <2>2 DEF Heads
    <3>2. PICK i \in 1 .. n : f[i] = k
      BY <1>2
    <3>3. h = others[i].hosts[1]
      BY <1>3, <3>1, <3>2
    <3> QED
      BY <3>3 DEF Heads
  <2> QED
    BY <2>1, <2>2
<1> DEFINE one == Edge!Sorted(others)
           two == Edge!Sorted(routes)
           a == Edge!Ascending(Heads(routes, n))
<1>6. /\ IsList(one, EdgeRoute, n)
      /\ \A i \in 1 .. n : (\E k \in 1 .. n : one[i] = others[k]) /\ one[i].hosts[1] = a[i]
  BY <1>4, <1>5, SortedFacts
<1>7. /\ IsList(two, EdgeRoute, n)
      /\ \A i \in 1 .. n : (\E k \in 1 .. n : two[i] = routes[k]) /\ two[i].hosts[1] = a[i]
  BY SortedFacts
<1> HIDE DEF one, two, a
<1>8. \A i \in 1 .. n : one[i] = two[i]
  <2> SUFFICES ASSUME NEW i \in 1 .. n PROVE one[i] = two[i]
    OBVIOUS
  <2>1. PICK k \in 1 .. n : one[i] = others[k]
    BY <1>6
  <2>2. PICK l \in 1 .. n : two[i] = routes[l]
    BY <1>7
  <2>3. routes[f[k]].hosts[1] = routes[l].hosts[1]
    <3>1. one[i].hosts[1] = a[i] /\ two[i].hosts[1] = a[i]
      BY <1>6, <1>7
    <3>2. others[k] = routes[f[k]]
      BY <1>3
    <3> QED
      BY <2>1, <2>2, <3>1, <3>2
  <2> QED
    BY <1>1, <1>3, <2>1, <2>2, <2>3
<1>9. one = two
  <2>1. one \in [S -> EdgeRoute] /\ two \in [S -> EdgeRoute] /\ \A i \in S : one[i] = two[i]
    BY <1>6, <1>7, <1>8 DEF IsList
  <2> HIDE DEF S
  <2> QED
    BY <2>1
<1> QED
  BY <1>9 DEF one, two, others

\* Routes that are sorted are routes still: none is there twice.
LEMMA SortedRoutes ==
  ASSUME NEW routes, NEW n, AreRoutes(routes, n)
  PROVE  AreRoutes(Edge!Sorted(routes), n)
<1> DEFINE t == Edge!Sorted(routes)
           H == Heads(routes, n)
           a == Edge!Ascending(H)
<1>1. n \in Nat /\ H \in SUBSET Nat /\ IsFiniteSet(H) /\ Cardinality(H) = n
  BY HeadsFacts
<1>2. /\ IsList(t, EdgeRoute, n)
      /\ \A i \in 1 .. n : (\E k \in 1 .. n : t[i] = routes[k]) /\ t[i].hosts[1] = a[i]
  BY SortedFacts
<1>3. a \in [1 .. n -> H] /\ \A i, j \in 1 .. n : i < j => a[i] < a[j]
  <2> HIDE DEF H
  <2> QED
    BY <1>1, AscendingFacts
<1> HIDE DEF t, a, H
<1>4. \A i, j \in 1 .. n : t[i] = t[j] => i = j
  <2> SUFFICES ASSUME NEW i \in 1 .. n, NEW j \in 1 .. n, t[i] = t[j], i # j PROVE FALSE
    OBVIOUS
  <2>1. a[i] = a[j]
    BY <1>2, Zenon
  <2>2. a[i] \in Nat
    BY <1>1, <1>3
  <2>3. i < j \/ j < i
    BY <1>1
  <2> QED
    BY <1>3, <2>1, <2>2, <2>3
<1>5. t \in [1 .. n -> EdgeRoute]
  BY <1>2 DEF IsList
<1>6. \A k \in 1 .. n : Len(t[k].hosts) > 0
  BY <1>2, Zenon DEF AreRoutes
<1>7. ASSUME NEW i \in 1 .. n, NEW j \in 1 .. n, NEW h,
             h \in ToSet(t[i].hosts), h \in ToSet(t[j].hosts)
      PROVE  i = j
  <2>1. PICK k \in 1 .. n : t[i] = routes[k]
    BY <1>2
  <2>2. PICK l \in 1 .. n : t[j] = routes[l]
    BY <1>2
  <2>3. h \in ToSet(routes[k].hosts) /\ h \in ToSet(routes[l].hosts)
    BY <1>7, <2>1, <2>2
  <2>4. k = l
    BY <2>3, Zenon DEF AreRoutes
  <2> QED
    BY <1>4, <2>1, <2>2, <2>4
<1>8. AreRoutes(t, n)
  BY <1>1, <1>5, <1>6, <1>7 DEF AreRoutes
<1> QED
  BY <1>8 DEF t

\* How many routes are the panel's own, and their hosts.
OwnCount(mail) == IF mail THEN 2 ELSE 1
OwnHosts(mail) == IF mail THEN {PanelHost, WebmailHost} ELSE {PanelHost}

\* What Build makes of routes: the panel's, the webmail's if mail is enabled,
\* and one for each, sorted.
IsConfigured(u, routes, n, waf, mail) ==
  LET o == OwnCount(mail)
  IN  /\ n \in Nat /\ DOMAIN u = 1 .. o + n
      /\ u[1] = Edge!Own(PanelHost, "panel")
      /\ mail => u[2] = Edge!Own(WebmailHost, "webmail")
      /\ \A i \in 1 .. n : /\ u[o + i].hosts = Edge!Sorted(routes)[i].hosts
                           /\ u[o + i].handle = Edge!Handlers(Edge!Sorted(routes)[i], waf)

\* The panel's own routes, as a list.
LEMMA OwnList ==
  ASSUME NEW mail \in BOOLEAN
  PROVE  LET panel == Edge!Own(PanelHost, "panel")
             webmail == Edge!Own(WebmailHost, "webmail")
             own == Edge!OwnRoutes(mail)
         IN  /\ IsList(own, {panel, webmail}, OwnCount(mail))
             /\ own[1] = panel /\ (mail => own[2] = webmail)
<1> DEFINE panel == Edge!Own(PanelHost, "panel")
           webmail == Edge!Own(WebmailHost, "webmail")
           own == Edge!OwnRoutes(mail)
<1>1. own = IF mail THEN <<panel, webmail>> ELSE <<panel>>
  BY Zenon DEF Edge!OwnRoutes
<1> HIDE DEF panel, webmail, own
<1>2. CASE mail
  <2>1. own = <<panel, webmail>> /\ OwnCount(mail) = 2
    BY <1>1, <1>2 DEF OwnCount
  <2>2. IsList(own, {panel, webmail}, OwnCount(mail)) /\ own[1] = panel /\ own[2] = webmail
    BY <2>1 DEF IsList
  <2> QED
    BY <2>2 DEF panel, webmail, own
<1>3. CASE ~mail
  <2>1. own = <<panel>> /\ OwnCount(mail) = 1
    BY <1>1, <1>3 DEF OwnCount
  <2>2. IsList(own, {panel, webmail}, OwnCount(mail)) /\ own[1] = panel
    BY <2>1 DEF IsList
  <2> QED
    BY <1>3, <2>2 DEF panel, webmail, own
<1> QED
  BY <1>2, <1>3

\* Build does so.
LEMMA Configured ==
  ASSUME NEW routes, NEW n, AreRoutes(routes, n), NEW waf, NEW mail \in BOOLEAN
  PROVE  IsConfigured(Edge!Routes(routes, waf, mail), routes, n, waf, mail)
<1> DEFINE t == Edge!Sorted(routes)
           made(i) == [hosts |-> t[i].hosts, handle |-> Edge!Handlers(t[i], waf)]
           panel == Edge!Own(PanelHost, "panel")
           webmail == Edge!Own(WebmailHost, "webmail")
           own == Edge!OwnRoutes(mail)
           o == OwnCount(mail)
           theirs == [i \in 1 .. n |-> made(i)]
           S == {panel, webmail} \cup {made(i) : i \in 1 .. n}
           u == own \o theirs
<1>1. n \in Nat /\ DOMAIN t = 1 .. n
  BY SortedFacts DEF IsList
<1>2. Edge!Routes(routes, waf, mail) = u
  BY <1>1 DEF Edge!Routes, Edge!SiteRoutesOf
<1>3. /\ IsList(own, {panel, webmail}, o)
      /\ own[1] = panel /\ (mail => own[2] = webmail)
  BY OwnList
<1>4. IsList(own, S, o) /\ o \in Nat
  <2>1. o \in Nat
    BY DEF OwnCount
  <2> HIDE DEF panel, webmail, made, own, o
  <2> QED
    BY <1>3, <2>1 DEF IsList
<1>5. IsList(theirs, S, n)
  <2> HIDE DEF panel, webmail, made
  <2> QED
    BY <1>1 DEF IsList
<1>6. \A i \in 1 .. n : theirs[i] = made(i)
  OBVIOUS
<1>7. \A i \in 1 .. n : made(i).hosts = t[i].hosts /\ made(i).handle = Edge!Handlers(t[i], waf)
  OBVIOUS
<1>8. IsList(u, S, o + n) /\ Continues(u, own, o, theirs, n)
  <2> HIDE DEF own, theirs, S, o
  <2> QED
    BY <1>4, <1>5, Joined
<1> HIDE DEF own, theirs, S, made, t, u, panel, webmail
<1>9. DOMAIN u = 1 .. o + n
  BY <1>8 DEF IsList
<1>10. u[1] = panel /\ (mail => u[2] = webmail)
  <2>1. \A i \in 1 .. o : u[i] = own[i]
    <3> HIDE DEF o
    <3> QED
      BY <1>8, Zenon DEF Continues
  <2>2. 1 \in 1 .. o /\ (mail => 2 \in 1 .. o)
    BY DEF OwnCount
  <2> QED
    BY <1>3, <2>1, <2>2
<1> HIDE DEF o
<1>11. \A i \in 1 .. n : u[o + i] = theirs[i]
  BY <1>8, Zenon DEF Continues
<1>12. \A i \in 1 .. n : u[o + i].hosts = t[i].hosts /\ u[o + i].handle = Edge!Handlers(t[i], waf)
  BY <1>6, <1>7, <1>11
<1> QED
  BY <1>1, <1>2, <1>9, <1>10, <1>12 DEF IsConfigured, t, panel, webmail, o

\* The panel's and the webmail's routes have one host each.
LEMMA OwnFacts ==
  ASSUME NEW host, NEW name
  PROVE  /\ Edge!Own(host, name).handle = <<<<name>>>>
         /\ \A h : h \in ToSet(Edge!Own(host, name).hosts) <=> h = host
<1>1. Edge!Own(host, name).handle = <<<<name>>>> /\ Edge!Own(host, name).hosts = <<host>>
  BY DEF Edge!Own
<1>2. \A h : h \in ToSet(<<host>>) <=> h = host
  <2>1. DOMAIN <<host>> = {1} /\ <<host>>[1] = host
    OBVIOUS
  <2> QED
    BY <2>1 DEF ToSet
<1> QED
  BY <1>1, <1>2

\* The first route that has the host answers.
LEMMA FirstServes ==
  ASSUME NEW config, NEW m \in Nat, DOMAIN config.routes = 1 .. m, NEW h
  PROVE  /\ \A k \in 1 .. m :
              /\ h \in ToSet(config.routes[k].hosts)
              /\ \A l \in 1 .. m : h \in ToSet(config.routes[l].hosts) => k <= l
              => Edge!Serve(config, h) = config.routes[k].handle
         /\ (\A k \in 1 .. m : h \notin ToSet(config.routes[k].hosts)) => Edge!Serve(config, h) = <<>>
<1> DEFINE found == {k \in 1 .. m : h \in ToSet(config.routes[k].hosts)}
           first == Edge!Ascending(found)[1]
<1>1. Edge!Serve(config, h) = IF found = {} THEN <<>> ELSE config.routes[first].handle
  <2>1. {k \in DOMAIN config.routes : h \in Edge!ToSet(config.routes[k].hosts)} = found
    BY SameLibrary, Zenon
  <2> QED
    BY <2>1, Zenon DEF Edge!Serve
<1>2. found \in SUBSET Nat /\ IsFiniteSet(found)
  <2>1. IsFiniteSet(1 .. m)
    BY FS_Interval
  <2>2. IsFiniteSet(found)
    BY <2>1, FS_Subset, Zenon
  <2> QED
    BY <2>2
<1>3. found # {} => first \in found /\ \A x \in found : first <= x
  <2> HIDE DEF found
  <2> QED
    BY <1>2, LeastFirst
<1>4. ASSUME NEW k \in 1 .. m, h \in ToSet(config.routes[k].hosts),
             \A l \in 1 .. m : h \in ToSet(config.routes[l].hosts) => k <= l
      PROVE  Edge!Serve(config, h) = config.routes[k].handle
  <2>1. k \in found
    BY <1>4
  <2>2. \A x \in found : k <= x
    BY <1>4
  <2> HIDE DEF found, first
  <2>3. first = k
    <3>1. first \in found /\ first <= k
      BY <1>3, <2>1
    <3>2. k <= first /\ first \in Nat /\ k \in Nat
      BY <1>2, <2>1, <2>2, <3>1
    <3> HIDE DEF first
    <3> QED
      BY <3>1, <3>2
  <2> QED
    BY <1>1, <2>1, <2>3
<1>5. ASSUME \A k \in 1 .. m : h \notin ToSet(config.routes[k].hosts)
      PROVE  Edge!Serve(config, h) = <<>>
  <2>1. found = {}
    BY <1>5
  <2> QED
    BY <1>1, <2>1
<1> QED
  BY <1>4, <1>5

\* What the edge answers for a host: the panel, the webmail if mail is
\* enabled, or what the one row there is says, whichever routes there are.
ServesRows(config, h, rows, n, waf, mail) ==
  /\ h = PanelHost => Edge!Serve(config, h) = <<<<"panel">>>>
  /\ h # PanelHost /\ mail /\ h = WebmailHost => Edge!Serve(config, h) = <<<<"webmail">>>>
  /\ h \notin OwnHosts(mail) =>
       /\ \A i \in 1 .. n : rows[i].fqdn = h =>
            \E r \in EdgeRoute : /\ Says(r, rows[i])
                                /\ Edge!Serve(config, h) = Edge!Handlers(r, waf)
       /\ (\A i \in 1 .. n : rows[i].fqdn # h) => Edge!Serve(config, h) = <<>>

\* The rows are served, through grouping, sorting and the first match.
LEMMA Serving ==
  ASSUME NEW rows, NEW n, IsTable(rows, n), NEW waf, NEW mail \in BOOLEAN, NEW config,
         config.routes = Edge!Routes(Edge!SiteRoutes(rows), waf, mail), NEW h
  PROVE  ServesRows(config, h, rows, n, waf, mail)
<1> DEFINE routes == Edge!SiteRoutes(rows)
           t == Edge!Sorted(routes)
           u == config.routes
           o == OwnCount(mail)
<1>1. PICK q : /\ AreRoutes(routes, q)
               /\ \A k \in 1 .. q : \A x \in ToSet(routes[k].hosts) :
                    \E i \in 1 .. n : rows[i].fqdn = x /\ Says(routes[k], rows[i])
               /\ \A i \in 1 .. n : \E k \in 1 .. q : rows[i].fqdn \in ToSet(routes[k].hosts)
  BY RoutesFacts
<1> HIDE DEF routes
<1>2. /\ AreRoutes(t, q)
      /\ \A i \in 1 .. q : \E k \in 1 .. q : t[i] = routes[k]
      /\ \A k \in 1 .. q : \E i \in 1 .. q : t[i] = routes[k]
  BY <1>1, SortedFacts, SortedRoutes
<1>3. IsConfigured(u, routes, q, waf, mail)
  BY <1>1, Configured DEF routes
<1>4. /\ q \in Nat /\ DOMAIN u = 1 .. o + q
      /\ u[1] = Edge!Own(PanelHost, "panel") /\ (mail => u[2] = Edge!Own(WebmailHost, "webmail"))
      /\ \A i \in 1 .. q : u[o + i].hosts = t[i].hosts /\ u[o + i].handle = Edge!Handlers(t[i], waf)
  BY <1>3, Zenon DEF IsConfigured
<1> HIDE DEF t, u
<1> DEFINE m == o + q
           Has(k) == h \in ToSet(u[k].hosts)
<1>5. m \in Nat /\ o \in Nat /\ 1 \in 1 .. m /\ (mail => o = 2 /\ 2 \in 1 .. m) /\ (~mail => o = 1)
  BY <1>4 DEF OwnCount
<1>6. /\ u[1].handle = <<<<"panel">>>> /\ (Has(1) <=> h = PanelHost)
      /\ mail => u[2].handle = <<<<"webmail">>>> /\ (Has(2) <=> h = WebmailHost)
  <2> DEFINE panel == Edge!Own(PanelHost, "panel")
             webmail == Edge!Own(WebmailHost, "webmail")
  <2>1. /\ panel.handle = <<<<"panel">>>> /\ \A x : x \in ToSet(panel.hosts) <=> x = PanelHost
        /\ webmail.handle = <<<<"webmail">>>> /\ \A x : x \in ToSet(webmail.hosts) <=> x = WebmailHost
    BY OwnFacts
  <2>2. u[1] = panel /\ (mail => u[2] = webmail)
    BY <1>4
  <2> HIDE DEF panel, webmail
  <2> QED
    BY <2>1, <2>2
<1>7. /\ \A k \in 1 .. m : Has(k) /\ (\A l \in 1 .. m : Has(l) => k <= l) =>
           Edge!Serve(config, h) = u[k].handle
      /\ (\A k \in 1 .. m : ~Has(k)) => Edge!Serve(config, h) = <<>>
  <2>1. DOMAIN config.routes = 1 .. m
    BY <1>4 DEF u
  <2> HIDE DEF m
  <2> QED
    BY <1>5, <2>1, FirstServes DEF u
<1>8. \A k \in 1 .. m : k = 1 \/ (mail /\ k = 2) \/ \E i \in 1 .. q : k = o + i
  <2> SUFFICES ASSUME NEW k \in 1 .. m, k # 1, ~(mail /\ k = 2) PROVE \E i \in 1 .. q : k = o + i
    OBVIOUS
  <2>1. k - o \in 1 .. q /\ k = o + (k - o)
    <3> HIDE DEF o
    <3> QED
      BY <1>4, <1>5
  <2> QED
    BY <2>1
<1>9. \A i \in 1 .. q : o + i \in 1 .. m /\ (Has(o + i) <=> h \in ToSet(t[i].hosts))
  <2> HIDE DEF o
  <2> QED
    BY <1>4, <1>5
<1> HIDE DEF o
<1>10. h = PanelHost => Edge!Serve(config, h) = <<<<"panel">>>>
  <2>1. \A l \in 1 .. m : 1 <= l
    BY <1>5
  <2> HIDE DEF Has, m
  <2> QED
    BY <1>5, <1>6, <1>7, <2>1
<1>11. h # PanelHost /\ mail /\ h = WebmailHost => Edge!Serve(config, h) = <<<<"webmail">>>>
  <2>1. \A l \in 1 .. m : l # 1 => 2 <= l
    BY <1>5
  <2> HIDE DEF Has, m
  <2> QED
    BY <1>5, <1>6, <1>7, <2>1
<1>12. ASSUME h \notin OwnHosts(mail), NEW i \in 1 .. n, rows[i].fqdn = h
       PROVE  \E r \in EdgeRoute : Says(r, rows[i]) /\ Edge!Serve(config, h) = Edge!Handlers(r, waf)
  <2>1. PICK k \in 1 .. q : h \in ToSet(routes[k].hosts)
    BY <1>1, <1>12
  <2>2. Says(routes[k], rows[i])
    <3>1. PICK j \in 1 .. n : rows[j].fqdn = h /\ Says(routes[k], rows[j])
      BY <1>1, <2>1
    <3>2. i = j
      BY <1>12, <3>1, Zenon DEF IsTable
    <3> QED
      BY <3>1, <3>2
  <2>3. PICK l \in 1 .. q : t[l] = routes[k]
    BY <1>2
  <2>4. Has(o + l) /\ o + l \in 1 .. m
    BY <1>9, <2>1, <2>3
  <2>5. ASSUME NEW x \in 1 .. m, Has(x) PROVE o + l <= x
    <3>1. PICK y \in 1 .. q : x = o + y
      <4> HIDE DEF Has, m
      <4> QED
        BY <1>6, <1>8, <1>12, <2>5 DEF OwnHosts
    <3>2. h \in ToSet(t[y].hosts)
      <4> HIDE DEF Has, m
      <4> QED
        BY <1>9, <2>5, <3>1
    <3>3. h \in ToSet(t[l].hosts)
      BY <2>1, <2>3
    <3>4. y = l
      BY <1>2, <3>2, <3>3, Zenon DEF AreRoutes
    <3> HIDE DEF m
    <3> QED
      BY <1>5, <3>1, <3>4
  <2>6. Edge!Serve(config, h) = u[o + l].handle
    <3> HIDE DEF Has, m
    <3> QED
      BY <1>7, <2>4, <2>5
  <2>7. Edge!Serve(config, h) = Edge!Handlers(routes[k], waf)
    BY <1>4, <2>3, <2>6
  <2>8. routes[k] \in EdgeRoute
    BY <1>1 DEF AreRoutes
  <2> QED
    BY <2>2, <2>7, <2>8
<1>13. ASSUME h \notin OwnHosts(mail), \A i \in 1 .. n : rows[i].fqdn # h
       PROVE  Edge!Serve(config, h) = <<>>
  <2>1. \A k \in 1 .. q : h \notin ToSet(routes[k].hosts)
    BY <1>1, <1>13
  <2>2. \A i \in 1 .. q : h \notin ToSet(t[i].hosts)
    BY <1>2, <2>1
  <2> HIDE DEF Has, m
  <2>3. \A k \in 1 .. m : ~Has(k)
    BY <1>6, <1>8, <1>9, <1>13, <2>2 DEF OwnHosts
  <2> QED
    BY <1>7, <2>3
<1> QED
  BY <1>10, <1>11, <1>12, <1>13 DEF ServesRows

-----------------------------------------------------------------------------
(* The edge and the tables of accounts, sites and domains.                 *)

RoutedHosts == {h \in Hosts : Routed(h)}

\* The row of the routing table for a host.
RowOf(h) ==
  [fqdn |-> h, site |-> domain[h].site, to |-> domain[h].to,
   up |-> site[domain[h].site].up, running |-> site[domain[h].site].status = "running"]

\* rows has the row of each host that is routed, once.
RoutesAll(rows, n) ==
  /\ IsTable(rows, n)
  /\ \A i \in 1 .. n : rows[i].fqdn \in RoutedHosts /\ rows[i] = RowOf(rows[i].fqdn)
  /\ \A h \in RoutedHosts : \E i \in 1 .. n : rows[i].fqdn = h

\* RoutingTable is a table with the row of each host that is routed.
LEMMA RoutingTableFacts ==
  ASSUME SitesOK, DomainsOK
  PROVE  \E n : RoutesAll(RoutingTable, n)
<1> DEFINE R == RoutedHosts
           n == Cardinality(R)
           a == Edge!Ascending(R)
           rows == RoutingTable
<1>1. R \in SUBSET Hosts /\ R \in SUBSET Nat /\ IsFiniteSet(R)
  <2>1. R \in SUBSET Hosts /\ Hosts \in SUBSET Nat
    BY HostsAssumption DEF RoutedHosts
  <2>2. IsFiniteSet(R)
    BY <2>1, FiniteAssumption, FS_Subset, Zenon
  <2> QED
    BY <2>1, <2>2
<1>2. /\ n \in Nat /\ a \in [1 .. n -> R]
      /\ \A h \in R : \E i \in 1 .. n : a[i] = h
      /\ \A i, j \in 1 .. n : i < j => a[i] < a[j]
  <2> HIDE DEF R
  <2> QED
    BY <1>1, AscendingFacts
<1>3. rows = [i \in 1 .. n |-> RowOf(a[i])]
  <2>1. rows = [i \in DOMAIN a |-> RowOf(a[i])]
    BY Zenon DEF RoutingTable, RoutedHosts, RowOf
  <2> HIDE DEF rows, a
  <2> QED
    BY <1>2, <2>1
<1> HIDE DEF n, a, rows, R
<1>4. \A h \in R : RowOf(h) \in TableRow /\ RowOf(h).fqdn = h
  <2> SUFFICES ASSUME NEW h \in R PROVE RowOf(h) \in TableRow /\ RowOf(h).fqdn = h
    OBVIOUS
  <2>1. h \in Hosts /\ domain[h] # Free
    BY DEF R, RoutedHosts, Routed
  <2>2. domain[h] \in DomainRow /\ site[domain[h].site] # NoSite
    BY <2>1 DEF DomainsOK
  <2>3. domain[h].site \in Sites /\ domain[h].to \in Targets \cup {NoHost}
    BY <2>2 DEF DomainRow
  <2>4. site[domain[h].site] \in SiteRow
    BY <2>2, <2>3 DEF SitesOK
  <2>5. site[domain[h].site].up \in BOOLEAN
    BY <2>4 DEF SiteRow
  <2> QED
    BY <2>1, <2>3, <2>5 DEF RowOf, TableRow
<1>5. rows \in [1 .. n -> TableRow] /\ \A i \in 1 .. n : rows[i].fqdn = a[i] /\ rows[i] = RowOf(a[i])
  BY <1>2, <1>3, <1>4
<1>6. \A i, j \in 1 .. n : rows[i].fqdn = rows[j].fqdn => i = j
  <2> SUFFICES ASSUME NEW i \in 1 .. n, NEW j \in 1 .. n, a[i] = a[j], i # j PROVE FALSE
    BY <1>5
  <2>1. a[i] \in Nat /\ a[j] \in Nat
    BY <1>1, <1>2
  <2>2. i < j \/ j < i
    BY <1>2
  <2> QED
    BY <1>2, <2>1, <2>2
<1>7. \A i, j \in 1 .. n : rows[i].site = rows[j].site =>
        rows[i].up = rows[j].up /\ rows[i].running = rows[j].running
  <2>1. \A h \in R : /\ RowOf(h).up = site[RowOf(h).site].up
                     /\ RowOf(h).running = (site[RowOf(h).site].status = "running")
    BY DEF RowOf
  <2> QED
    BY <1>2, <1>5, <2>1
<1>8. IsTable(rows, n)
  BY <1>2, <1>5, <1>6, <1>7 DEF IsTable
<1>9. RoutesAll(rows, n)
  BY <1>2, <1>5, <1>8 DEF RoutesAll, R
<1> QED
  BY <1>9 DEF rows

\* What the firewall puts before a site's answer.
Guard(waf) == IF waf THEN <<<<"rate_limit">>, <<"waf">>>> ELSE <<>>

\* A route that says what a host's row does is handled as the host is to be
\* answered.
LEMMA HandledAsAnswered ==
  ASSUME SitesOK, DomainsOK, NEW h \in RoutedHosts,
         NEW r \in EdgeRoute, Says(r, RowOf(h)), NEW waf \in BOOLEAN
  PROVE  Edge!Handlers(r, waf) = Guard(waf) \o <<Answer(h)>>
<1> DEFINE d == domain[h]
           s == site[d.site]
           last == IF r.to # NoHost THEN <<<<"redirect", r.to>>>>
                   ELSE IF r.offline \/ ~r.up THEN <<<<"503">>>> ELSE <<<<"proxy", r.site>>>>
<1>1. Edge!Handlers(r, waf) = Guard(waf) \o last
  BY Zenon DEF Edge!Handlers, Guard
<1>2. RowOf(h).to = d.to /\ RowOf(h).site = d.site /\ RowOf(h).up = s.up
      /\ RowOf(h).running = (s.status = "running")
  BY DEF RowOf
<1>3. Answer(h) = IF d.to # NoHost THEN <<"redirect", d.to>>
                  ELSE IF s.status = "running" /\ s.up THEN <<"proxy", d.site>> ELSE <<"503">>
  BY DEF Answer
<1>4. s.up \in BOOLEAN /\ r.up \in BOOLEAN /\ r.offline \in BOOLEAN
  <2>1. h \in Hosts /\ d # Free
    BY DEF RoutedHosts, Routed
  <2>2. d \in DomainRow /\ s # NoSite
    BY <2>1 DEF DomainsOK
  <2>3. s \in SiteRow
    BY <2>2 DEF SitesOK, DomainRow
  <2> QED
    BY <2>3 DEF SiteRow, EdgeRoute
<1> HIDE DEF d, s
<1>5. last = <<Answer(h)>>
  <2>1. CASE d.to # NoHost
    BY <1>2, <1>3, <2>1 DEF Says
  <2>2. CASE d.to = NoHost
    <3>1. r.to = NoHost /\ r.site = d.site /\ r.up = s.up /\ r.offline = ~(s.status = "running")
      BY <1>2, <2>2 DEF Says
    <3>2. CASE s.status = "running" /\ s.up
      BY <1>3, <1>4, <2>2, <3>1, <3>2
    <3>3. CASE ~(s.status = "running" /\ s.up)
      BY <1>3, <1>4, <2>2, <3>1, <3>3
    <3> QED
      BY <3>2, <3>3
  <2> QED
    BY <2>1, <2>2
<1> QED
  BY <1>1, <1>5

\* What is served is what the table says.
LEMMA ServedAsAnswered ==
  ASSUME SitesOK, DomainsOK, NEW waf \in BOOLEAN, NEW mail \in BOOLEAN, NEW config,
         config.routes = Edge!Routes(Edge!SiteRoutes(RoutingTable), waf, mail), NEW h
  PROVE  /\ h = PanelHost => Edge!Serve(config, h) = <<<<"panel">>>>
         /\ h # PanelHost /\ mail /\ h = WebmailHost => Edge!Serve(config, h) = <<<<"webmail">>>>
         /\ h \notin OwnHosts(mail) /\ h \in RoutedHosts =>
              Edge!Serve(config, h) = Guard(waf) \o <<Answer(h)>>
         /\ h \notin OwnHosts(mail) /\ h \notin RoutedHosts => Edge!Serve(config, h) = <<>>
<1> DEFINE rows == RoutingTable
<1>1. PICK n : RoutesAll(rows, n)
  BY RoutingTableFacts
<1>2. IsTable(rows, n)
  BY <1>1 DEF RoutesAll
<1> HIDE DEF rows
<1>3. config.routes = Edge!Routes(Edge!SiteRoutes(rows), waf, mail)
  BY DEF rows
<1>4. /\ h = PanelHost => Edge!Serve(config, h) = <<<<"panel">>>>
      /\ h # PanelHost /\ mail /\ h = WebmailHost => Edge!Serve(config, h) = <<<<"webmail">>>>
      /\ h \notin OwnHosts(mail) =>
           /\ \A i \in 1 .. n : rows[i].fqdn = h =>
                \E r \in EdgeRoute : /\ Says(r, rows[i])
                                     /\ Edge!Serve(config, h) = Edge!Handlers(r, waf)
           /\ (\A i \in 1 .. n : rows[i].fqdn # h) => Edge!Serve(config, h) = <<>>
  <2>1. ServesRows(config, h, rows, n, waf, mail)
    BY <1>2, <1>3, Serving
  <2> QED
    BY <2>1, Zenon DEF ServesRows
<1>5. ASSUME h \notin OwnHosts(mail), h \in RoutedHosts
      PROVE  Edge!Serve(config, h) = Guard(waf) \o <<Answer(h)>>
  <2>1. PICK i \in 1 .. n : rows[i].fqdn = h /\ rows[i] = RowOf(h)
    BY <1>1, <1>5 DEF RoutesAll
  <2>2. PICK r \in EdgeRoute : Says(r, RowOf(h)) /\ Edge!Serve(config, h) = Edge!Handlers(r, waf)
    BY <1>4, <1>5, <2>1
  <2> QED
    BY <1>5, <2>2, HandledAsAnswered
<1>6. ASSUME h \notin OwnHosts(mail), h \notin RoutedHosts
      PROVE  Edge!Serve(config, h) = <<>>
  <2>1. \A i \in 1 .. n : rows[i].fqdn # h
    BY <1>1, <1>6 DEF RoutesAll
  <2> QED
    BY <1>4, <1>6, <2>1
<1> QED
  BY <1>4, <1>5, <1>6

\* EdgeAnswersAsTable follows from the types and the foreign keys.
LEMMA EdgeAnswersInv == SitesOK /\ DomainsOK => EdgeAnswersAsTable
<1> SUFFICES ASSUME SitesOK, DomainsOK, NEW waf \in BOOLEAN, NEW mail \in BOOLEAN,
                    NEW h \in Hosts \cup {PanelHost, WebmailHost, MailHost}
             PROVE  Edge!Serve(Edge!Build(Edge!SiteRoutes(RoutingTable), waf, mail), h) =
                      IF h = PanelHost THEN <<<<"panel">>>>
                      ELSE IF mail /\ h = WebmailHost THEN <<<<"webmail">>>>
                      ELSE IF h \in Hosts /\ Routed(h) THEN Guard(waf) \o <<Answer(h)>>
                      ELSE <<>>
  BY Zenon DEF EdgeAnswersAsTable, Guard
<1> DEFINE routes == Edge!SiteRoutes(RoutingTable)
           config == Edge!Build(routes, waf, mail)
<1>1. config.routes = Edge!Routes(routes, waf, mail)
  BY DEF Edge!Build
<1>2. /\ h \in RoutedHosts <=> h \in Hosts /\ Routed(h)
      /\ h \in OwnHosts(mail) <=> h = PanelHost \/ (mail /\ h = WebmailHost)
  BY DEF RoutedHosts, OwnHosts
<1> HIDE DEF config
<1>3. /\ h = PanelHost => Edge!Serve(config, h) = <<<<"panel">>>>
      /\ h # PanelHost /\ mail /\ h = WebmailHost => Edge!Serve(config, h) = <<<<"webmail">>>>
      /\ h \notin OwnHosts(mail) /\ h \in RoutedHosts =>
           Edge!Serve(config, h) = Guard(waf) \o <<Answer(h)>>
      /\ h \notin OwnHosts(mail) /\ h \notin RoutedHosts => Edge!Serve(config, h) = <<>>
  BY <1>1, ServedAsAnswered
<1> QED
  BY <1>2, <1>3 DEF config

\* So does StableOrder.
LEMMA StableOrderInv == SitesOK /\ DomainsOK => StableOrder
<1> SUFFICES ASSUME SitesOK, DomainsOK PROVE StableOrder
  OBVIOUS
<1> DEFINE routes == Edge!SiteRoutes(RoutingTable)
           m == Len(routes)
           Built(r) == Edge!Build(r, TRUE, TRUE)
<1>1. PICK n : AreRoutes(routes, n)
  <2>1. PICK l : IsTable(RoutingTable, l)
    BY RoutingTableFacts DEF RoutesAll
  <2> QED
    BY <2>1, RoutesFacts
<1> HIDE DEF routes
<1>2. m = n
  <2>1. IsList(routes, EdgeRoute, n)
    BY <1>1 DEF AreRoutes, IsList
  <2> QED
    BY <2>1, SequenceIs
<1>3. \A one, two : Edge!Sorted(one) = Edge!Sorted(two) => Built(one) = Built(two)
  BY Zenon DEF Edge!Build, Edge!Routes, Edge!SiteRoutesOf, Edge!Subjects
<1> HIDE DEF Built
<1>4. ASSUME NEW f \in [1 .. m -> 1 .. m], \A i, j \in 1 .. m : f[i] = f[j] => i = j
      PROVE  Built([i \in 1 .. m |-> routes[f[i]]]) = Built(routes)
  <2> HIDE DEF m
  <2>1. f \in [1 .. n -> 1 .. n] /\ \A i, j \in 1 .. n : f[i] = f[j] => i = j
    BY <1>2, <1>4
  <2>2. Edge!Sorted([i \in 1 .. n |-> routes[f[i]]]) = Edge!Sorted(routes)
    BY <1>1, <2>1, SortedAgain
  <2>3. Edge!Sorted([i \in 1 .. m |-> routes[f[i]]]) = Edge!Sorted(routes)
    BY <1>2, <2>2
  <2> QED
    BY <1>3, <2>3
<1> QED
  BY <1>4, Zenon DEF StableOrder, routes, Built

\* The names of the panel's own, and those of customers' routes.
OwnNames(mail) == IF mail THEN {PanelHost, WebmailHost, MailHost} ELSE {PanelHost}
Subjects(routes, n, mail) ==
  OwnNames(mail) \cup {h \in Hosts : \E k \in 1 .. n : h \in ToSet(routes[k].hosts)}

\* The panel's own names, as a list.
LEMMA OwnNamesList ==
  ASSUME NEW mail \in BOOLEAN
  PROVE  /\ IsList(Edge!OwnNames(mail), Nat, IF mail THEN 3 ELSE 1)
         /\ \A h : h \in ToSet(Edge!OwnNames(mail)) <=> h \in OwnNames(mail)
<1> DEFINE own == Edge!OwnNames(mail)
<1>1. PanelHost \in Nat /\ WebmailHost \in Nat /\ MailHost \in Nat
  BY HostsAssumption
<1>2. own = IF mail THEN <<PanelHost, WebmailHost, MailHost>> ELSE <<PanelHost>>
  BY Zenon DEF Edge!OwnNames
<1> HIDE DEF own
<1>3. CASE mail
  <2>1. IsList(own, Nat, 3) /\ own[1] = PanelHost /\ own[2] = WebmailHost /\ own[3] = MailHost
    BY <1>1, <1>2, <1>3 DEF IsList
  <2>2. \A h : h \in ToSet(own) <=> \E i \in 1 .. 3 : own[i] = h
    BY <2>1, SequenceIs
  <2>3. 1 \in 1 .. 3 /\ 2 \in 1 .. 3 /\ 3 \in 1 .. 3 /\ \A i \in 1 .. 3 : i = 1 \/ i = 2 \/ i = 3
    OBVIOUS
  <2>4. \A h : h \in ToSet(own) <=> h \in {PanelHost, WebmailHost, MailHost}
    BY <2>1, <2>2, <2>3
  <2> QED
    BY <1>3, <2>1, <2>4 DEF own, OwnNames
<1>4. CASE ~mail
  <2>1. IsList(own, Nat, 1) /\ own[1] = PanelHost
    BY <1>1, <1>2, <1>4 DEF IsList
  <2>2. \A h : h \in ToSet(own) <=> \E i \in 1 .. 1 : own[i] = h
    BY <2>1, SequenceIs
  <2>3. 1 \in 1 .. 1 /\ \A i \in 1 .. 1 : i = 1
    OBVIOUS
  <2>4. \A h : h \in ToSet(own) <=> h = PanelHost
    BY <2>1, <2>2, <2>3
  <2> QED
    BY <1>4, <2>1, <2>4 DEF own, OwnNames
<1> QED
  BY <1>3, <1>4

\* What is in one list after another is in one of them.
LEMMA JoinedNames ==
  ASSUME NEW s, NEW t, NEW p, NEW q, IsList(s, Nat, p), IsList(t, Nat, q)
  PROVE  \A x : x \in ToSet(s \o t) <=> x \in ToSet(s) \/ x \in ToSet(t)
  BY Concatenated

\* Each name is listed once, and no other.
LEMMA SubjectsFacts ==
  ASSUME NEW routes, NEW n, AreRoutes(routes, n), NEW mail \in BOOLEAN
  PROVE  /\ \A h : h \in ToSet(Edge!Subjects(routes, mail)) <=> h \in Subjects(routes, n, mail)
         /\ Len(Edge!Subjects(routes, mail)) = Cardinality(ToSet(Edge!Subjects(routes, mail)))
<1> DEFINE t == Edge!Sorted(routes)
           hosts == [k \in 1 .. n |-> t[k].hosts]
           flat == FlattenSeq(hosts)
           own == Edge!OwnNames(mail)
           u == own \o flat
           names == Subjects(routes, n, mail)
           listed == Edge!Subjects(routes, mail)
<1>1. /\ n \in Nat /\ DOMAIN t = 1 .. n /\ t \in [1 .. n -> EdgeRoute]
      /\ \A i \in 1 .. n : \E k \in 1 .. n : t[i] = routes[k]
      /\ \A k \in 1 .. n : \E i \in 1 .. n : t[i] = routes[k]
  BY SortedFacts DEF IsList
<1>2. listed = Edge!Ascending(ToSet(u))
  <2>1. listed = Edge!Ascending(Edge!ToSet(own \o Edge!FlattenSeq([k \in DOMAIN t |-> t[k].hosts])))
    BY Zenon DEF Edge!Subjects, Edge!Dedupe
  <2>2. [k \in DOMAIN t |-> t[k].hosts] = hosts
    BY <1>1
  <2> QED
    BY <2>1, <2>2, SameLibrary, Zenon
<1>3. hosts \in [1 .. n -> Seq(Hosts)] /\ \A k \in 1 .. n : hosts[k] = t[k].hosts
  BY <1>1 DEF EdgeRoute
<1> HIDE DEF t
<1>4. /\ flat \in Seq(Hosts)
      /\ \A h : h \in ToSet(flat) <=> \E k \in 1 .. n : h \in ToSet(hosts[k])
  <2> HIDE DEF hosts
  <2> QED
    BY <1>1, <1>3, Flattened
<1> HIDE DEF hosts, flat
<1>5. Hosts \in SUBSET Nat /\ PanelHost \in Nat /\ WebmailHost \in Nat /\ MailHost \in Nat
  BY HostsAssumption
<1>6. /\ IsList(own, Nat, IF mail THEN 3 ELSE 1)
      /\ \A h : h \in ToSet(own) <=> h \in OwnNames(mail)
  BY OwnNamesList
<1>7. IsList(flat, Nat, Len(flat))
  <2>1. Len(flat) \in Nat /\ flat \in [1 .. Len(flat) -> Hosts]
    BY <1>4, LenProperties
  <2>2. flat \in [1 .. Len(flat) -> Nat]
    BY <1>5, <2>1
  <2> QED
    BY <2>1, <2>2 DEF IsList
<1> HIDE DEF own
<1>8. \A h : h \in ToSet(u) <=> h \in ToSet(own) \/ h \in ToSet(flat)
  <2>1. u = own \o flat
    OBVIOUS
  <2>2. \E p : IsList(own, Nat, p)
    BY <1>6
  <2>3. \E q : IsList(flat, Nat, q)
    BY <1>7
  <2> HIDE DEF u
  <2> QED
    BY <2>1, <2>2, <2>3, JoinedNames
<1> HIDE DEF u
<1>9. \A h : h \in ToSet(flat) <=> h \in Hosts /\ \E k \in 1 .. n : h \in ToSet(routes[k].hosts)
  <2>1. ASSUME NEW h, h \in ToSet(flat)
        PROVE  h \in Hosts /\ \E k \in 1 .. n : h \in ToSet(routes[k].hosts)
    <3>1. PICK i \in 1 .. n : h \in ToSet(hosts[i])
      BY <1>4, <2>1
    <3>2. PICK k \in 1 .. n : t[i] = routes[k]
      BY <1>1
    <3>3. h \in ToSet(routes[k].hosts)
      BY <1>3, <3>1, <3>2
    <3>4. h \in Hosts
      <4>1. Len(flat) \in Nat /\ DOMAIN flat = 1 .. Len(flat) /\ \A x \in DOMAIN flat : flat[x] \in Hosts
        BY <1>4, LenProperties
      <4> QED
        BY <2>1, <4>1 DEF ToSet
    <3> QED
      BY <3>3, <3>4
  <2>2. ASSUME NEW h, NEW k \in 1 .. n, h \in ToSet(routes[k].hosts)
        PROVE  h \in ToSet(flat)
    <3>1. PICK i \in 1 .. n : t[i] = routes[k]
      BY <1>1
    <3>2. h \in ToSet(hosts[i])
      BY <1>3, <2>2, <3>1
    <3> QED
      BY <1>4, <3>2
  <2> QED
    BY <2>1, <2>2
<1>10. ToSet(u) = names
  <2>1. \A h : h \in ToSet(u) <=> h \in names
    BY <1>6, <1>8, <1>9 DEF Subjects
  <2> QED
    BY <2>1
<1>11. names \in SUBSET Nat /\ IsFiniteSet(names)
  <2> DEFINE routed == {h \in Hosts : \E k \in 1 .. n : h \in ToSet(routes[k].hosts)}
             three == OwnNames(mail)
  <2>1. names = three \cup routed
    BY DEF Subjects
  <2>2. IsFiniteSet(routed)
    BY FiniteAssumption, FS_Subset, Zenon
  <2>3. IsFiniteSet(three)
    <3>1. IsFiniteSet({})
      BY FS_EmptySet
    <3>2. IsFiniteSet({} \cup {PanelHost})
      BY <3>1, FS_AddElement
    <3>3. IsFiniteSet(({} \cup {PanelHost}) \cup {WebmailHost})
      BY <3>2, FS_AddElement
    <3>4. IsFiniteSet((({} \cup {PanelHost}) \cup {WebmailHost}) \cup {MailHost})
      BY <3>3, FS_AddElement
    <3>5. \/ three = {} \cup {PanelHost}
          \/ three = (({} \cup {PanelHost}) \cup {WebmailHost}) \cup {MailHost}
      BY DEF OwnNames
    <3> HIDE DEF three
    <3> QED
      BY <3>2, <3>4, <3>5
  <2>4. three \in SUBSET Nat /\ routed \in SUBSET Nat
    BY <1>5 DEF OwnNames
  <2> HIDE DEF three, routed, names
  <2> QED
    BY <2>1, <2>2, <2>3, <2>4, FS_Union
<1> HIDE DEF names
<1> DEFINE c == Cardinality(names)
<1>12. /\ c \in Nat /\ listed \in [1 .. c -> names]
       /\ \A h \in names : \E i \in 1 .. c : listed[i] = h
  <2> HIDE DEF listed
  <2>1. listed = Edge!Ascending(names)
    BY <1>2, <1>10
  <2> QED
    BY <1>11, <2>1, AscendingFacts
<1> HIDE DEF c, listed
<1>13. Len(listed) = c /\ \A h : h \in ToSet(listed) <=> \E i \in 1 .. c : listed[i] = h
  <2>1. IsList(listed, names, c)
    BY <1>12 DEF IsList
  <2> QED
    BY <2>1, SequenceIs
<1>14. ToSet(listed) = names
  <2>1. \A h : h \in ToSet(listed) <=> h \in names
    BY <1>12, <1>13
  <2> QED
    BY <2>1
<1> QED
  BY <1>13, <1>14 DEF listed, names, c

\* The edge obtains certificates for the panel's own names and customers'
\* hosts: by their routes, or by certificates.automate.
LEMMA ManagedFacts ==
  ASSUME NEW routes, NEW n, AreRoutes(routes, n), NEW mail \in BOOLEAN,
         \A k \in 1 .. n : \A h \in ToSet(routes[k].hosts) : h \in Hosts, NEW h
  PROVE  h \in Edge!Managed(Edge!Build(routes, FALSE, mail)) <=> h \in Subjects(routes, n, mail)
<1> DEFINE config == Edge!Build(routes, FALSE, mail)
           t == Edge!Sorted(routes)
           u == config.routes
           o == OwnCount(mail)
           m == o + n
           Has(k) == h \in ToSet(u[k].hosts)
<1>1. /\ \A i \in 1 .. n : \E k \in 1 .. n : t[i] = routes[k]
      /\ \A k \in 1 .. n : \E i \in 1 .. n : t[i] = routes[k]
  BY SortedFacts
<1>2. /\ u = Edge!Routes(routes, FALSE, mail)
      /\ config.automate = IF mail THEN <<MailHost>> ELSE <<>>
  BY DEF Edge!Build
<1>3. IsConfigured(u, routes, n, FALSE, mail)
  <2> HIDE DEF config
  <2> QED
    BY <1>2, Configured
<1>4. /\ n \in Nat /\ DOMAIN u = 1 .. m
      /\ u[1] = Edge!Own(PanelHost, "panel") /\ (mail => u[2] = Edge!Own(WebmailHost, "webmail"))
      /\ \A i \in 1 .. n : u[o + i].hosts = t[i].hosts
  BY <1>3, Zenon DEF IsConfigured
<1>5. h \in Edge!Managed(config) <=>
        h \in ToSet(config.automate) \/ \E k \in 1 .. m : Has(k)
  <2> HIDE DEF config, m
  <2>1. h \in Edge!Managed(config) <=>
          h \in ToSet(config.automate) \/ \E k \in DOMAIN config.routes : h \in ToSet(config.routes[k].hosts)
    BY SameLibrary, Zenon DEF Edge!Managed
  <2> QED
    BY <1>4, <2>1
<1>6. h \in ToSet(config.automate) <=> mail /\ h = MailHost
  <2>1. DOMAIN <<MailHost>> = {1} /\ <<MailHost>>[1] = MailHost /\ DOMAIN <<>> = {}
    OBVIOUS
  <2> HIDE DEF config
  <2>2. CASE mail
    <3>1. ToSet(config.automate) = {<<MailHost>>[i] : i \in DOMAIN <<MailHost>>}
      BY <1>2, <2>2 DEF ToSet
    <3> QED
      BY <2>1, <2>2, <3>1
  <2>3. CASE ~mail
    <3>1. ToSet(config.automate) = {}
      BY <1>2, <2>1, <2>3 DEF ToSet
    <3> QED
      BY <2>3, <3>1
  <2> QED
    BY <2>2, <2>3
<1> HIDE DEF config, u, t
<1>7. /\ o \in Nat /\ 1 \in 1 .. m /\ (mail => o = 2 /\ 2 \in 1 .. m) /\ (~mail => o = 1)
  BY <1>4 DEF OwnCount
<1>8. /\ Has(1) <=> h = PanelHost
      /\ mail => (Has(2) <=> h = WebmailHost)
  <2> DEFINE panel == Edge!Own(PanelHost, "panel")
             webmail == Edge!Own(WebmailHost, "webmail")
  <2>1. /\ \A x : x \in ToSet(panel.hosts) <=> x = PanelHost
        /\ \A x : x \in ToSet(webmail.hosts) <=> x = WebmailHost
    BY OwnFacts
  <2>2. u[1] = panel /\ (mail => u[2] = webmail)
    BY <1>4
  <2> HIDE DEF panel, webmail
  <2> QED
    BY <2>1, <2>2
<1>9. \A k \in 1 .. m : k = 1 \/ (mail /\ k = 2) \/ \E i \in 1 .. n : k = o + i
  <2> SUFFICES ASSUME NEW k \in 1 .. m, k # 1, ~(mail /\ k = 2) PROVE \E i \in 1 .. n : k = o + i
    OBVIOUS
  <2>1. k - o \in 1 .. n /\ k = o + (k - o)
    <3> HIDE DEF o
    <3> QED
      BY <1>4, <1>7
  <2> QED
    BY <2>1
<1>10. \A i \in 1 .. n : o + i \in 1 .. m /\ (Has(o + i) <=> h \in ToSet(t[i].hosts))
  <2> HIDE DEF o
  <2> QED
    BY <1>4, <1>7
<1> HIDE DEF Has, m, o
<1>11. (\E k \in 1 .. m : Has(k)) <=>
         \/ h = PanelHost \/ (mail /\ h = WebmailHost)
         \/ \E i \in 1 .. n : h \in ToSet(t[i].hosts)
  BY <1>7, <1>8, <1>9, <1>10
<1>12. (\E i \in 1 .. n : h \in ToSet(t[i].hosts)) <=>
         h \in Hosts /\ \E k \in 1 .. n : h \in ToSet(routes[k].hosts)
  BY <1>1
<1>13. h \in OwnNames(mail) <=> h = PanelHost \/ (mail /\ (h = WebmailHost \/ h = MailHost))
  BY DEF OwnNames
<1> QED
  BY <1>5, <1>6, <1>11, <1>12, <1>13 DEF Subjects, config

\* CertificatesMatch follows from the types and the foreign keys.
LEMMA CertificatesInv == SitesOK /\ DomainsOK => CertificatesMatch
<1> SUFFICES ASSUME SitesOK, DomainsOK, NEW mail \in BOOLEAN
             PROVE  LET rows == RoutingTable
                        config == Edge!Build(Edge!SiteRoutes(rows), FALSE, mail)
                        kept == Edge!Managed(config)
                        answered == {h \in Hosts \cup {PanelHost, WebmailHost} :
                                       Edge!Serve(config, h) # <<>>}
                    IN  /\ kept = answered \cup (IF mail THEN {MailHost} ELSE {})
                        /\ Edge!ToSet(config.subjects) = kept
                        /\ Len(config.subjects) = Cardinality(kept)
                        /\ \A h \in Hosts : Edge!Authorized(rows, h) => h \in kept
  BY SameLibrary, Zenon DEF CertificatesMatch
<1> DEFINE rows == RoutingTable
           routes == Edge!SiteRoutes(rows)
           config == Edge!Build(routes, FALSE, mail)
           kept == Edge!Managed(config)
           listed == ToSet(config.subjects)
           served == {h \in Hosts \cup {PanelHost, WebmailHost} : Edge!Serve(config, h) # <<>>}
           server == IF mail THEN {MailHost} ELSE {}
<1>1. PICK n : RoutesAll(rows, n)
  BY RoutingTableFacts
<1>2. /\ IsTable(rows, n)
      /\ \A i \in 1 .. n : rows[i].fqdn \in RoutedHosts
      /\ \A h \in RoutedHosts : \E i \in 1 .. n : rows[i].fqdn = h
  BY <1>1, Zenon DEF RoutesAll
<1>3. DOMAIN rows = 1 .. n
  BY <1>2 DEF IsTable
<1>4. PICK q : /\ AreRoutes(routes, q)
               /\ \A k \in 1 .. q : \A h \in ToSet(routes[k].hosts) :
                    \E i \in 1 .. n : rows[i].fqdn = h /\ Says(routes[k], rows[i])
               /\ \A i \in 1 .. n : \E k \in 1 .. q : rows[i].fqdn \in ToSet(routes[k].hosts)
  <2> HIDE DEF rows
  <2> QED
    BY <1>2, RoutesFacts
<1>5. /\ config.subjects = Edge!Subjects(routes, mail)
      /\ config.routes = Edge!Routes(routes, FALSE, mail)
  BY DEF Edge!Build
<1>6. ASSUME NEW h
      PROVE  Edge!Serve(config, h) # <<>> <=> h \in OwnHosts(mail) \cup RoutedHosts
  <2> HIDE DEF config
  <2>1. /\ h = PanelHost => Edge!Serve(config, h) = <<<<"panel">>>>
        /\ h # PanelHost /\ mail /\ h = WebmailHost => Edge!Serve(config, h) = <<<<"webmail">>>>
        /\ h \notin OwnHosts(mail) /\ h \in RoutedHosts =>
             Edge!Serve(config, h) = Guard(FALSE) \o <<Answer(h)>>
        /\ h \notin OwnHosts(mail) /\ h \notin RoutedHosts => Edge!Serve(config, h) = <<>>
    BY <1>5, ServedAsAnswered
  <2> DEFINE one == <<Answer(h)>>
             none == <<>>
             u == none \o one
  <2>2. IsList(one, {Answer(h)}, 1) /\ IsList(none, {Answer(h)}, 0)
    BY DEF IsList
  <2>3. <<<<"panel">>>> # <<>> /\ <<<<"webmail">>>> # <<>>
    OBVIOUS
  <2>4. IsList(u, {Answer(h)}, 0 + 1)
    <3> HIDE DEF one, none
    <3> QED
      BY <2>2, Joined
  <2>5. u # <<>>
    <3> HIDE DEF u
    <3>1. DOMAIN u = 1 .. 1
      BY <2>4 DEF IsList
    <3>2. DOMAIN <<>> = {} /\ 1 \in 1 .. 1
      OBVIOUS
    <3> QED
      BY <3>1, <3>2
  <2>6. Guard(FALSE) = none
    BY DEF Guard
  <2>7. h \in OwnHosts(mail) <=> h = PanelHost \/ (mail /\ h = WebmailHost)
    BY DEF OwnHosts
  <2> HIDE DEF u
  <2> QED
    BY <2>1, <2>3, <2>5, <2>6, <2>7 DEF u
<1> HIDE DEF rows, routes
<1>7. \A h : h \in Subjects(routes, q, mail) <=>
              h \in OwnHosts(mail) \cup server \cup RoutedHosts
  <2>1. ASSUME NEW h, h \in RoutedHosts PROVE h \in Hosts /\ \E k \in 1 .. q : h \in ToSet(routes[k].hosts)
    <3>1. h \in Hosts
      BY <2>1 DEF RoutedHosts
    <3> QED
      BY <1>2, <1>4, <2>1, <3>1
  <2>2. ASSUME NEW h, NEW k \in 1 .. q, h \in ToSet(routes[k].hosts) PROVE h \in RoutedHosts
    BY <1>2, <1>4, <2>2
  <2>3. \A h : h \in OwnNames(mail) <=> h \in OwnHosts(mail) \cup server
    BY DEF OwnNames, OwnHosts
  <2> HIDE DEF server
  <2> QED
    BY <2>1, <2>2, <2>3 DEF Subjects
<1>8. \A h : h \in kept <=> h \in Subjects(routes, q, mail)
  <2>1. \A k \in 1 .. q : \A h \in ToSet(routes[k].hosts) : h \in Hosts
    BY <1>2, <1>4 DEF RoutedHosts
  <2> QED
    BY <1>4, <2>1, ManagedFacts
<1> HIDE DEF config
<1>9. \A h : h \in listed <=> h \in Subjects(routes, q, mail)
  BY <1>4, <1>5, SubjectsFacts
<1> HIDE DEF listed, kept, server
<1>10. listed = kept
  <2>1. \A h : h \in listed <=> h \in kept
    BY <1>8, <1>9
  <2> QED
    BY <2>1
<1>11. kept = served \cup server
  <2>1. RoutedHosts \in SUBSET Hosts /\ OwnHosts(mail) \in SUBSET {PanelHost, WebmailHost}
    BY DEF RoutedHosts, OwnHosts
  <2>2. \A h : h \in kept <=> h \in served \cup server
    BY <1>6, <1>7, <1>8, <2>1
  <2> HIDE DEF served
  <2> QED
    BY <2>2
<1>12. Len(config.subjects) = Cardinality(kept)
  BY <1>4, <1>5, <1>10, SubjectsFacts DEF listed
<1>13. ASSUME NEW h \in Hosts, Edge!Authorized(rows, h) PROVE h \in kept
  <2>1. h = PanelHost \/ \E i \in 1 .. n : rows[i].fqdn = h
    BY <1>3, <1>13, Zenon DEF Edge!Authorized
  <2>2. h \in OwnHosts(mail) \cup RoutedHosts
    BY <1>2, <2>1 DEF OwnHosts
  <2> QED
    BY <1>7, <1>8, <2>2
<1>14. Edge!ToSet(config.subjects) = kept
  BY <1>10, SameLibrary, Zenon DEF listed
<1> HIDE DEF served
<1>15. /\ kept = served \cup server
       /\ Edge!ToSet(config.subjects) = kept
       /\ Len(config.subjects) = Cardinality(kept)
       /\ \A h \in Hosts : Edge!Authorized(rows, h) => h \in kept
  BY <1>11, <1>12, <1>13, <1>14
<1> QED
  BY <1>15, Zenon DEF kept, served, server, config, routes, rows

-----------------------------------------------------------------------------
(* Theorems.                                                               *)

\* The strengthening of the properties below is an invariant.
THEOREM Invariant == Spec => []IInv
  BY Initially, Invariance, PTL DEF Spec

\* The rows have their types and the foreign keys hold, however requests
\* interleave: no site is without its account, and no domain without its site.
THEOREM TypeCorrect == Spec => []TypeOK
<1>1. IInv => TypeOK
  BY DEF IInv
<1> QED
  BY <1>1, Invariant, PTL

\* CreateAccount leaves no user behind for an account it could not make, as
\* long as no compensation failed.
THEOREM CreationUndone == Spec => []NoOwnerWithoutAccount
<1>1. IInv => NoOwnerWithoutAccount
  <2> SUFFICES ASSUME IInv, faults = 0, \A p \in Requests : op[p] = Idle,
                      NEW o \in Owners, user[o] = "pending"
               PROVE  FALSE
    BY DEF NoOwnerWithoutAccount
  <2>1. Waited(o)
    BY OwnedInv DEF IInv, Owned
  <2> QED
    BY <2>1, RowsAreThere DEF Waited
<1> QED
  BY <1>1, Invariant, PTL

\* The limits of sites and of added domains are exceeded by less than the
\* number of requests that can be under way at once.
THEOREM LimitsExceededByRequests == Spec => []LimitsHold
<1>1. IInv => LimitsHold
  <2> SUFFICES ASSUME IInv, NEW a \in Accts, ~acct[a].moved
               PROVE  /\ Cardinality(SitesOf(a)) < MaxSites + Cardinality(Requests)
                      /\ Cardinality(AddedTo(a)) < MaxDomains + Cardinality(Requests)
    BY DEF LimitsHold, AddedTo
  <2>1. Tables
    BY TypeParts DEF IInv, Tables
  <2>2. PICK p \in Requests : TRUE
    BY FiniteAssumption
  <2>3. Under(SitesOf(a), {}, MaxSites) /\ Under(AddedTo(a), {}, MaxDomains)
    <3>1. CASE acct[a] # NoAcct
      <4>1. SitesInv(a) /\ DomainsInv(a)
        BY <3>1 DEF IInv, LimitsInv
      <4> QED
        BY <4>1, Finite, UnderLess, UnderInv, LimitsAssumption
    <3>2. CASE acct[a] = NoAcct
      <4>1. SitesOf(a) = {}
        BY <2>1, <3>2 DEF SitesOf, Tables, SitesOK
      <4>2. AddedTo(a) = {}
        <5>1. \A h \in Hosts : domain[h] # Free => domain[h].site \in Sites /\ domain[h].site[1] # a
          BY <2>1, <3>2 DEF Tables, SitesOK, DomainsOK, DomainRow
        <5> QED
          BY <5>1 DEF AddedTo, DomainsOf
      <4> QED
        BY <2>2, <4>1, <4>2, UnderEmpty, LimitsAssumption
    <3> QED
      BY <3>1, <3>2
  <2>4. /\ Cardinality(SitesOf(a)) \in Nat /\ Cardinality(AddedTo(a)) \in Nat
        /\ Cardinality(Requests) \in Nat /\ Cardinality({}) = 0
    BY Finite, FiniteAssumption, FS_CardinalityType, FS_EmptySet
  <2> QED
    BY <2>3, <2>4, LimitsAssumption DEF Under
<1> QED
  BY <1>1, Invariant, PTL

\* The edge answers for each host as the row of its domain says, for nobody
\* else's, and the panel for itself and so, if mail is enabled, the webmail,
\* however domains are grouped into routes.
THEOREM EdgeAnswers == Spec => []EdgeAnswersAsTable
<1>1. TypeOK => EdgeAnswersAsTable
  BY TypeParts, EdgeAnswersInv
<1> QED
  BY <1>1, TypeCorrect, PTL

\* The configuration is the same in whatever order the routes come.
THEOREM OrderIsStable == Spec => []StableOrder
<1>1. TypeOK => StableOrder
  BY TypeParts, StableOrderInv
<1> QED
  BY <1>1, TypeCorrect, PTL

\* The edge obtains certificates, by the panel's issuer, for the hosts it
\* answers for and, if mail is enabled, for the mail server, by whose name in
\* certificates.automate it does; whoever may have one is among them.
THEOREM CertificatesAreMatched == Spec => []CertificatesMatch
<1>1. TypeOK => CertificatesMatch
  BY TypeParts, CertificatesInv
<1> QED
  BY <1>1, TypeCorrect, PTL

\* The sites of an account and the domains added to it each keep to its plan
\* as PlanLimit does, until the plan is changed.
THEOREM KeepsToPlan ==
  ASSUME NEW a \in Accts PROVE Spec => SitePlan(a)!Spec /\ DomainPlan(a)!Spec
<1>1. Init => SitePlan(a)!Init /\ DomainPlan(a)!Init
  BY PlanInit
<1>2. IInv /\ [Next]_vars =>
        [SitePlan(a)!Next]_(SitePlan(a)!vars) /\ [DomainPlan(a)!Next]_(DomainPlan(a)!vars)
  BY PlanStep DEF SiteStep, DomainStep
<1> QED
  BY <1>1, <1>2, Invariant, PTL DEF Spec, SitePlan!Spec, DomainPlan!Spec

=============================================================================
