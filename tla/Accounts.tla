------------------------------ MODULE Accounts ------------------------------
(***************************************************************************)
(* Hosting accounts, their owners, sites and domains as PostgreSQL keeps   *)
(* them: the creation of an account with its compensations, the creation   *)
(* of sites and domains within the limits of the account's plan, and the   *)
(* changes that make a site appear at, or disappear from, the edge.        *)
(*                                                                         *)
(* Requests interleave between the statements they send.  What becomes of  *)
(* containers is SiteLifecycle's; here a site runs, or does not.           *)
(***************************************************************************)
EXTENDS Naturals, FiniteSets, Sequences, SequencesExt

CONSTANTS
  Requests,    \* request goroutines
  Accts,       \* the accounts' unix_user
  Old,         \* those that are there already, with a site that has no domain yet
  Owners,      \* usernames of new owners
  NoOwner,     \* the administrator, who is there already
  Names,       \* names of sites within an account
  Principal,   \* that of the site that comes with the account
  Hosts,       \* domains customers may register
  Targets,     \* where they may redirect them
  PanelHost, WebmailHost, MailHost, NoHost,
  MaxSites, MaxDomains,   \* of a plan
  MaxCalls,    \* bound on the requests
  MaxFaults    \* bound on compensations that fail, lost contexts and crashes

Sites == Accts \X Names

ASSUME HostsAssumption ==
  /\ Hosts \cup Targets \cup {PanelHost, WebmailHost, MailHost, NoHost} \subseteq Nat
  /\ NoHost \notin Hosts \cup Targets
ASSUME OwnersAssumption == NoOwner \notin Owners /\ Principal \in Names /\ Old \subseteq Accts
ASSUME LimitsAssumption ==
  /\ MaxSites \in Nat /\ MaxDomains \in Nat /\ MaxCalls \in Nat /\ MaxFaults \in Nat
  /\ Old # {} => MaxSites >= 1
ASSUME FiniteAssumption ==
  /\ IsFiniteSet(Requests) /\ Requests # {}
  /\ IsFiniteSet(Accts) /\ IsFiniteSet(Names) /\ IsFiniteSet(Hosts)

VARIABLES
  user,     \* new owners: "none", "pending" until their account is, "kept"
  acct,     \* accounts: status, owner, and whether their plan's limits are others
  site,     \* sites: status, whether upstream_host is set
  domain,   \* domains: site, where they redirect to, and whether they came
            \* with it ("primary") or were added
  op,       \* what each request is doing
  calls, faults

vars == <<user, acct, site, domain, op, calls, faults>>

Edge == INSTANCE EdgeConfig

NoAcct == [status |-> "none", owner |-> NoOwner, moved |-> FALSE]
NoSite == [status |-> "none", up |-> FALSE]
Free == [site |-> <<>>, to |-> NoHost, kind |-> "none"]
Idle == [site |-> <<>>, owner |-> NoOwner, to |-> NoHost, kind |-> "none", at |-> "idle",
         host |-> NoHost]

TypeOK ==
  /\ user \in [Owners -> {"none", "pending", "kept"}]
  /\ acct \in [Accts -> {NoAcct} \cup
       [status : {"active", "suspended"}, owner : Owners \cup {NoOwner}, moved : BOOLEAN]]
  /\ site \in [Sites -> {NoSite} \cup
       [status : {"provisioning", "running", "stopped", "error"}, up : BOOLEAN]]
  /\ domain \in [Hosts -> {Free} \cup [site : Sites, to : Targets \cup {NoHost}, kind : {"primary", "addon"}]]
  /\ op \in [Requests -> {Idle} \cup
       [kind : {"account", "site", "domain"}, site : Sites, host : Hosts \cup {NoHost},
        to : Targets \cup {NoHost}, owner : Owners \cup {NoOwner},
        at : {"owner", "account", "dirs", "dropaccount", "dropowner",
              "insert", "prepare", "domain", "deploy"}]]
  /\ calls \in 0 .. MaxCalls /\ faults \in 0 .. MaxFaults
  \* Foreign keys.
  /\ \A s \in Sites : site[s] # NoSite => acct[s[1]] # NoAcct
  /\ \A h \in Hosts : domain[h] # Free => site[domain[h].site] # NoSite

Init ==
  /\ user = [o \in Owners |-> "none"]
  /\ acct = [a \in Accts |->
       IF a \in Old THEN [status |-> "active", owner |-> NoOwner, moved |-> FALSE] ELSE NoAcct]
  /\ site = [s \in Sites |->
       IF s[1] \in Old /\ s[2] = Principal THEN [status |-> "running", up |-> TRUE] ELSE NoSite]
  /\ domain = [h \in Hosts |-> Free]
  /\ op = [p \in Requests |-> Idle]
  /\ calls = 0 /\ faults = 0

Works == faults' = faults
Fault == faults < MaxFaults /\ faults' = faults + 1

Busy(p, at) == op[p].at = at
GoTo(p, at) == op' = [op EXCEPT ![p].at = at]
End(p) == op' = [op EXCEPT ![p] = Idle]

\* CountAccountSites and CountAccountDomains.
SitesOf(a) == {s \in Sites : s[1] = a /\ site[s] # NoSite}
DomainsOf(a) == {h \in Hosts : domain[h] # Free /\ domain[h].site[1] = a}

\* Mutant: one too many.
Mutant_WithinSites(a) == Cardinality(SitesOf(a)) <= MaxSites

WithinSites(a) == acct[a].moved \/ Cardinality(SitesOf(a)) < MaxSites

\* Mutant: domains are left without their site.
Mutant_Without(S) ==
  /\ site' = [s \in Sites |-> IF s \in S THEN NoSite ELSE site[s]]
  /\ domain' = domain

\* ON DELETE CASCADE.
Without(S) ==
  /\ site' = [s \in Sites |-> IF s \in S THEN NoSite ELSE site[s]]
  /\ domain' = [h \in Hosts |->
       IF domain[h] # Free /\ domain[h].site \in S THEN Free ELSE domain[h]]

-----------------------------------------------------------------------------
(* Requests that are one statement, but for what SiteLifecycle describes.  *)

Once ==
  /\ calls < MaxCalls /\ calls' = calls + 1
  /\ UNCHANGED <<user, op, faults>>

\* UpdatePlan: the plan's accounts come under other limits, whatever they
\* have already.
EditPlan ==
  /\ Once
  /\ acct' = [a \in Accts |->
       IF acct[a] = NoAcct THEN NoAcct ELSE [acct[a] EXCEPT !.moved = TRUE]]
  /\ UNCHANGED <<site, domain>>

\* UpdateAccountPlan.
ChangePlan(a) ==
  /\ Once
  /\ acct[a] # NoAcct
  /\ acct' = [acct EXCEPT ![a].moved = TRUE]
  /\ UNCHANGED <<site, domain>>

\* Every site of the account is marked stopped; or running, or in error when
\* its container cannot be started.
Suspend(a) ==
  /\ Once
  /\ acct[a] # NoAcct
  /\ acct' = [acct EXCEPT ![a].status = "suspended"]
  /\ site' = [s \in Sites |->
       IF s \in SitesOf(a) THEN [site[s] EXCEPT !.status = "stopped"] ELSE site[s]]
  /\ UNCHANGED domain

Unsuspend(a) ==
  /\ Once
  /\ acct[a] # NoAcct
  /\ acct' = [acct EXCEPT ![a].status = "active"]
  /\ \E started \in SUBSET SitesOf(a) :
       site' = [s \in Sites |->
         IF s \notin SitesOf(a) THEN site[s]
         ELSE [site[s] EXCEPT !.status = IF s \in started THEN "running" ELSE "error"]]
  /\ UNCHANGED domain

Terminate(a) ==
  /\ Once
  /\ acct[a] # NoAcct
  /\ acct' = [acct EXCEPT ![a] = NoAcct]
  /\ Without(SitesOf(a))

\* StopSite, StartSite, RestartSite, as Docker lets them.
StopOrStart(s) ==
  /\ Once
  /\ site[s] # NoSite
  /\ \E status \in {"stopped", "running", "error"} :
       site' = [site EXCEPT ![s].status = status]
  /\ UNCHANGED <<acct, domain>>

DeleteSite(s) ==
  /\ Once
  /\ site[s] # NoSite
  /\ Without({s})
  /\ UNCHANGED acct

RemoveDomain(h) ==
  /\ Once
  /\ domain[h] # Free
  /\ domain' = [domain EXCEPT ![h] = Free]
  /\ UNCHANGED <<acct, site>>

-----------------------------------------------------------------------------
(* CreateAccount.                                                          *)

Called(p, call) ==
  /\ op[p] = Idle /\ calls < MaxCalls
  /\ calls' = calls + 1
  /\ op' = [op EXCEPT ![p] = call]
  /\ UNCHANGED <<user, acct, site, domain, faults>>

\* With a new owner or the administrator's, with a first site or without.
CallCreateAccount(p, a, o, h) ==
  Called(p, [site |-> <<a, Principal>>, owner |-> o, to |-> NoHost, kind |-> "account",
             at |-> IF o = NoOwner THEN "account" ELSE "owner", host |-> h])

\* createOwnerUser: the username is unique.
CreateOwner(p) ==
  LET o == op[p].owner
  IN  /\ Busy(p, "owner")
      /\ \/ /\ Works
            /\ user' = [user EXCEPT ![o] = IF @ = "none" THEN "pending" ELSE @]
            /\ IF user[o] = "none" THEN GoTo(p, "account") ELSE End(p)
         \/ Fault /\ user' \in {user, [user EXCEPT ![o] = IF @ = "none" THEN "pending" ELSE @]}
            /\ End(p)
      /\ UNCHANGED <<acct, site, domain, calls>>

Undo(p) == IF op[p].owner = NoOwner THEN End(p) ELSE GoTo(p, "dropowner")

\* unix_user is unique.  The plan is one with these limits, or another.
InsertAccount(p) ==
  LET a == op[p].site[1]
      o == op[p].owner
      row(moved) == [status |-> "active", owner |-> o, moved |-> moved]
  IN  /\ Busy(p, "account")
      /\ Works
      /\ IF acct[a] = NoAcct /\ (o = NoOwner \/ user[o] # "none")
         THEN /\ \E moved \in BOOLEAN : acct' = [acct EXCEPT ![a] = row(moved)]
              /\ user' = IF o = NoOwner THEN user ELSE [user EXCEPT ![o] = "kept"]
              /\ GoTo(p, "dirs")
         ELSE Undo(p) /\ UNCHANGED <<acct, user>>
      /\ UNCHANGED <<site, domain, calls>>

\* The directories are made, or cannot be.
PrepareAccount(p) ==
  /\ Busy(p, "dirs")
  /\ Works
  /\ \/ GoTo(p, "dropaccount")
     \/ IF op[p].host # NoHost /\ WithinSites(op[p].site[1])
        THEN GoTo(p, "insert") ELSE End(p)
  /\ UNCHANGED <<user, acct, site, domain, calls>>

\* DeleteAccount as a compensation, whose error is ignored.  It goes by the
\* row's id, and so leaves an account made since under the same unix_user
\* alone; here that one goes too.
DropAccount(p) ==
  LET a == op[p].site[1]
      o == op[p].owner
  IN  /\ Busy(p, "dropaccount")
      /\ \/ /\ Works
            /\ acct' = [acct EXCEPT ![a] = NoAcct]
            /\ user' = IF o = NoOwner THEN user ELSE [user EXCEPT ![o] = "pending"]
            /\ Without(SitesOf(a))
         \/ Fault /\ UNCHANGED <<user, acct, site, domain>>
      /\ Undo(p)
      /\ UNCHANGED calls

Owns(o) == \E a \in Accts : acct[a] # NoAcct /\ acct[a].owner = o

\* Mutant: the owner made for an account that could not be made stays.
Mutant_DropOwner(p) ==
  /\ Busy(p, "dropowner")
  /\ Works /\ user' = user /\ End(p)
  /\ UNCHANGED <<acct, site, domain, calls>>

\* DeleteUser likewise; ON DELETE RESTRICT keeps an owner of accounts.
DropOwner(p) ==
  /\ Busy(p, "dropowner")
  /\ \/ Works /\ user' = [user EXCEPT ![op[p].owner] = IF Owns(op[p].owner) THEN @ ELSE "none"]
     \/ Fault /\ user' = user
  /\ End(p)
  /\ UNCHANGED <<acct, site, domain, calls>>

-----------------------------------------------------------------------------
(* CreateSite and AddDomain.  The limit is looked at before anything else. *)

WithinDomains(a) == acct[a].moved \/ Cardinality(DomainsOf(a)) < MaxDomains

\* CreateSite, with a domain or without.
CallCreateSite(p, s, h) ==
  /\ acct[s[1]] # NoAcct /\ WithinSites(s[1])
  /\ Called(p, [site |-> s, owner |-> NoOwner, to |-> NoHost, kind |-> "site",
                at |-> "insert", host |-> h])

\* The container's name, which the account's and the site's make, is unique.
InsertSite(p) ==
  LET s == op[p].site
  IN  /\ Busy(p, "insert")
      /\ Works
      /\ IF acct[s[1]] # NoAcct /\ site[s] = NoSite
         THEN /\ site' = [site EXCEPT ![s] = [status |-> "provisioning", up |-> FALSE]]
              /\ GoTo(p, "prepare")
         ELSE site' = site /\ End(p)
      /\ UNCHANGED <<user, acct, domain, calls>>

\* UpdateSiteStatus and UpdateSiteRuntime change a row that is there.
Marked(s, row) == site' = IF site[s] = NoSite THEN site ELSE [site EXCEPT ![s] = row]
InError(s) == [site[s] EXCEPT !.status = "error"]

PrepareSite(p) ==
  /\ Busy(p, "prepare")
  /\ Works
  /\ \/ site' = site /\ GoTo(p, IF op[p].host = NoHost THEN "deploy" ELSE "domain")
     \/ Marked(op[p].site, InError(op[p].site)) /\ End(p)
  /\ UNCHANGED <<user, acct, domain, calls>>

\* An INSERT that fails, a domain being unique, ends the request; the site
\* stays as it is.
InsertDomain(p) ==
  LET h == op[p].host
      s == op[p].site
  IN  /\ Busy(p, "domain")
      /\ Works
      /\ IF domain[h] = Free /\ site[s] # NoSite
         THEN /\ domain' = [domain EXCEPT ![h] = [site |-> s, to |-> op[p].to,
                kind |-> IF op[p].kind = "domain" THEN "addon" ELSE "primary"]]
              /\ IF op[p].kind = "domain" THEN End(p) ELSE GoTo(p, "deploy")
         ELSE domain' = domain /\ End(p)
      /\ UNCHANGED <<user, acct, site, calls>>

CallAddDomain(p, s, h, to) ==
  /\ site[s] # NoSite /\ WithinDomains(s[1])
  /\ Called(p, [site |-> s, owner |-> NoOwner, to |-> to, kind |-> "domain",
                at |-> "domain", host |-> h])

Deploy(p) ==
  LET s == op[p].site
  IN  /\ Busy(p, "deploy")
      /\ Works
      /\ Marked(s, [status |-> "running", up |-> TRUE]) \/ Marked(s, InError(s))
      /\ End(p)
      /\ UNCHANGED <<user, acct, domain, calls>>

\* The panel dies or the request's context is done between two statements.
Abandon(p) ==
  /\ op[p] # Idle /\ Fault
  /\ End(p)
  /\ UNCHANGED <<user, acct, site, domain, calls>>

Next ==
  \/ EditPlan
  \/ \E a \in Accts : ChangePlan(a) \/ Suspend(a) \/ Unsuspend(a) \/ Terminate(a)
  \/ \E s \in Sites : StopOrStart(s) \/ DeleteSite(s)
  \/ \E h \in Hosts : RemoveDomain(h)
  \/ \E p \in Requests :
       \/ \E a \in Accts, o \in Owners \cup {NoOwner}, h \in Hosts \cup {NoHost} :
            CallCreateAccount(p, a, o, h)
       \/ \E s \in Sites, h \in Hosts \cup {NoHost} :
            \/ CallCreateSite(p, s, h)
            \/ h # NoHost /\ \E to \in Targets \cup {NoHost} : CallAddDomain(p, s, h, to)
       \/ CreateOwner(p) \/ InsertAccount(p) \/ PrepareAccount(p)
       \/ DropAccount(p) \/ DropOwner(p)
       \/ InsertSite(p) \/ PrepareSite(p) \/ InsertDomain(p) \/ Deploy(p)
       \/ Abandon(p)

Spec == Init /\ [][Next]_vars

-----------------------------------------------------------------------------
(* The edge, as a load made now would leave it.                            *)

\* RoutingTable: domains of running or stopped sites of active accounts.
Routed(h) ==
  /\ domain[h] # Free
  /\ acct[domain[h].site[1]].status = "active"
  /\ site[domain[h].site].status \in {"running", "stopped"}

RoutingTable ==
  LET order == Edge!Ascending({h \in Hosts : Routed(h)})
      row(h) == [fqdn |-> h, site |-> domain[h].site, to |-> domain[h].to,
                 up |-> site[domain[h].site].up,
                 running |-> site[domain[h].site].status = "running"]
  IN  [i \in DOMAIN order |-> row(order[i])]

-----------------------------------------------------------------------------
(* Properties.                                                             *)

\* CreateAccount undoes what it did: when requests are over and no
\* compensation failed, every user made for an account that could not be
\* made, or lost a race for its name, is gone.
NoOwnerWithoutAccount ==
  faults = 0 /\ (\A p \in Requests : op[p] = Idle) =>
    \A o \in Owners : user[o] # "pending"

\* The checks of max_sites and max_domains are made before the rows are:
\* the limits are exceeded by no more than the requests under way at once.
\* A primary domain, which comes with its site, is not checked; nor is an
\* account that comes under other limits with what it has.
LimitsHold ==
  \A a \in Accts :
    ~acct[a].moved =>
      /\ Cardinality(SitesOf(a)) < MaxSites + Cardinality(Requests)
      /\ Cardinality({h \in DomainsOf(a) : domain[h].kind = "addon"})
           < MaxDomains + Cardinality(Requests)

\* "El plan %s permite un máximo de %d dominios": no request adds a domain
\* beyond it.
DomainsWithinPlan ==
  [][\A a \in Accts :
       ~acct[a].moved /\ DomainsOf(a)' \ DomainsOf(a) # {} =>
         Cardinality(DomainsOf(a)') <= MaxDomains]_vars

\* What the routing table says of a host, read one row at a time.
Answer(h) ==
  IF domain[h].to # NoHost THEN <<"redirect", domain[h].to>>
  ELSE LET s == domain[h].site
       IN  IF site[s].status = "running" /\ site[s].up THEN <<"proxy", s>> ELSE <<"503">>

\* However domains are grouped into routes, and whatever customers call
\* theirs, the edge answers for each host as its own row says, for nobody
\* else's, the panel for itself and so, if mail is enabled, the webmail; and
\* the firewall, when it is on, guards customers' sites and nothing of the
\* panel's.
EdgeAnswersAsTable ==
  \A waf, mail \in BOOLEAN :
    LET config == Edge!Build(Edge!SiteRoutes(RoutingTable), waf, mail)
        guard == IF waf THEN <<<<"rate_limit">>, <<"waf">>>> ELSE <<>>
    IN  \A h \in Hosts \cup {PanelHost, WebmailHost, MailHost} :
          Edge!Serve(config, h) =
            IF h = PanelHost THEN <<<<"panel">>>>
            ELSE IF mail /\ h = WebmailHost THEN <<<<"webmail">>>>
            ELSE IF h \in Hosts /\ Routed(h) THEN guard \o <<Answer(h)>>
            ELSE <<>>

\* "Orden estable: evita recargas espurias de Caddy cuando nada cambió":
\* the configuration does not depend on the order of the routes.
StableOrder ==
  LET routes == Edge!SiteRoutes(RoutingTable)
      n == Len(routes)
      orders == {f \in [1 .. n -> 1 .. n] : \A i, j \in 1 .. n : f[i] = f[j] => i = j}
  IN  \A f \in orders :
        Edge!Build([i \in 1 .. n |-> routes[f[i]]], TRUE, TRUE) = Edge!Build(routes, TRUE, TRUE)

\* The edge obtains certificates for the hosts it answers for and, if mail
\* is enabled, for the mail server, which it does not answer for: for no
\* other name, for each by the panel's issuer (whose policy lists it once),
\* and for every customer's host that handleTLSAuthorize would approve.
CertificatesMatch ==
  \A mail \in BOOLEAN :
    LET rows == RoutingTable
        config == Edge!Build(Edge!SiteRoutes(rows), FALSE, mail)
        managed == Edge!Managed(config)
        answered == {h \in Hosts \cup {PanelHost, WebmailHost} : Edge!Serve(config, h) # <<>>}
    IN  /\ managed = answered \cup (IF mail THEN {MailHost} ELSE {})
        /\ ToSet(config.subjects) = managed
        /\ Len(config.subjects) = Cardinality(managed)
        /\ \A h \in Hosts : Edge!Authorized(rows, h) => h \in managed

-----------------------------------------------------------------------------
(* What makes the properties inductive.                                    *)

\* What a request is doing says what it was called with.
OpInv ==
  \A p \in Requests :
    /\ op[p].at \in {"owner", "account", "dirs", "dropaccount", "dropowner"} =>
         op[p].kind = "account"
    /\ op[p].at \in {"owner", "dropowner"} => op[p].owner # NoOwner
    /\ op[p].at = "domain" => op[p].host # NoHost
    /\ op[p].kind = "domain" => op[p].at = "domain"

\* p has made the user it was called with, and may have made the account.
Past(p) == op[p].kind = "account" /\ op[p].owner # NoOwner /\ op[p].at # "owner"

\* While nothing has failed: a new username belongs to one request, which
\* accounts for the user for as long as no account does.
OwnersInv ==
  faults = 0 =>
    /\ \A p, q \in Requests : Past(p) /\ Past(q) /\ op[p].owner = op[q].owner => p = q
    /\ \A p \in Requests : Past(p) =>
         /\ user[op[p].owner] # "none"
         /\ op[p].at \in {"account", "dropowner"} => user[op[p].owner] = "pending"
         /\ op[p].at \in {"dirs", "dropaccount"} =>
              \A a \in Accts : acct[a] # NoAcct /\ acct[a].owner = op[p].owner => a = op[p].site[1]
    /\ \A o \in Owners : user[o] = "pending" =>
         \E p \in Requests : Past(p) /\ op[p].owner = o /\ op[p].at \in {"account", "dropowner"}
    /\ \A a \in Accts : acct[a] # NoAcct /\ acct[a].owner # NoOwner => user[acct[a].owner] = "kept"

\* The requests that have passed a check of a's limits, and not used it yet.
Inserting(a) == {p \in Requests : op[p].at = "insert" /\ op[p].site[1] = a}
Adding(a) ==
  {p \in Requests : op[p].kind = "domain" /\ op[p].at = "domain" /\ op[p].site[1] = a}
AddedTo(a) == {h \in DomainsOf(a) : domain[h].kind = "addon"}

SitesInv(a) ==
  Cardinality(SitesOf(a)) + Cardinality(Inserting(a)) < MaxSites + Cardinality(Requests)
DomainsInv(a) ==
  Cardinality(AddedTo(a)) + Cardinality(Adding(a)) < MaxDomains + Cardinality(Requests)
LimitsInv ==
  \A a \in Accts : acct[a] # NoAcct /\ ~acct[a].moved => SitesInv(a) /\ DomainsInv(a)

IInv == TypeOK /\ OpInv /\ OwnersInv /\ LimitsInv

=============================================================================
