----------------------------- MODULE EdgeConfig -----------------------------
(***************************************************************************)
(* The configuration of the edge as a function of the routing table: the   *)
(* grouping SyncCaddy does, caddyapi.Build, what the edge then answers for *)
(* a host, and which certificates it asks for.                             *)
(*                                                                         *)
(* Hosts are numbers in the order of their names.  No character of a host  *)
(* name sorts before the comma Build joins the hosts of a route with, so   *)
(* that joined names compare as the sequences do; and as no host is in two *)
(* routes, as their first elements do.                                     *)
(*                                                                         *)
(* Selections and sorted lists are functions over the indexes, for no      *)
(* prover looks into SelectSeq and SortSeq.                                *)
(***************************************************************************)
EXTENDS Naturals, FiniteSets, Sequences, SequencesExt

CONSTANTS
  PanelHost, WebmailHost,   \* routes of the panel's own
  MailHost,                 \* the mail server: no route, but a certificate
  NoHost                    \* no redirection

\* A row of RoutingTable:
\*   [fqdn, site, up (has an upstream), to (a host or NoHost), running]
\* and a caddyapi.SiteRoute: [hosts, to, up, offline, site (whose upstream)].

-----------------------------------------------------------------------------
(* Lists.                                                                  *)

Rank(x, S) == Cardinality({y \in S : y < x})

\* The numbers of S, sorted.
Ascending(S) == [i \in 1 .. Cardinality(S) |-> CHOOSE x \in S : Rank(x, S) = i - 1]

\* The elements of s at the indexes I, in the order of s.
Taken(s, I) ==
  LET at == Ascending(I)
  IN  [k \in DOMAIN at |-> s[at[k]]]

-----------------------------------------------------------------------------
(* SyncCaddy.                                                              *)

Order(rows) ==
  Ascending({i \in DOMAIN rows : \A j \in 1 .. i - 1 : rows[j].site # rows[i].site})

Fqdns(rows) == [i \in DOMAIN rows |-> rows[i].fqdn]

\* The first row of a site says whether it is offline, and where it is.
SiteRoute(rows, i) ==
  LET mine == {j \in DOMAIN rows : rows[j].site = rows[i].site /\ rows[j].to = NoHost}
  IN  [hosts |-> Taken(Fqdns(rows), mine), to |-> NoHost, up |-> rows[i].up,
       offline |-> ~rows[i].running, site |-> rows[i].site]

RedirectRoute(row) ==
  [hosts |-> <<row.fqdn>>, to |-> row.to, up |-> FALSE, offline |-> FALSE, site |-> row.site]

\* Domains that share a site are one route; one that redirects is its own.
SiteRoutes(rows) ==
  LET order == Order(rows)
      sites == [k \in DOMAIN order |-> SiteRoute(rows, order[k])]
      redirected == Taken(rows, {i \in DOMAIN rows : rows[i].to # NoHost})
  IN  Taken(sites, {k \in DOMAIN sites : Len(sites[k].hosts) > 0}) \o
      [k \in DOMAIN redirected |-> RedirectRoute(redirected[k])]

-----------------------------------------------------------------------------
(* Build.                                                                  *)

Own(host, name) == [hosts |-> <<host>>, handle |-> <<<<name>>>>]

\* Mutant: routes are left in the order they come in.
Mutant_Sorted(routes) == routes

Sorted(routes) ==
  LET firsts == Ascending({routes[k].hosts[1] : k \in DOMAIN routes})
  IN  [i \in DOMAIN routes |->
         routes[CHOOSE k \in DOMAIN routes : routes[k].hosts[1] = firsts[i]]]

Handlers(r, waf) ==
  (IF waf THEN <<<<"rate_limit">>, <<"waf">>>> ELSE <<>>) \o
  (IF r.to # NoHost THEN <<<<"redirect", r.to>>>>
   ELSE IF r.offline \/ ~r.up THEN <<<<"503">>>> ELSE <<<<"proxy", r.site>>>>)

SiteRoutesOf(routes, waf) ==
  LET sites == Sorted(routes)
  IN  [k \in DOMAIN sites |->
         [hosts |-> sites[k].hosts, handle |-> Handlers(sites[k], waf)]]

\* The panel's own; the webmail only when mail is enabled.
OwnRoutes(mail) ==
  IF mail THEN <<Own(PanelHost, "panel"), Own(WebmailHost, "webmail")>>
          ELSE <<Own(PanelHost, "panel")>>

\* Mutant: customers' routes first.
Mutant_Routes(routes, waf, mail) == SiteRoutesOf(routes, waf) \o OwnRoutes(mail)

\* Every route is terminal: the first one that matches is the answer.
Routes(routes, waf, mail) == OwnRoutes(mail) \o SiteRoutesOf(routes, waf)

\* dedupe sorts too.
Dedupe(hosts) == Ascending(ToSet(hosts))

OwnNames(mail) == IF mail THEN <<PanelHost, WebmailHost, MailHost>> ELSE <<PanelHost>>

\* The names of the policy with the panel's issuer.  They cause no
\* certificate: they only say how a name that needs one gets it.
Subjects(routes, mail) ==
  LET sites == Sorted(routes)
  IN  Dedupe(OwnNames(mail) \o FlattenSeq([k \in DOMAIN sites |-> sites[k].hosts]))

\* Mutant: nothing in certificates.automate.
Mutant_Build(routes, waf, mail) ==
  [routes |-> Routes(routes, waf, mail), subjects |-> Subjects(routes, mail),
   automate |-> <<>>]

\* The mail server has no route: its name is in certificates.automate.
Build(routes, waf, mail) ==
  [routes |-> Routes(routes, waf, mail), subjects |-> Subjects(routes, mail),
   automate |-> IF mail THEN <<MailHost>> ELSE <<>>]

-----------------------------------------------------------------------------
(* The edge.                                                               *)

\* What a request for host h meets, in order; nothing if no route matches.
Serve(config, h) ==
  LET found == {k \in DOMAIN config.routes : h \in ToSet(config.routes[k].hosts)}
  IN  IF found = {} THEN <<>> ELSE config.routes[Ascending(found)[1]].handle

\* The names it obtains certificates for unasked: those of some route and
\* those in certificates.automate.
Managed(config) ==
  ToSet(config.automate) \cup
  UNION {ToSet(config.routes[k].hosts) : k \in DOMAIN config.routes}

\* handleTLSAuthorize: may a certificate for h be had?
Authorized(rows, h) == h = PanelHost \/ \E i \in DOMAIN rows : rows[i].fqdn = h

=============================================================================
