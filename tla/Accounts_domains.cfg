\* One request at a time: a site's own domain is not counted against the plan.
SPECIFICATION Spec
CONSTANTS
  Requests = {r1}
  Accts = {a1}
  Old = {a1}
  Owners = {}
  NoOwner = admin
  Names = {n1, n2}
  Principal = n1
  Hosts = {1, 2}
  Targets = {9}
  PanelHost = 3
  WebmailHost = 4
  MailHost = 5
  NoHost = 0
  MaxSites = 2
  MaxDomains = 1
  MaxCalls = 3
  MaxFaults = 0
PROPERTIES DomainsWithinPlan
CHECK_DEADLOCK FALSE
