\* Two requests at once on two accounts; customers may register the panel's name and the webmail's.
SPECIFICATION Spec
CONSTANTS
  Requests = {r1, r2}
  Accts = {a1, a2}
  Old = {a1}
  Owners = {o1}
  NoOwner = admin
  Names = {n1, n2, n3}
  Principal = n1
  Hosts = {1, 2, 3}
  Targets = {9}
  PanelHost = 2
  WebmailHost = 3
  MailHost = 4
  NoHost = 0
  MaxSites = 1
  MaxDomains = 1
  MaxCalls = 3
  MaxFaults = 1
SYMMETRY Symmetry
INVARIANTS TypeOK NoOwnerWithoutAccount LimitsHold EdgeAnswersAsTable StableOrder CertificatesMatch
CHECK_DEADLOCK FALSE
