\* Two requests at once on three databases, an SFTP user and a mailbox, one fault.
SPECIFICATION Spec
CONSTANTS
  NoName = noname
  Handlers = {h1, h2}
  Databases = {d1, d2, d3}
  Logins = {f1}
  Boxes = {m1}
  Limit = 1
  MaxCalls = 5
  MaxFaults = 1
SYMMETRY Symmetry
INVARIANTS TypeOK NoOrphans PasswordWorks OvershootBounded
CHECK_DEADLOCK FALSE
