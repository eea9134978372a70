\* Two requests at once, one login, three tokens, one change of password
\* and one TOTP secret.
SPECIFICATION Spec
CONSTANTS
  NoLogin = nologin
  Requests = {r1, r2}
  Tokens = {t1, t2, t3}
  Logins = {l1}
  MaxPasswords = 2
  MaxSecrets = 1
  MaxTickets = 1
SYMMETRY Symmetry
INVARIANTS TypeOK OneHolder OldPasswordSessions
PROPERTY PassesTheBaton
CHECK_DEADLOCK FALSE
