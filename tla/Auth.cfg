\* Two requests of any kind at a time, two mail jobs, an account that changes its
\* credentials twice and holds one recovery code.
SPECIFICATION Spec
CONSTANTS
  Requests = {r1, r2}
  Registered = registered
  Emails = {e1, e2}
  Codes = {c1}
  Jobs = {1, 2}
  MaxAttempts = 2
  MaxChanges = 2
  None = None
SYMMETRY Symmetry
CHECK_DEADLOCK FALSE
INVARIANTS
  UsableIsCurrent
  RecoveryCodeOnce
  LinksProveTheAddress
  NewestLinkWorks
