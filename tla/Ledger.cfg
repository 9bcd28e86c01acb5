\* Two events of one day under a limit of one award, or none, taken by two workers,
\* an administrator who reverses and changes the rule, and two deliveries of the
\* levels consumer at once.
SPECIFICATION Spec
CONSTANTS
  Events = {1, 2}
  DayOf <- MCDayOf
  Workers = {w1, w2}
  Consumers = {c1, c2}
  Admins = {a1}
  Limits = {1}
  NoLimit = NoLimit
  Thresholds <- MCThresholds
SYMMETRY Symmetry
INVARIANTS
  DailyCapIsKept
  LevelFollowsBalance
PROPERTIES
  WithdrawnStaysWithdrawn
CONSTRAINT
  OneTransaction
