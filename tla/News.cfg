\* Two articles that compete for a batch of one, two editors, two overlapping
\* scheduler cycles; versions, time and failing cycles are bounded.
SPECIFICATION FairSpec
CONSTANTS
  Articles = {1, 2}
  Editors = {e1, e2}
  Schedulers = {s1, s2}
  Limit = 1
  MaxVersion = 2
  MaxTime = 1
  MaxFailures = 2
CHECK_DEADLOCK FALSE
INVARIANTS
  SearchIsCurrent
PROPERTIES
  ImplementsContract
  DueIsPublished
