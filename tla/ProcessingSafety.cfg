\* One delivery, its job and one job of the staff, two attempts at a time, one
\* of which may crash or lose its lock.
SPECIFICATION Spec
CONSTANTS
  Requests = {r1}
  SessionJob = session
  ExtraJobs = {extra}
  MayAbort = FALSE
  Slots = {w1, w2}
  NoSlot = NoSlot
  NoMedia = NoMedia
  MaxAttempts = 2
  MaxStalls = 1
  MaxLost = 1
  MaxFaults = 0
SYMMETRY Symmetry
INVARIANTS
  SourceIsKept
  UnfinishedIsOwned
PROPERTIES
  DecisionIsFinal

\* A settled upload has nothing left to do.
CHECK_DEADLOCK FALSE
