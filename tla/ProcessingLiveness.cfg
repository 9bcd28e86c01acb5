\* One delivery that the owner may abort, its job and one job of the staff, one
\* attempt at a time, which may crash or lose its lock once; one API crash or
\* failing store call.
SPECIFICATION FairSpec
CONSTANTS
  Requests = {r1}
  SessionJob = session
  ExtraJobs = {extra}
  MayAbort = TRUE
  Slots = {w1}
  NoSlot = NoSlot
  NoMedia = NoMedia
  MaxAttempts = 1
  MaxStalls = 1
  MaxLost = 1
  MaxFaults = 1
PROPERTIES
  EveryUploadSettles

\* A settled upload has nothing left to do.
CHECK_DEADLOCK FALSE
