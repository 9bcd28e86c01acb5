\* One event, one cycle, one slot: every await may fail, every process may die,
\* and the event may be added again after its job failed, finished or was retried.
SPECIFICATION FairPipelineSpec
CONSTANTS
  Events <- MCOneEvent
  Cycles = {c1}
  Tokens = {t1}
  NoToken = NoToken
  NoEvent = NoEvent
  Limit = 1
  Posts = {}
  Articles <- MCOneEvent
  Retractions = {}
  Subject <- MCSubject
  Slots = {s1}
  NoSlot = NoSlot
  MaxAttempts = 2
  MaxStalls = 1
INVARIANTS
  OnlyCommittedEventsAreHandled
  LetterMeansExhausted
PROPERTIES
  CompletedIsFinal
  EveryEventSettles
