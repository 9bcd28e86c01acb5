\* A post and its retraction over two slots.  A stall lets two attempts of one
\* job overlap, the second attempt is the last, operator retries come at will.
SPECIFICATION FairSpec
CONSTANTS
  wall = wall
  Events = {post, retraction}
  Posts = {post}
  Articles = {}
  Retractions = {retraction}
  Subject <- MCSubject
  Slots = {s1, s2}
  NoSlot = NoSlot
  NoEvent = NoEvent
  MaxAttempts = 2
  MaxStalls = 1
INVARIANTS
  MarkedIsProjected
  CompletedIsMarked
PROPERTIES
  RetractionIsFinal
  EveryJobSettles
