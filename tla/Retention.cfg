\* One medium that two overlapping passes clean up while an attempt processes it
\* and it is assigned to a profile slot, posted and taken by a draft; one pass is
\* interrupted.
SPECIFICATION RetentionFairSpec
CONSTANTS
  Media = {1}
  Sweepers = {s1, s2}
  ProfileSlots = {avatar}
  Posts = {p1}
  Articles = {a1}
  Writers = {w1}
  BatchSize = 1
  MaxInterrupts = 1
  NoAsset = NoAsset
INVARIANTS
  ProfileAssetsAreKept
  ReadyHasObjects
  PurgeIsComplete
PROPERTIES
  DeletionIsOneWay
  UnusedMediaIsPurged
