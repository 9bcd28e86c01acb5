\* Two events that commit in any order around the cutoff, pages of one key, two
\* racing operators, claims of two, two attempts per delivery; three
\* changes of the activation row, so that a destination is activated, paused and
\* resumed.
SPECIFICATION FairSpec
CONSTANTS
  Events <- MCEvents
  Cutoffs <- MCCutoffs
  Operators = {o1, o2}
  SourceBatch = 1
  ClaimBatch = 2
  Budget = 2
  MaxRevision = 3
INVARIANTS
  OnlyEligibleAreRouted
  EpochLeavesNoGap
  BudgetIsKept
  HistoryIsExact
PROPERTIES
  LeaseIsExclusive
  EveryEligibleIsRouted
  EveryDeliverySettles
