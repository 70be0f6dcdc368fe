CONSTANTS
  Accounts <- TwoAccounts
  Kinds <- AllKinds
  Capacity = 1
  MaxTicks = 6
  MaxSignalsPerRun = 2
  RetriggerBelowCount = 2
  CooldownMarketEvents = 4
  Blocked = {1}
  Budgets <- MCBudgets
SPECIFICATION FeedSpec
INVARIANT EachAccountGetsAPrefix
INVARIANT SignalsAreCrossings
INVARIANT SignalsWithinSubscription
INVARIANT FaultsOnlyAfterDiscard
INVARIANT GivesUpAfterAll
PROPERTY FailedIsReplaced
CHECK_DEADLOCK FALSE
