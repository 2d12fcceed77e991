SPECIFICATION FairSpec
CONSTANTS
  EventIds = {e1}
  MaxRetry = 5
  MaxFaults = 2
INVARIANTS
  DeliveredWasTaken
  CallBudget
  SilentAfterRemoval
  StatusTellsOutcome
PROPERTIES
  TasksEnd
  ImplementsDelivery
CHECK_DEADLOCK FALSE
