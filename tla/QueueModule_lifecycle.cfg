SPECIFICATION FairSpec
CONSTANTS
  Queue = {q1}
  Root = Root
  Processor = {q1}
  Event = {e1}
  JobId = {j1, j2}
  Null = Null
  RetryLimit = 1
  MaxStops = 1
INVARIANTS
  TypeOK
  QueuesExist
  ErrorsAreHeard
  CompletedWasProcessed
PROPERTIES
  OnlyDeathOrphans
  JobsAreHandled
