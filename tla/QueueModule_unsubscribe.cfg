SPECIFICATION Spec
CONSTANTS
  Queue = {q1}
  Root = Root
  Processor = {}
  Event = {e1}
  JobId = {j1}
  Null = Null
  RetryLimit = 1
  MaxStops = 0
PROPERTIES
  OnlySubscribersGetJobs
