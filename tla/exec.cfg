SPECIFICATION Spec
CONSTANTS
  Caller = {c1, c2}
  MaxTasks = 3
PROPERTIES ImplementsExecutor QueuedTaskStarts DestructorReturns
CHECK_DEADLOCK FALSE
