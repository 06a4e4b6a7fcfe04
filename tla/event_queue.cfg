SPECIFICATION QueueSpec
CONSTANTS
  MaxLimit = 2
  MaxArrivals = 5
  MaxQueueCalls = 3
CHECK_DEADLOCK FALSE
INVARIANT QueueWithinMaximum
