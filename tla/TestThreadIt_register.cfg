\* Events registered from outside while the instance's thread goes through the slots.
SPECIFICATION TestSpec
CONSTANTS
  MAX_WORK_METHODS = 5
  MAX_EVENT_METHODS = 2
  Plans <- MCPlans
  MaxPeriods = 2
INVARIANT EventsAnswered
CHECK_DEADLOCK FALSE
