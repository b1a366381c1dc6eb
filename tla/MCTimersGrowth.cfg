SPECIFICATION Spec
CONSTANTS
  NUM_TIMERS = 2
  ADD_TIMERS = 1
  MAX_TIMERS = 3
  Never = 6
  Delays <- MCDelays
  MaxSalt = 3
  MaxResets = 0
  MaxBusy = 1
  MaxIdle = 1
INVARIANTS NoTimerLost
