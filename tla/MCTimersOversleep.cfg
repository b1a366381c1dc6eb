SPECIFICATION Spec
CONSTANTS
  NUM_TIMERS = 1
  ADD_TIMERS = 1
  MAX_TIMERS = 2
  Never = 9
  Delays <- MCDelays
  MaxSalt = 2
  MaxResets = 1
  MaxBusy = 1
  MaxIdle = 3
INVARIANTS NoOversleep
