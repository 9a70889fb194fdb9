CONSTANTS
  Events <- MCEvents
  MaxSeconds = 3
SPECIFICATION Spec
INVARIANT ShowsWhatItWasTold
CHECK_DEADLOCK FALSE
