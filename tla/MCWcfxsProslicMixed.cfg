SPECIFICATION ProslicSpec
CONSTANTS
  NUM_CARDS = 4
  robust = TRUE
INVARIANT CalRestored
CHECK_DEADLOCK FALSE
