SPECIFICATION ProslicFairSpec
CONSTANTS
  NUM_CARDS = 4
  robust = TRUE
INVARIANTS
  NoWaitInInterrupt
  FiltersBack
  SetUp
  CalRestoredUnshared
PROPERTY InitReturns
\* a card that is not there is never touched again
CHECK_DEADLOCK FALSE
