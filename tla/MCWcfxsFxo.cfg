SPECIFICATION FairSpec
CONSTANTS
  RingUp = 2
  RingDown = 1
  RingFull = 8
  BATT_DEBOUNCE = 6
  BattStep = 2
  POLARITY_DEBOUNCE = 3
  BATT_THRESH = 3
  Volts <- MCVolts
INVARIANTS
  TypeOK
  SignalAgrees
  PolarityTaken
PROPERTIES
  BatteryDebounced
  LineNoticed
