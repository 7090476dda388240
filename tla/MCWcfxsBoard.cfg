SPECIFICATION Spec
CONSTANTS
  NUM_CARDS = 3
  timingonly = FALSE
  MaxOpen = 2
INVARIANTS
  AccessHits
  Detected
  Installed
  OutlivesUsers
  ProcOutlivesOnlyFailure
  PolledReady
