SPECIFICATION FairSpec
CONSTANTS
  MaxFifo = 2
  MaxCommands = 1
INVARIANTS OneCall Agree
PROPERTIES DropTold RingTold
