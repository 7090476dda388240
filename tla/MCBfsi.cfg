SPECIFICATION Spec
VIEW View
CONSTANTS
  Samples = 8
  Lead = 14
  Budget = 6
  CountMod = 8
  CycleFrames = 28
  MaxStarts = 2
CHECK_DEADLOCK FALSE
INVARIANT NoTear
INVARIANT Balanced
INVARIANT BuffersOutliveDma
PROPERTY Static
PROPERTY LostIsSeen
