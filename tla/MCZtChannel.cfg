SPECIFICATION FairSpec
CONSTANTS
  Data = {d1, d2}
  NoData = NoData
  Short = {d2}
  Procs = {p1, p2}
  Readers = {p1}
  Writers = {p2}
  MaxBufs = 2
  MaxEvents = 1
  Masks = {{"read", "empty"}}
INVARIANTS RingShape NoTear SleepersServed
PROPERTIES SleepersWake ImplementsQueue
