SPECIFICATION FairSpec
CONSTANT
  Polls = 3
INVARIANTS
  HookReported
  RegAgrees
PROPERTIES
  HookDebounced
  HookNoticed
