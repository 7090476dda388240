SPECIFICATION Spec
CONSTANT
  Polls = 2
PROPERTY AppliedIfAppropriate
