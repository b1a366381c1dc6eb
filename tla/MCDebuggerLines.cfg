SPECIFICATION Spec
CONSTANTS
  Calls <- MCCalls
  Names <- MCNames
  Numbers = {1}
  Frames <- MCFrames
  Values = {}
  MaxList = 2
INVARIANTS MessagesEnd
