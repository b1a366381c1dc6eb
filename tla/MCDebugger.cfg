SPECIFICATION TargetSpec
CONSTANTS
  Wants = {"begin", "end", "resume", "step", "locals", "pause", "addBreak", "lineTooLarge", "putEmpty", "detach"}
  MaxInbox = 2
  Calls <- MCCalls
  Names <- MCNames
  Numbers <- MCNumbers
  Frames <- MCFrames
  Values <- MCValues
  MaxList = 2
INVARIANTS TypesOK  RequestsArrive  StatusTruthful AnswersOwn RefusedOnlyLate
PROPERTIES CallsAnswered ScriptResumes ConnectEnds
