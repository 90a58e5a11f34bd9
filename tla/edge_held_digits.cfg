CONSTANTS
  ContextWindow = 6
  MaxGapWords = 2
  MaxHold = 3
  ContextTail = 3
  ReadbackWords = 2
  GiveUpWords = 4
  SilenceFrames = 1
  PartialFrames = 3
  MaxFrames = 5
  Hypotheses <- MCHypotheses
SPECIFICATION Spec
INVARIANT HeldDigitsLeaveHidden
CHECK_DEADLOCK FALSE
