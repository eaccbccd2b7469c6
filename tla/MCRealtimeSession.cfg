SPECIFICATION SessionFairSpec
CONSTANTS
  MaxTurn = 3
  MaxAudio = 2
  MaxError = 1
  MaxDrain = 2
INVARIANTS SessionTypeOK TranscriptOfItsTurn
PROPERTY SessionEnds
CHECK_DEADLOCK FALSE
