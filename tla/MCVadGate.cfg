SPECIFICATION Spec
CONSTANTS
  StartFrames = 2
  EndFrames = 3
  MinFrames = 4
  MaxFrames = 7
  PrefixFrames = 4
  StreamLength = 14
INVARIANTS TypeOK UnbrokenAndDisjoint NoSpeechDropped EndsInSilence
CHECK_DEADLOCK FALSE
