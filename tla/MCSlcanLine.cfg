CONSTANTS
  Characters <- MCCharacters
  Frames <- MCFrames
  Times <- MCTimes
  Noise <- MCNoise
  MaxLine = 18
  ReadSize = 6
  MaxLines = 3
  MaxDamage = 1
SPECIFICATION Spec
INVARIANTS WholeLinesArriveOnce
CHECK_DEADLOCK FALSE
