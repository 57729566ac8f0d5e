CONSTANTS
  Devices = {0, 1, 12}
  Noisy = {1}
  MaxRaised = 2
  MaxNoise = 2
SPECIFICATION PicFairSpec
INVARIANTS NothingStaysInService
PROPERTIES UnmaskedIsServed
CHECK_DEADLOCK FALSE
