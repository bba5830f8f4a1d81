SPECIFICATION FairSpec
CONSTANTS
  XorOf <- XorBytes
  Commands <- MCCommands
  Noise <- MCNoise
  MaxSends = 3
  MaxFaults = 2
  MaxRestarts = 1
INVARIANTS RepliesHandedOver
PROPERTIES CommandsAreAnswered
CHECK_DEADLOCK FALSE
