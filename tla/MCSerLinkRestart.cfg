SPECIFICATION Spec
CONSTANTS
  XorOf <- XorBytes
  Commands <- MCCommands
  Noise <- MCNoise
  MaxSends = 3
  MaxFaults = 1
  MaxRestarts = 1
INVARIANTS ReplyIsOwn
CHECK_DEADLOCK FALSE
