\* One write of two bytes to a peer that goes on reading.
SPECIFICATION FairSpec
CONSTANTS
  r1 = r1
  w1 = w1
  w2 = w2
  Reads = {}
  Writes = {w2}
  OpSize <- MCOpSize
  MaxIncoming = 0
  Faults = {}
PROPERTIES WritesAnswered
CHECK_DEADLOCK FALSE
