\* One connection: a read and two writes registered at any moment of its life.
SPECIFICATION FairSpec
CONSTANTS
  r1 = r1
  w1 = w1
  w2 = w2
  Reads = {r1}
  Writes = {w1, w2}
  OpSize <- MCOpSize
  MaxIncoming = 2
  Faults = {"getsockopt", "bind", "accept"}
INVARIANTS OneAnswer WritesAccounted ReadsAccounted FdReleasedOnce FullBufferIsArmed
PROPERTIES WritesAnsweredUnlessFull ReadsAnswered ConnectAnswered
CHECK_DEADLOCK FALSE
