\* The owner and two other threads push two items each.
SPECIFICATION FairSpec
CONSTANTS
  Owner = o
  Remotes = {r1, r2}
  InitialSize = 0
  MaxPush = 2
INVARIANTS TypeOK ExactlyOnce ProducerOrder ReturnedFirst NeverStuck
PROPERTIES AllDelivered
\* Everything is pushed and popped: the threads may stop.
CHECK_DEADLOCK FALSE
