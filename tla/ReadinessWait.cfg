SPECIFICATION FairSpec
CONSTANTS
  s1 = s1
  s2 = s2
  w1 = w1
  w2 = w2
  None = None
  Subscribers <- MCOneSubscriber
  Waiters <- MCOneWaiter
  TokenSpace = 4
CHECK_DEADLOCK FALSE

PROPERTY WaitersWake
