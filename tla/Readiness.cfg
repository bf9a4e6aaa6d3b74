SPECIFICATION FairSpec
CONSTANTS
  s1 = s1
  s2 = s2
  w1 = w1
  w2 = w2
  None = None
  Subscribers <- MCSubscribers
  Waiters <- MCWaiters
  TokenSpace = 4
CHECK_DEADLOCK FALSE
INVARIANT NoTokenOnceReady
PROPERTIES RefinesLatch ListenersWake
