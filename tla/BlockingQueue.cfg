CONSTANTS
  p = p
  c1 = c1
  c2 = c2
  NoThread = NoThread
  Threads = {p, c1, c2}
  Items = {i1, i2}
  May <- Roles
SPECIFICATION FairSpec
INVARIANTS FIFO NoLostWakeup EndReachesWaiters
PROPERTIES AcceptedIsTaken PopReturnsAfterEnd ChannelSpec
