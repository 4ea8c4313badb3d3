CONSTANTS
  NoThread = NoThread
  Threads = {w1, k1, k2}
  Waiters = {w1}
  Workers = {k1, k2}
  Initial = 2
  MaxAdds = 3
SPECIFICATION FairSpec
INVARIANTS CountIsOutstandingWork SoleWaiterIsTold
PROPERTIES LatchSpec WaitReturns
