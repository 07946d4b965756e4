SPECIFICATION FairSpec
CONSTANTS
  Threads = {t1, t2, t3, t4}
  Resource = 1
  MaxCount = 1
  TimedCallers = {t1, t2}
INVARIANTS TypeOK NoLostWakeup
PROPERTY ImplementsFairAtomic
