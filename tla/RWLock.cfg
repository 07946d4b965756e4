SPECIFICATION FairSpec
CONSTANTS
  Threads = {t1, t2, t3}
  InitCounts = {0}
INVARIANTS TypeOK MutualExclusion IInv
PROPERTIES WritersServedTogether ImplementsReadersWriters GateHolderAdmitted
