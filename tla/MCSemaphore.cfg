SPECIFICATION SFairSpec
CONSTANTS
  Threads = {t1, t2, t3}
  Amounts = {1, 2}
  MaxCount = 3
INVARIANTS SemTypeOK NoLostWakeup
PROPERTY FairAtomicSemaphore
