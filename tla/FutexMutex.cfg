\* Three threads: a holder, a parked waiter and a barging thread at once.
SPECIFICATION FairSpec
CONSTANTS
    Thread = {t1, t2, t3}
    SpinBudget = 2
INVARIANTS
    TypeOK
    MutualExclusion
    WordTellsOwner
    NoLostWakeup
PROPERTIES
    SomebodyLocks
    LockReturns
