\* The ring grows twice and its counts wrap, two jobs wait ahead of a mark, and
\* host jobs settle what the body waits on.
SPECIFICATION FairSpec
CONSTANTS
    Task = {a, b}
    InitialCap = 1
    CountBound = 5
INVARIANTS
    TypeOK
    PendingWritten
PROPERTIES
    RingIsQueue
    NothingKeptAcrossJobs
    EveryJobRuns
    OrderedButForHost
