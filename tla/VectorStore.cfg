SPECIFICATION FairSpec
CONSTANTS
    w1 = w1
    w2 = w2
    r1 = r1
    r2 = r2
    None = None
    Ids = {0, 1, 2, 3}
    Stored = {0}
    Writers <- MCWriters
    Readers <- MCReaders
    Cancellable <- MCCancellable
    Jobs <- MCJobs
    MaxBatchSize = 2
INVARIANTS
    BatchesAreAccounted
    ReadersSeeWholeBatches
PROPERTIES
    CancelledSearchReturns
CHECK_DEADLOCK FALSE
