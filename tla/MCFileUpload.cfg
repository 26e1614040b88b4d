CONSTANTS
    MaxRetries = 3
    Dests <- MCDests
    NoDest = 0
    Sizes = {0, 1, 3}
    Timeout = 2
    MaxClock = 13
SPECIFICATION Spec
INVARIANT TypeOK
INVARIANT SuccessMeansCommitted
INVARIANT DestinationPutAtMostTwice
INVARIANT StalledUploadAborted
PROPERTY UploadTerminates
