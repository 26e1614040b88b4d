CONSTANTS
    PathsReplies <- MCPathsReplies
    BadUrls <- MCBadUrls
    NumPaths = 2
    Lengths <- MCLengths
    MaxBufferSize = 1
    RequiredLengths <- MCRequired
    Chunks <- MCChunks
    Timeout = 1
    NoFile = NoFile
SPECIFICATION Spec
INVARIANTS
    TypeOK
    SinkHoldsDeliveredBytes
    FailedTransferDiscarded
    StalledTransferAborted
    DownloadFollowsTrackerReply
PROPERTY DownloadReturns
