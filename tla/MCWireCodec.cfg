CONSTANTS
    Keys <- MCKeys
    Values <- MCValues
    Cmd <- MCCmd
    MaxParams = 2
    MaxReplyPairs = 2
SPECIFICATION Spec
INVARIANTS
    RequestIsReferenceLine
    ReplyParsedAsSent
