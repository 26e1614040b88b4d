CONSTANTS
    BufSize = 4
    LineLen = 6
    Scripts <- MCScripts
    ClientId <- MCClientId
    NoClient = NoClient
    AfterBuf <- MCAfterBuf
    MaxConnects = 2
SPECIFICATION Spec
INVARIANT WatchLinesAsSent
