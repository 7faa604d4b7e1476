SPECIFICATION FairSpec
CONSTANTS
    Symbols <- AllSymbols
    MaxLine = 3
    MaxChunk = 2
    MaxHexDigits = 2
    MaxHeaders = 4
    MaxTable = 9
    GgaInterval = 2
    Responses <- AllResponses
    MaxConnections = 2
    MaxElapsed = 3
INVARIANTS TypeOK HandshakeFirst NoDeadConnection RetryPending
PROPERTY Reconnects
CHECK_DEADLOCK FALSE
