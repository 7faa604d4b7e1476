SPECIFICATION Spec
CONSTANTS
    Symbols <- AllSymbols
    MaxLine = 3
    MaxChunk = 2
    MaxHexDigits = 2
    MaxHeaders = 4
    MaxTable = 9
    GgaInterval = 2
    Responses <- EndingResponses
    MaxConnections = 2
    MaxElapsed = 3
INVARIANT StreamEndedByLastChunk
CHECK_DEADLOCK FALSE
