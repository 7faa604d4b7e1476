SPECIFICATION Spec
CONSTANTS
    Symbols <- AllSymbols
    MaxLine = 3
    MaxChunk = 2
    MaxHexDigits = 2
    MaxHeaders = 4
    MaxTable = 9
    GgaInterval = 2
    MaxBodyLen = 3
    Scripts <- AllScripts
INVARIANTS TypeOK FragmentationIndependent BuffersBounded AssemblyIndependent SameInOneRead
