CONSTANTS
    Typed <- LineTokens
    Lines <- LineLengths
    Alphabet <- LineCharacters
    MaxLine = 5
SPECIFICATION FESpec
INVARIANTS
    TokensTile
    PaintedAsTyped
    ReadAsTyped
    FailedRanOnlyCode
PROPERTIES
    DebugEndsWithLine
CHECK_DEADLOCK FALSE
