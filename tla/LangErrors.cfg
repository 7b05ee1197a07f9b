CONSTANTS
    Typed <- LineTokens
    Lines <- JustShort
    Alphabet <- LineCharacters
    MaxLine = 3
SPECIFICATION FESpec
INVARIANTS
    ErrorsRefused
CHECK_DEADLOCK FALSE
