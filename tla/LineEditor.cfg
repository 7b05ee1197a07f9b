CONSTANTS
    Letters = {"a"}
    MaxLine = 3
    MaxPast = 2
    Height = 4
    Widths = {1, 2, 3}
    Prompts <- TwoPrompts
SPECIFICATION ESSpec
INVARIANTS
    ShownAgrees
    ShowsLine
PROPERTIES
    KeepsHistory
    OutputKept
