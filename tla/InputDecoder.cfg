CONSTANTS
    Keys <- XtermKeys
    Encoding <- XtermEncoding
    Meant <- XtermMeant
    Cuttable <- CutKeys
    MaxKeys = 3
SPECIFICATION DecoderSpec
INVARIANTS
    KeysAgree
    FirstWrongIsEscape
