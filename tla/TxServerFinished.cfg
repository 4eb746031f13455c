SPECIFICATION Spec
CONSTANTS
    Labels = {A}
    Keys = {k}
    PlainValues = {v}
    TemporalValues = {}
    MaxTx = 1
    MaxLog = 1
CHECK_DEADLOCK FALSE
PROPERTIES NoWriteAfterFinish
