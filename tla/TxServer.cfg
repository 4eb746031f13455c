SPECIFICATION Spec
CONSTANTS
    Labels = {A}
    Keys = {k}
    PlainValues = {v}
    TemporalValues = {date}
    MaxTx = 2
    MaxLog = 2
CHECK_DEADLOCK FALSE
INVARIANTS GraphsSound OverlapHarmless
PROPERTIES RollbackRestores
