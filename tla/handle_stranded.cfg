\* An operation completes after its timeout was refused, before the entry is put back.
SPECIFICATION FairSpec
CONSTANTS
    Data = {d1}
    OpenOp = open
    CloseOp = close
    Configs <- TimedData
PROPERTY
    CloseReclaims
CHECK_DEADLOCK FALSE
