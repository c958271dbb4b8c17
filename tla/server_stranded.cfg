\* An accept completes after its timeout was refused and before the entry is put back.
SPECIFICATION FairSpec
CONSTANTS
    Accepts = {a1}
    None = None
    Configs <- Timed
PROPERTY CloseReclaims
CHECK_DEADLOCK FALSE
