\* An accept with a timeout that the driver refuses.
SPECIFICATION Spec
CONSTANTS
    Accepts = {a1}
    None = None
    Configs <- TimedRefusing
INVARIANT TimeoutFindsOperation
CHECK_DEADLOCK FALSE
