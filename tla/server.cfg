\* Two accepts; they have timeouts, or a driver that may refuse them.
SPECIFICATION FairSpec
CONSTANTS
    Accepts = {a1, a2}
    None = None
    Configs <- Both
INVARIANTS NoFaultUnlessRefused RefsExact DriverIdleAtClose
PROPERTY ServerReclaimed
CHECK_DEADLOCK FALSE
