\* Three accepts, the safety properties only.
SPECIFICATION Spec
CONSTANTS
    Accepts = {a1, a2, a3}
    None = None
    Configs <- Both
SYMMETRY Symmetry
INVARIANTS TypeOK NoFaultUnlessRefused RefsExact DriverIdleAtClose
CHECK_DEADLOCK FALSE
