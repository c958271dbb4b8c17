\* A crash after the terminal event of the job was consumed.
SPECIFICATION Spec
CONSTANTS
    Jobs <- PlainJob
    Fails = {}
    Max <- OneCrash
INVARIANT
    SomethingWillWake
CHECK_DEADLOCK FALSE
