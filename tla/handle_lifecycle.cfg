\* One data operation; the three configurations of SafeConfigs.
SPECIFICATION FairSpec
CONSTANTS
    Data = {d1}
    OpenOp = open
    CloseOp = close
    Configs <- SafeConfigs
INVARIANTS
    TypeOK
    NoFault
    OpRefsExact
    HandleRefsExact
    CalledOnce
    CloseAfterUntimedData
PROPERTIES
    EveryOpCalledBack
    HandleReclaimed
\* A handle may be left alone, and a destroyed one stays as it is.
CHECK_DEADLOCK FALSE
