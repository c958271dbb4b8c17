\* A read or write whose pass fails while another thread closes the handle.
SPECIFICATION Spec
CONSTANTS
    Data = {d1}
    OpenOp = open
    CloseOp = close
    Configs <- HastyClose
INVARIANT
    NoFault
CHECK_DEADLOCK FALSE
