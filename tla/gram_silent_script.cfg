\* A script that ends without a report.
SPECIFICATION Spec
CONSTANTS
    Jobs <- StageInJob
    Fails = {"die"}
    Max <- Bounds
INVARIANT
    ClientTold
CHECK_DEADLOCK FALSE
