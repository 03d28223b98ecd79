SPECIFICATION Spec
CONSTANTS
    Runs = {r1, r2, r3}
    Keys = {k1, k2}
    Destinations <- AllDestinations
    Attempts <- DefaultAttempts
    None = None
SYMMETRY RunSymmetry
INVARIANT ReportedIsDelivered
PROPERTY GuardSpec
CHECK_DEADLOCK FALSE
