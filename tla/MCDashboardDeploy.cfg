SPECIFICATION Spec
CONSTANTS
    Titles = {t1, t2}
    Runs = {r1, r2}
    Attempts = 2
    MaxTime = 1
INVARIANTS TypeOK LossIsAccounted NoDashboardLeftStripped
PROPERTIES ReplacedByOne
SYMMETRY Symmetry
CHECK_DEADLOCK FALSE
