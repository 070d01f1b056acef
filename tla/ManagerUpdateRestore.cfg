SPECIFICATION Spec
CONSTANTS
    Workers = {w1}
    Newest = 2
    Operations = TRUE
    DiskFaults = FALSE
INVARIANTS RemembersStopped
