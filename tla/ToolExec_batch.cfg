SPECIFICATION FairExecSpec
CONSTANTS
    N = 4
    Workers = 2
    Handled = {1, 2, 4}
    Panicky = {2, 4}
INVARIANTS
    ReturnedIsComplete
PROPERTY BatchEnds
