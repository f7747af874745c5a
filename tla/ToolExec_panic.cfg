SPECIFICATION ExecSpec
CONSTANTS
    N = 2
    Workers = 8
    Handled = {1, 2}
    Panicky = {2}
INVARIANT PanicBecomesErrorResult
