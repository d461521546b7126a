\* Computations, propagations and checks return.  Five constraints are checked in
\* batches of two.
CHECK_DEADLOCK FALSE
SPECIFICATION MCSpec
CONSTANTS
    Traces <- MCTraces
    N = 5
    BatchSize = 2
    Verdicts = {"holds", "fails", "panics"}
INVARIANTS HeapKept RowsComputed InstancesSound VerdictExact
PROPERTY Ends
