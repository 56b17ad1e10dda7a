CONSTANTS
    Prime = 7
    RangeSize = 4
    EncodingBound = 8
    WordSize = 16
    Columns = 4
    LowColumns = 2
SPECIFICATION ColumnsSpec
INVARIANTS
    OnlyWordsAccepted
    TraceMeansWord
\* One evaluation, then the end.
CHECK_DEADLOCK FALSE
