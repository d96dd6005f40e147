CONSTANTS
    None = None
    Bad = Bad
    DataRow <- MCDataRow
    Start <- MCStart
    Base <- MCBase
    MaxCommit = 3
SPECIFICATION DataSpec
INVARIANTS IndexExact GridExact SameAsLoad
CHECK_DEADLOCK FALSE
