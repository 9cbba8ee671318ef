SPECIFICATION Spec
CONSTANTS
    Blank = Blank
    Unhashable = {List}
    List = List
    Nesting <- MCNesting
    Cases <- MCCases
INVARIANTS
    FirstMatchWins
    FewerSignalsMatchLater
    OnlyUnhashableRaises
    FailsClosed
    OrderIsForNumbers
CHECK_DEADLOCK FALSE
