SPECIFICATION Spec
CONSTANTS
    Blank = Blank
    Unhashable = {List}
    List = List
    Nesting <- MCNesting
    Cases <- MCCases
INVARIANT
    LoadedAlwaysIsTrue
CHECK_DEADLOCK FALSE
