CONSTANTS
    Identifiers = {"a", "b", "f", "get"}
    Numbers = {"1"}
    Strings = {"s"}
    Funcs = {"f"}
    Families <- MCFamilies
SPECIFICATION Spec
INVARIANTS NothingLost JumpsLegal Precedence OneValue Compiles SameNames
CHECK_DEADLOCK FALSE
