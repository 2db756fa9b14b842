SPECIFICATION FairSpec
CONSTANTS
    Tasks = {t1, t2, t3}
    NoErr = NoErr
INVARIANTS ReadyIsLast
PROPERTIES StartupEnds FailureIsFatal Implements
CHECK_DEADLOCK FALSE
