SPECIFICATION Spec
CONSTANTS
    Strings = {"main"}
    Numbers = {"1"}
    Variables = {"x"}
    Words <- MCWords
    Signs <- MCSigns
    MaxItems <- MCMaxItems
    MainName = "main"
INVARIANTS TypeOK InOrder LexerDone
PROPERTIES DefinedOnce
