SPECIFICATION FairSpec
CONSTANTS
    Requests = {r1}
    Preloads = {s1}
    Debuggers = {}
    Names <- MCNames
    HasPrefix <- MCPrefix
    Limit = 1
    Debug = FALSE
    CheckWebpack1337 = FALSE
    Kinds = {"good", "corrupt", "panics"}
    DirMoves = FALSE
    MaxEdits = 1
    MaxPartials = 0
    Nobody = Nobody
    Nil = Nil
    Blank = Blank
    NoErr = NoErr
INVARIANTS ReadyMeansLoaded
PROPERTIES ReadyEndsLoading ReadyOrDead PreloadFailureIsFatal
