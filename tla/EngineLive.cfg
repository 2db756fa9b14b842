SPECIFICATION FairSpec
CONSTANTS
    Requests = {r1, r2}
    Preloads = {}
    Debuggers = {}
    Names <- MCOneName
    HasPrefix <- MCOnePrefix
    Limit = 1
    Debug = FALSE
    CheckWebpack1337 = FALSE
    Kinds = {"good", "corrupt"}
    DirMoves = TRUE
    MaxEdits = 3
    MaxPartials = 0
    Nobody = Nobody
    Nil = Nil
    Blank = Blank
PROPERTIES CallsEnd Recovers
