SPECIFICATION Spec
CONSTANTS
    Requests = {r1, r2}
    Preloads = {}
    Debuggers = {}
    Names <- MCNames
    HasPrefix <- MCPrefix
    Limit = 0
    Debug = TRUE
    CheckWebpack1337 = FALSE
    Kinds = {"good"}
    DirMoves = FALSE
    MaxEdits = 0
    MaxPartials = 0
    Nobody = Nobody
    Nil = Nil
    Blank = Blank
INVARIANTS FoundOnDemand
