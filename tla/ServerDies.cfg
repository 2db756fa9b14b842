SPECIFICATION Spec
CONSTANTS
    Requests = {r1}
    Preloads = {s1}
    Debuggers = {}
    Names <- MCNames
    HasPrefix <- MCPrefix
    Limit = 1
    Debug = FALSE
    CheckWebpack1337 = FALSE
    Kinds = {"good"}
    DirMoves = FALSE
    MaxEdits = 0
    MaxPartials = 0
    Nobody = Nobody
    Nil = Nil
    Blank = Blank
    NoErr = NoErr
INVARIANTS StartupSurvives
