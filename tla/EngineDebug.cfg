SPECIFICATION Spec
CONSTANTS
    Requests = {r1, r2}
    Preloads = {}
    Debuggers = {d1}
    Names <- MCNames
    HasPrefix <- MCPrefix
    Limit = 2
    Debug = TRUE
    CheckWebpack1337 = FALSE
    Kinds = {"good", "dangling", "panics"}
    DirMoves = FALSE
    MaxEdits = 1
    MaxPartials = 0
    Nobody = Nobody
    Nil = Nil
    Blank = Blank
SYMMETRY MCSymmetry
INVARIANTS ServesFresh SlotsAccounted LoadsAlone
