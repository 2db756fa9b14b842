SPECIFICATION Spec
CONSTANTS
    Requests = {r1, r2}
    Preloads = {s1}
    Debuggers = {}
    Names <- MCNames
    HasPrefix <- MCPrefix
    Limit = 1
    Debug = FALSE
    CheckWebpack1337 = TRUE
    Kinds = {"good", "dangling", "absent"}
    DirMoves = FALSE
    MaxEdits = 0
    MaxPartials = 1
    Nobody = Nobody
    Nil = Nil
    Blank = Blank
SYMMETRY MCSymmetry
INVARIANTS TypeOK PublishedComplete LoadedAtLookup
PROPERTIES LoadsOnce
