SPECIFICATION Spec
CONSTANTS
    Main = "page"
    Instructions <- MCInstructions
    Programs <- MCPrograms
    Globals <- MCGlobals
    Items <- MCItems
    TheMap = "map"
    Maps <- MCMaps
    Before <- MCBefore
    Exception = Exception
    Index = Index
    Null = Null
    MaxExecDepth = 5
    MaxIterations = 3
    MaxStack = 16
INVARIANTS TypeOK BlockScope KeepsValues
PROPERTIES RenderEnds EachKeyWalked Isolated
