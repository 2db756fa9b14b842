SPECIFICATION Spec
CONSTANTS
    Main = "page"
    Instructions <- MCRecursiveInstructions
    Programs <- MCRecursive
    Globals <- MCGlobals
    Items <- MCItems
    TheMap = "map"
    Maps <- MCMaps
    Before <- MCBefore
    Exception = Exception
    Index = Index
    Null = Null
    MaxExecDepth = 5
    MaxIterations = 3
    MaxStack = 24
INVARIANT DepthLimited
CHECK_DEADLOCK FALSE
