CONSTANTS
    Nodes <- Chain
    Dirs <- ChainDirs
    Links = {}
    Root = 0
    Container <- Outside
    Parent <- ChainParent
    Depth <- ChainDepth
    Initial <- Chain
    ReadOnly = {}
    Unreadable = {}
    Busy = {}
    Owned = {}
    Matching = {}
    Traversable = {}
    Removables = {}
    Workers = {}
    Main = main
    Jobs <- PlainJob
    BatchSize = 1
    MaxOpen = 3
    MayAbort = FALSE
    EnvBudget = 0
SPECIFICATION FairSpec
INVARIANTS AnyDepthRemoved
