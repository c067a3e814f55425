CONSTANTS
    root = root
    d = d
    e = e
    f1 = f1
    f2 = f2
    f3 = f3
    newFile = newFile
    newDir = newDir
    outer = outer
    main = main
    Nodes <- MCNodes
    Dirs <- MCDirs
    Links = {f2}
    Root = root
    Container = outer
    Parent <- MCParent
    Depth <- MCDepth
    Initial <- MCInitial
    ReadOnly = {d}
    Unreadable = {newDir}
    Busy = {newFile}
    Owned = {root, d, e, f1, f3, outer}
    Matching = {}
    Traversable = {}
    Removables = {}
    Workers = {}
    Main = main
    Jobs <- MCJobs
    Capacity = 2
    Garbage <- MCGarbage
    MaxOpen = 4
    MayAbort = TRUE
    EnvBudget = 1
SPECIFICATION FairSpec
INVARIANTS TypeOK EntriesAccounted CountsAreRemovals NoLeftovers
PROPERTIES KeepsPromise Terminates
