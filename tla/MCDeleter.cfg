CONSTANTS
    root = root
    d = d
    e = e
    f1 = f1
    f2 = f2
    f3 = f3
    newFile = newFile
    newDir = newDir
    outer = outer
    w1 = w1
    w2 = w2
    main = main
    Nodes <- MCNodes
    Dirs <- MCDirs
    Links = {f2}
    Root = root
    Container = outer
    Parent <- MCParent
    Depth <- MCDepth
    Initial <- MCInitial
    ReadOnly = {d}
    Unreadable = {newDir}
    Busy = {newFile}
    Owned = {root, d, e, f1, f3, outer}
    Matching = {f1, f3, newFile}
    Traversable = {d, e}
    Removables = {d, e}
    Workers = {w1, w2}
    Main = main
    Jobs <- MCJobs
    BatchSize = 2
    MaxOpen = 4
    MayAbort = TRUE
    EnvBudget = 1
SPECIFICATION FairSpec
INVARIANTS TypeOK PostOrder ItemsAccounted CountsAreRemovals NoLeftovers
PROPERTIES KeepsPromise ReplacedRootKept Terminates
