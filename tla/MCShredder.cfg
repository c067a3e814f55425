CONSTANTS
    f1 = f1
    f2 = f2
    n1 = n1
    n2 = n2
    n3 = n3
    w1 = w1
    w2 = w2
    None = None
    Workers = {w1, w2}
    Names = {n1, n2, n3}
    Files = {f1, f2}
    LeadsTo <- MCLeadsTo
    Empty = {f2}
    ReadOnly = {f1}
    Owned = {f1}
    Jobs <- MCJobs
    Renames = 2
    MaxMet = 1
    Mishaps = 1
SPECIFICATION FairSpec
INVARIANTS TypeOK WipedFirst Accounted
PROPERTIES Terminates
