CONSTANTS
    a = a
    b = b
    c = c
    torn = torn
    None = None
    Paths = {1, 2, 3, 4, 5}
    Ids = {1, 2, 3, 4, 5, 6}
    Data = {a, b, c, torn}
    Size <- MCSize
    Sample <- MCSample
    Torn = torn
    LastTime = 2
    Wanted = {5, 9}
    Unreadable = {5}
    Starts <- MCStarts
    Jobs <- MCJobs
    Meddling = 1
    Mishaps = 2
SPECIFICATION FairSpec
INVARIANTS TypeOK ReportExact NoContentLost NamesKept StatsExact
PROPERTIES KeepsBetter Terminates
