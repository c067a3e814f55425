CONSTANTS
    x = x
    y = y
    file = file
    dir = dir
    link = link
    Procs = {p}
    Objects = {file, dir, link}
    Directories = {dir}
    Dangling = {link}
    Places = {x, y}
    Remote = {y}
    Base <- MCBase
    MaxSuffix = 2
    ReadBack <- MCReadBack
    Mishaps = 1
    None = None
    Blank = Blank
SPECIFICATION Spec
INVARIANTS TypeOK Recoverable Tidy
PROPERTIES KeepsPromise
