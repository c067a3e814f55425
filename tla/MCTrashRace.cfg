CONSTANTS
    x = x
    y = y
    file = file
    dir = dir
    link = link
    Procs = {p, q}
    Objects = {file, dir, link}
    Directories = {dir}
    Dangling = {}
    Places = {x, y}
    Remote = {}
    Base <- MCBase
    MaxSuffix = 1
    ReadBack <- MCReadBack
    Mishaps = 0
    None = None
    Blank = Blank
SPECIFICATION Spec
PROPERTIES NothingDestroyed
