\* One directory, commands and a daemon that take turns, every fault once.
CONSTANTS
    d1 = d1
    cli = cli
    daemon = daemon
    Dirs = {d1}
    Procs = {cli, daemon}
    Dir <- DirOf
    Daemons = {daemon}
    Together = FALSE
    Paths = {x, y}
    a = a
    x = x
    Defaults <- DefaultRules
    Data = {a, b}
    Template <- TemplateOf
    NoData = none
    Modes = {"always", "init-only"}
    Torn = Torn
    MaxWrites = 2
    MaxEdits = 1
    MaxCalls = 2
    MaxFaults = 1
SPECIFICATION FairSpec
INVARIANTS TypeOK AtHeadHasAll SentArrived
PROPERTIES NoBlindOverwrite CatchesUp
CHECK_DEADLOCK FALSE
