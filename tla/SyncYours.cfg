\* One directory, every path init-only, no faults.
CONSTANTS
    d1 = d1
    cli = cli
    daemon = daemon
    Dirs = {d1}
    Procs = {cli, daemon}
    Dir <- DirOf
    Daemons = {daemon}
    Together = FALSE
    Paths = {x, y}
    a = a
    x = x
    Defaults <- AllInitOnly
    Data = {a, b}
    Template <- TemplateOf
    NoData = none
    Modes = {"init-only"}
    Torn = Torn
    MaxWrites = 2
    MaxEdits = 1
    MaxCalls = 2
    MaxFaults = 0
SPECIFICATION Spec
PROPERTIES YoursAlone
CHECK_DEADLOCK FALSE
