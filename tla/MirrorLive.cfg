SPECIFICATION FairSpec
CONSTANTS
    None = None
    r1 = r1
    h1 = h1
    h2 = h2
    w1 = w1
    i1 = i1
    i2 = i2
    i3 = i3
    Repos = {r1}
    Handlers = {h1}
    Slots = {w1}
    RunIds = {i1, i2, i3}
    Requests <- PushAndPull
    MinReap = 1
    SyncTimeout = 1
    AgeCap = 4
    DueLimit = 1
    HistoryLimit = 1
    MaxFaults = 1
PROPERTIES
    SyncsAreSerial
    RunsEnd
    TickEnds
    DueMirrorsAreSynced
\* Bounded: run ids and faults are used up.
CHECK_DEADLOCK FALSE
