SPECIFICATION FairSpec
CONSTANTS
    h1 = h1
    h2 = h2
    x1 = x1
    x2 = x2
    Hooks = {h1, h2}
    EventTypes = {"pr.merged"}
    Events = {x1}
    MaxAttempts = 3
    MaxConcurrent = 1
    Garblers = {h2}
    MaxEdits = 1
    MaxFaults = 2
INVARIANTS
    TypeOK
    OneCourier
    CopiesAreFresh
    BackOffKept
PROPERTIES
    LogsFollowLife
    SelectedAreSent
    DeliveriesEnd
