SPECIFICATION Spec
CONSTANTS
    h1 = h1
    h2 = h2
    x1 = x1
    x2 = x2
    Hooks = {h1}
    EventTypes = {"pr.merged"}
    Events = {x1}
    MaxAttempts = 3
    MaxConcurrent = 1
    Garblers = {h1}
    MaxEdits = 1
    MaxFaults = 0
INVARIANTS
    RetriesBackOff
