SPECIFICATION FairSpec
CONSTANTS
    None = None
    alice = alice
    bob = bob
    ra = ra
    a1 = a1
    a2 = a2
    t1 = t1
    t2 = t2
    Users = {alice, bob}
    Repos = {ra}
    Slugs = {s1}
    AgentIds = {a1, a2}
    TaskIds = {t1, t2}
    Workers = {w1, w2}
    Calls = {k1, k2}
    OwnerOf <- Owners
    Parallel = FALSE
    Loads <- Mixtures
    Convs = {v1}
    Replies = {q1, q2}
    HasLLM = TRUE
    BufferSize = 1
    MaxChunks = 1
    MaxToolIterations = 1
INVARIANTS
    NoTaskGoesAstray
    AnswersFollowQuestions
PROPERTIES
    TasksRunOnce
    OnlyItsAuthorDeletes
    ListedTasksEnd
    ShutdownEnds
    RepliesEnd
\* Bounded: requests and faults are used up.
CHECK_DEADLOCK FALSE
