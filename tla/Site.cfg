SPECIFICATION SmallSpec
CONSTANTS
    None = None
    alice = alice
    bob = bob
    carol = carol
    guild = guild
    r1 = r1
    n1 = n1
    Users = {alice, bob, carol}
    Founders = {alice, bob}
    Secured = {bob}
    Names = {alice, bob, guild}
    Calls = {c1, c2}
    OrgIds = {o1}
    Codes = {k1}
    GithubIds = {g1}
    Pendings = {p1}
    MaxAttempts = 2
    TeamIds = {t1}
    TeamNames = {m1, m2}
    RepoIds = {r1, r2}
    RepoNames = {n1, n2}
    Jobs = {j1}
    Keys = {a1}
    Limit = 1
    Conns = {w1, w2}
    BufSize = 1
    NoticeIds = {i1, i2, i3}
    IssueIds = {s1, s2}
    Texts = {x1, x2}
    Batch = 2
    Loads <- Mixtures
SYMMETRY AnyCall
INVARIANTS
    GuessesAreBounded
    StatusIsTrue
    CountersExpire
    ListIsSound
    EmbeddingIsOwn
PROPERTIES
    DirectoriesStay
CHECK_DEADLOCK FALSE
