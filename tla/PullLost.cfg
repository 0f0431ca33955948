SPECIFICATION Spec
CONSTANTS
    None = None
    p1 = p1
    p2 = p2
    alice = alice
    bob = bob
    carol = carol
    ra = ra
    rb = rb
    main = main
    topic = topic
    c0 = c0
    c1 = c1
    c2 = c2
    c3 = c3
    m1 = m1
    m2 = m2
    Prs = {p1, p2}
    Users = {alice, bob}
    Repos = {ra, rb}
    Names = {main, topic}
    Patterns = {1}
    Commits = {c0, c1, c2, c3}
    Mergers = {m1, m2}
    Root = c0
    Owner <- Owners
    Matches <- MatchMain
    Requests <- SameTarget
    Bodies <- AllBodies
    Rules <- OneReview
    PoolSize = 3
    MaxEdits = 0
SYMMETRY MCSymmetry
INVARIANTS
    NoMergeLost
\* Bounded: commit ids and edits are used up.
CHECK_DEADLOCK FALSE
