\* Three requests of one user: chats, refinements and sign-ins that overlap.
SPECIFICATION Spec
CONSTANTS
    r1 = r1
    r2 = r2
    r3 = r3
    m1 = m1
    x = x
    y = y
    None = None
    DefaultModel = DefaultModel
    Requests = {r1, r2, r3}
    Models = {m1}
    Schemas = {x, y}
    Asks <- MCAsks
SYMMETRY Symmetry
INVARIANTS
    AnswersTheQuestion
    SignInsExclusive
    ClaimHasItsSignIn
CHECK_DEADLOCK FALSE
