\* Three requests of two Clerk users for accounts of two sites, one bridge.
SPECIFICATION Spec
CONSTANTS
    Requests = {q1, q2, q3}
    Clerks = {c1, c2}
    Bridges = {b1}
    Identities <- MCIdentities
    MaxChanges = 1
    None = None
SYMMETRY Symmetry
INVARIANTS
    SessionMatchesUser
    ConnectedReachesTheClient
PROPERTIES
    RowsMoveWithTheirClerk
    BridgeSettlesOnce
CHECK_DEADLOCK FALSE
