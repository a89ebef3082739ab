\* Four calls of the token endpoint, one code, two clients: chains of up to
\* four tokens, with overlapping and repeated refreshes.
SPECIFICATION Spec
CONSTANTS
    Requests = {q1, q2, q3, q4}
    Codes = {k1}
    Clients = {a, b}
    None = None
SYMMETRY Symmetry
INVARIANTS
    CodeExchangedOnce
    TokensKeepTheirClient
    RotationConservesTokens
CHECK_DEADLOCK FALSE
