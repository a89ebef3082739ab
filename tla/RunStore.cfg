\* Three requests over two courses, under the fairness of the handlers: every
\* interleaving of two recordings with a publication, a selection or a
\* withdrawal, on one selection key or on two.
SPECIFICATION FairSpec
CONSTANTS
    Requests = {q1, q2, q3}
    Courses = {c1, c2}
    Stages = {curated}
    None = None
INVARIANTS
    SelectionConsistent
    AutoNewestUpToOverlap
    AuditTruthful
PROPERTIES
    UnpublishPrecise
    ImplementsRegister
    EveryRequestAnswered
CHECK_DEADLOCK FALSE
