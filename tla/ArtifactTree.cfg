\* Two overlapping requests of any kind.
SPECIFICATION TreeSpec
CONSTANTS
    Handlers = {h1, h2}
    Slides = {s1}
    Tasks = {t1}
    Figures = {s1}
    Kinds = {"inventory", "raw", "extracted", "curated", "view", "refine", "documents"}
    MaxVersion = 1
    MaxRequests = 2
    Nil = Nil
SYMMETRY HandlerSymmetry
INVARIANTS
    CompleteWhenQuiet
    DocumentsReadableWhenQuiet
PROPERTIES
    NeedsReviewForCause
    ServedScriptIsComplete
CHECK_DEADLOCK FALSE
