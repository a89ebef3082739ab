\* Three requests that may overlap, over two tasks.
SPECIFICATION Spec
CONSTANTS
    Handlers = {h1, h2, h3}
    Tasks = {t1, t2}
    None = None
SYMMETRY HandlerSymmetry
INVARIANTS
    LossHasACause
    ReadableWhenQuiet
CHECK_DEADLOCK FALSE
