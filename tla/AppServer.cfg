\* Two pages, a channel of two messages, and two messages of no turn.
SPECIFICATION Spec
CONSTANTS
    Pages = 2
    Capacity = 2
    MaxChatter = 2
    None = None
INVARIANTS
    PageTextIsFinal
    WaitsOnlyIfDropped
CHECK_DEADLOCK FALSE
