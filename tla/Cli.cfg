\* Two commands of any kind, overlapping or one after the other.
SPECIFICATION Spec
CONSTANTS
    Processes = {p1, p2}
    MaxVersion = 1
    OtherTags = {nightly}
    Dev = Dev
    Old = Old
    None = None
    Absent = Absent
    Empty = Empty
    Mixed = Mixed
SYMMETRY ProcessSymmetry
INVARIANTS
    GivesUpForCause
PROPERTIES
    InstallsWholeNewer
CHECK_DEADLOCK FALSE
