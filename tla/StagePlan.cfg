\* Two concurrent callers over the last three stages, with reviewers.
SPECIFICATION Spec
CONSTANTS
    Callers = {p1, p2}
    StageOrder <- MCStages
    Documents <- MCDocuments
    None = None
INVARIANTS
    StepTellsTheRun
    PlanShape
    NoStageSkipped
PROPERTIES
    FailedStageKeepsSelection
CHECK_DEADLOCK FALSE
