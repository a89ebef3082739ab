\* Three saves of one user and one quota change: a quota of 3 holds three
\* small snapshots, or a large and a small one.
SPECIFICATION QuotaSpec
CONSTANTS
    Saves = {s1, s2, s3}
    Sizes = {1, 2, 4}
    Kinds = {auth, memory}
    DefaultQuota = 3
    AdminQuota = 4
    Overrides = {2}
    MaxChanges = 1
    NoOverride = NoOverride
SYMMETRY SaveSymmetry
INVARIANTS
    OverlapAloneOverruns
    NewestSurvives
CHECK_DEADLOCK FALSE
