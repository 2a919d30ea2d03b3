CONSTANTS
    b1 = b1  b2 = b2  j1 = j1  j2 = j2  j3 = j3  t1 = t1  t2 = t2
    Builds = {b1, b2}
    Jobs = {j1, j2, j3}
    Targets = {t1, t2}
    Imports = {i1}
    BuildOf <- RivalBuildOf
    TargetOf <- RivalTargetOf
    Upstream <- RivalUpstream
    Artifacts = {d1}
    MaxTries = 1
    MaxSession = 2
    None = None
SPECIFICATION Spec
INVARIANTS HeadHistory VisibleIsDurable VerdictAgrees
PROPERTIES LogSpec
CHECK_DEADLOCK FALSE
