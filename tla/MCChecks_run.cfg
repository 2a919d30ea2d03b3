CONSTANTS
    Null = Null
    NaN = NaN
    Fields <- MCFields
    BatchLimit = 2
    PlanLimit = 7
    Conditions <- MCConditions
    Catalog <- MCCatalog
SPECIFICATION ChecksSpec
INVARIANTS ResultsTrue PublishedCertified
CHECK_DEADLOCK FALSE
