SPECIFICATION Spec
CONSTANTS
    a = a
    b = b
    i1 = i1
    Lineages = {a, b}
    Instance <- TwoLineages
    Samples <- AllSamples
    Batches = {2}
    AnyEvent = FALSE
    ClockSteps = FALSE
    MaxCommits = 3
    MaxOf <- Three
    MaxQuiet = 1
    MaxDiagnostics = 1
    MaxCustody = 1
SYMMETRY Symmetry
INVARIANTS
    BoundaryValid
    NextEvaluationIsAdmitted
    ExpiryNeverCostsTheCollection
    NeededIsKept
CHECK_DEADLOCK FALSE
