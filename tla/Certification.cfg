CONSTANTS
    h1 = h1
    h2 = h2
    l1 = l1
    Handles <- MCHandles
    Lineages <- MCLineages
    MaxAppends = 2
    MaxExpiries = 1
    MaxLosses = 1
SPECIFICATION Spec
SYMMETRY HandleSymmetry
INVARIANTS
    CertifiedIsProven
    CertificateMatches
CHECK_DEADLOCK FALSE
