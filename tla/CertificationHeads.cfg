CONSTANTS
    h1 = h1
    h2 = h2
    l1 = l1
    Handles <- MCHandles
    Lineages <- MCLineages
    MaxAppends = 2
    MaxExpiries = 1
    MaxLosses = 0
SPECIFICATION Spec
INVARIANT HeadsDescribeFrontier
CHECK_DEADLOCK FALSE
