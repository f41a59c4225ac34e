SPECIFICATION Spec
CONSTANTS
    Parent = p
    Child = {a, b}
    Lease = {l1, l2}
    None = None
    Cap = 3
    MaxChildren = 2
    MaxUsd = 2
SYMMETRY Symmetric
INVARIANTS TypeOK OneUnknownPaid WithinCap ChildrenAreSilent
PROPERTIES DebtIsKept
CHECK_DEADLOCK FALSE
