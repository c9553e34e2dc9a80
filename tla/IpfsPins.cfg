SPECIFICATION Spec
CONSTANTS
    Instance = {i1, i2}
    Nft = {n1, n2}
    Cid = {a, b}
    Job = {j1, j2}
    MaxChange = 1
    None = None
    Gone = Gone
    Anonymous = Anonymous
SYMMETRY Symmetry
INVARIANTS
    PinnedIsNamed
    ConfirmedStaysPinned
